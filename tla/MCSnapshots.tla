---------------------------- MODULE MCSnapshots -----------------------------
(* Snapshots of two accounts with up to two strategies and positions each. *)
EXTENDS Snapshots

LOCAL Names == {"crypto", "weather"}
LOCAL Accounts2 ==
  {<<[strategies |-> r, balance |-> 10, pnl |-> -1, positions |-> ("x" :> p)],
     [strategies |-> q, balance |-> 7, pnl |-> 2, positions |-> ("x" :> p2 @@ "y" :> p2)]>> :
     r \in {<<"crypto">>, <<"crypto", "weather">>}, q \in {<<"weather">>, <<"crypto", "weather">>},
     p \in [size : {0, 5}, avg_cost : {40}, strategy : {"crypto_alpha", Untagged}],
     p2 \in [size : {3}, avg_cost : {60}, strategy : {"weather", "smart_money"}]}
LOCAL Books == {[t \in {"x", "y"} |-> IF t = "x" THEN b ELSE [bid |-> 30, ask |-> NoPrice]] :
                  b \in [bid : {NoPrice, 20}, ask : {NoPrice, 24}]}
LOCAL Dates == [t \in {"x", "y"} |-> IF t = "x" THEN <<NoDay, 1>> ELSE <<NoDay, NoDay>>]

\* Over the strategies, an account's balance counts as often as it runs strategies, while
\* each tagged position counts once: the parts add up to more than the wallet.
ASSUME MoneyByStrategy ==
  \A accounts \in Accounts2, books \in Books :
    LET entries == build_position_snapshot(accounts, books, [t \in {"x", "y"} |-> Dates[t]])
        f == compute_strategy_financials(accounts, entries)
    IN /\ MapThenSumSet(LAMBDA s : f[s].wallet_balance, DOMAIN f)
            = 10 * Len(accounts[1].strategies) + 7 * Len(accounts[2].strategies)
       /\ MapThenSumSet(LAMBDA s : f[s].positions_market_value, DOMAIN f)
            = MapThenSumSet(LAMBDA x : ValueOf(entries, x),
                            {x \in DOMAIN entries : entries[x].strategy # Untagged})
       /\ \A x \in DOMAIN entries :
            entries[x].is_legacy = FALSE /\ entries[x].size >= 1

\* A position with a bid is never worth more at the bid than at the middle.
ASSUME BidBelowMid ==
  \A accounts \in Accounts2, books \in Books :
    LET entries == build_position_snapshot(accounts, books, Dates) IN
    \A x \in DOMAIN entries : entries[x].bid_price # NoPrice =>
      entries[x].unrealized_pnl_bid <= entries[x].unrealized_pnl_mid

\* The archive pairs each date with the value of its own place, and a forecast with more
\* dates than values, or the reverse, is cut to the shorter.
ASSUME RowsPaired ==
  \A d \in BoundedSeq({1, 2, NoDay}, 3), v \in BoundedSeq({50, 60}, 3) :
    LET rows == snapshot_rows([dates |-> d, values |-> v], {1, 2}) IN
    /\ \A r \in rows : \E i \in DOMAIN d \intersect DOMAIN v : r.target_date = d[i] /\ r.target_value = v[i]
    /\ \A r \in rows : r.target_date # NoDay
    /\ Len(d) > 0 /\ Len(v) > 0 /\ d[1] # NoDay => rows # {}
=============================================================================
