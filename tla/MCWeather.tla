----------------------------- MODULE MCWeather -----------------------------
(* Instances of Weather: two neg-risk events and a question, in two cities.   *)
EXTENDS Weather, TLC

Blank == [words |-> {}, numbers |-> <<>>, aliases |-> <<>>, cities |-> <<>>,
          capitalised |-> "", month_days |-> << >>, slashes |-> <<>>, months |-> {}]
Title(city, day) ==
  [Blank EXCEPT !.words = {"temperature", "highest"}, !.cities = <<city>>,
                !.month_days = 4 :> day]
Between(a, b) == [Blank EXCEPT !.words = {"dash"}, !.numbers = <<a, b>>]
Above(city, a, day) ==
  [Title(city, day) EXCEPT !.words = @ \union {"high"}, !.numbers = <<a, day * 10>>]

\* Tests of the parser: weather.rs:4600 and following.
ASSUME ParserAssumption ==
  /\ parse_weather_question(Above("New York", 800, 5)).metric = "max"
  /\ parse_weather_question(Above("New York", 800, 5)).threshold = 800
  /\ parse_weather_question([Above("New York", 800, 5) EXCEPT !.words = {"election"}]).city = ""
  /\ parse_target_date_with_today(Title("New York", 5), <<2025, 4, 1>>) = <<2025, 4, 5>>
  /\ parse_target_date_with_today([Blank EXCEPT !.months = {2}], <<2024, 1, 9>>) = <<2024, 2, 29>>
  /\ num_days(<<2024, 12, 31>>, <<2025, 1, 1>>) = 1
  /\ parse_outcome_range(Between(360, 370)) = [lower |-> 360, upper |-> 370]
  /\ celsius_to_fahrenheit(200) = 680

\* A response with a gap is refused by one provider and read by another.
Gap == [error |-> "", readings |-> (<<2025, 4, 5>> :> {100, 140}),
        high |-> (<<2025, 4, 5>> :> 150 @@ <<2025, 4, 6>> :> NotKnown),
        low |-> (<<2025, 4, 5>> :> 90 @@ <<2025, 4, 6>> :> 80)]
ASSUME ProviderAssumption ==
  /\ Forecast("open_meteo", "max", <<2025, 4, 5>>, Gap).error # ""
  /\ Forecast("met_office", "max", <<2025, 4, 5>>, Gap).target = 150
  /\ Forecast("kma", "avg", <<2025, 4, 5>>, Gap).target = 120
  /\ Forecast("noaa", "max", <<2025, 4, 5>>, Gap).target = 572
  /\ ~Known(Historical("noaa", "max", <<2025, 4, 5>>, Gap))
  /\ Historical("met_office", "min", <<2025, 4, 5>>, Gap) = 100

April(d) == <<2025, 4, d>>
AprilDays == <<April(4), April(5)>>
TwoMarkets == {"b1", "b2", "b3", "q"}
Listing == "e1" :> {"b1", "b2"} @@ "e2" :> {"b3"}
Texts == "e1" :> Title("New York", 5) @@ "e2" :> Title("Atlanta", 5)
  @@ "b1" :> Between(360, 370) @@ "b2" :> Between(380, 390)
  @@ "b3" :> [Blank EXCEPT !.words = {"or above"}, !.numbers = <<380>>]
  @@ "q" :> Above("Atlanta", 370, 5)
FarAway == [m \in TwoMarkets |-> 30]
Cheap == [bid |-> 2700, ask |-> 3000]
Half == [bid |-> 1400, ask |-> 1500]
Fallen == [bid |-> 1400, ask |-> 0]
Fair == [bid |-> 4500, ask |-> 5000]
Dear == [bid |-> 6000, ask |-> 6500]
Empty == [bid |-> 0, ask |-> 0]
SomeBooks == [t \in TwoMarkets \X {"yes", "no"} |->
  CASE t = <<"b1", "yes">> -> {Cheap, Half, Dear, Fallen}
    [] t \in {<<"b1", "no">>, <<"q", "yes">>} -> {Fair}
    [] OTHER -> {Empty}]
Reading(x) == [error |-> "", readings |-> April(5) :> {x} @@ April(6) :> {x + 10}]
Answers == "New York" :> {Reading(25), Reading(36)}
  @@ "Atlanta" :> {Reading(36), [error |-> "429"]}
NoaaOnly == "New York" :> "noaa" @@ "Atlanta" :> "noaa"
NothingHeld == {[t \in Tokens |-> <<0, 0>>]}
=============================================================================
