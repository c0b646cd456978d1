-------------------------- MODULE WeatherForecast --------------------------
(***************************************************************************)
(* What the weather strategy knows without keeping state: the questions    *)
(* and event titles it reads, the forecasts its four providers return and  *)
(* the probability a forecast gives an outcome.  A text is a record of the *)
(* words, numbers and dates found in it, in the order the parser looks for *)
(* them; temperatures are tenths of a degree, other measures tenths of     *)
(* their unit, probabilities and prices basis points.  The distributions   *)
(* (normal, log-normal, Weibull) are one increasing function of the value. *)
(***************************************************************************)
EXTENDS Integers, Sequences, SequencesExt, FiniteSetsExt

NotKnown == -100000
Known(x) == x # NotKnown

-----------------------------------------------------------------------------
(* Texts: words is the set of keywords, numbers the numbers in order,      *)
(* aliases and cities the names found, capitalised what follows "in" or    *)
(* "for"; month_days gives, for the months named, the day that follows or  *)
(* 0, slashes the m/d pairs in order, months those after a preposition.    *)

WeatherWords == {"temperature", "degrees", "rainfall", "rain", "snowfall",
                 "snow", "wind", "fahrenheit", "celsius"}
Temperatures == {"max", "min", "avg"}
Precipitation == {"rainfall", "snowfall"}

Metric(words) ==
  CASE words \cap {"snowfall", "snow"} # {} -> "snowfall"
    [] words \cap {"snowfall", "snow"} = {} /\ words \cap {"rainfall", "rain"} # {}
         -> "rainfall"
    [] words \cap {"snowfall", "snow", "rainfall", "rain"} = {} /\ "wind" \in words
         -> "wind"
    [] OTHER -> IF words \cap {"high", "max", "highest"} # {} THEN "max"
                ELSE IF words \cap {"low", "min", "lowest", "below"} # {} THEN "min"
                ELSE "avg"

\* "low" is looked for inside words: "below" has it.
Comparison(words) ==
  IF words \cap {"below", "under", "less than"} # {} THEN "below"
  ELSE IF words \cap {"at most", "no more than"} # {} THEN "at_most"
  ELSE IF words \cap {"at least", "no less than"} # {} THEN "at_least"
  ELSE "above"

\* Numbers that look like a year are passed over.
extract_number(text) ==
  LET plain == SelectSeq(text.numbers, LAMBDA n : n \notin 20200 .. 20350 /\ n < 100000)
  IN  IF plain = <<>> THEN NotKnown ELSE plain[1]

\* An alias first, then the longest known city, then the capitalised words.
extract_location(text) ==
  IF text.aliases # <<>> THEN text.aliases[1]
  ELSE IF text.cities # <<>> THEN text.cities[1]
  ELSE text.capitalised

parse_weather_event_title(text) ==
  IF text.words \cap WeatherWords = {} THEN [city |-> "", metric |-> ""]
  ELSE [city |-> extract_location(text), metric |-> Metric(text.words)]

\* A question needs a keyword, a number and a place.
parse_weather_question(text) ==
  LET title == parse_weather_event_title(text)
  IN  IF title.city = "" \/ ~Known(extract_number(text))
      THEN [city |-> "", metric |-> ""]
      ELSE [city |-> title.city, metric |-> title.metric,
            threshold |-> extract_number(text), comparison |-> Comparison(text.words)]

Leap(y) == y % 4 = 0 /\ (y % 100 # 0 \/ y % 400 = 0)
DaysIn(y, m) == CASE m \in {4, 6, 9, 11} -> 30
                  [] m = 2 -> IF Leap(y) THEN 29 ELSE 28
                  [] OTHER -> 31
Ordinal(d) ==
  365 * d[1] + (d[1] - 1) \div 4 - (d[1] - 1) \div 100 + (d[1] - 1) \div 400
    + MapThenSumSet(LAMBDA m : DaysIn(d[1], m), 1 .. d[2] - 1) + d[3]
num_days(from, to) == Ordinal(to) - Ordinal(from)
IsDate(y, m, d) == m \in 1 .. 12 /\ d \in 1 .. DaysIn(y, m)

NoDate == <<>>
NextDay(d) == IF d[3] < DaysIn(d[1], d[2]) THEN <<d[1], d[2], d[3] + 1>>
              ELSE IF d[2] < 12 THEN <<d[1], d[2] + 1, 1>> ELSE <<d[1] + 1, 1, 1>>

\* Today, tomorrow, a month and a day, m/d, the end of a month: always of the
\* year it is now.
parse_target_date_with_today(text, today) ==
  LET year == today[1]
      named == {m \in DOMAIN text.month_days : IsDate(year, m, text.month_days[m])}
      slashed == SelectSeq(text.slashes, LAMBDA s : IsDate(year, s[1], s[2]))
  IN  IF "today" \in text.words THEN today
      ELSE IF "tomorrow" \in text.words THEN NextDay(today)
      ELSE IF named # {} THEN <<year, Min(named), text.month_days[Min(named)]>>
      ELSE IF slashed # <<>> THEN <<year, slashed[1][1], slashed[1][2]>>
      ELSE IF text.months # {} THEN <<year, Min(text.months), DaysIn(year, Min(text.months))>>
      ELSE NoDate

celsius_to_fahrenheit(c) == (c * 9) \div 5 + 320

\* "36-37", "or below", "or above": [lower, upper].
parse_outcome_range(text) ==
  LET plain == SelectSeq(text.numbers, LAMBDA n : n \notin 20200 .. 20350)
  IN  IF "dash" \in text.words /\ Len(plain) >= 2 THEN [lower |-> plain[1], upper |-> plain[2]]
      ELSE IF "or below" \in text.words /\ plain # <<>>
           THEN [lower |-> NotKnown, upper |-> plain[1]]
      ELSE IF "or above" \in text.words /\ plain # <<>>
           THEN [lower |-> plain[1], upper |-> NotKnown]
      ELSE [lower |-> NotKnown, upper |-> NotKnown]

\* Thresholds are compared with forecasts in degrees Fahrenheit.
InFahrenheit(x, metric, text) ==
  IF Known(x) /\ metric \in Temperatures /\ "celsius" \in text.words
  THEN celsius_to_fahrenheit(x) ELSE x

-----------------------------------------------------------------------------
(* Providers.  A response has the days it covers: readings of the metric   *)
(* asked for, the daily maximum and minimum, or NotKnown.                  *)

Mean(S) == MapThenSumSet(LAMBDA x : x, S) \div Cardinality(S)

Aggregate(metric, S) ==
  CASE metric \in {"max", "wind"} -> Max(S)
    [] metric = "min" -> Min(S)
    [] metric = "avg" -> Mean(S)
    [] OTHER -> MapThenSumSet(LAMBDA x : x, S)

\* Readings in degrees Celsius, millimetres and km/h.
NoaaUnit(metric, x) == CASE metric \in Temperatures -> celsius_to_fahrenheit(x)
                         [] metric = "wind" -> (x * 62) \div 100
                         [] OTHER -> (x * 10) \div 254

NoaaDaily(response, metric) ==
  [d \in {e \in DOMAIN response.readings : response.readings[e] # {}} |->
     Aggregate(metric, {NoaaUnit(metric, x) : x \in response.readings[d]})]

Extreme(response, metric, d) ==
  CASE metric = "max" -> response.high[d]
    [] metric = "min" -> response.low[d]
    [] OTHER -> IF Known(response.high[d]) /\ Known(response.low[d])
                THEN (response.high[d] + response.low[d]) \div 2 ELSE NotKnown

\* The days with a value; Open-Meteo refuses a response with gaps.
ExtremesDaily(response, metric) ==
  [d \in {e \in DOMAIN response.high : Known(Extreme(response, metric, e))} |->
     Extreme(response, metric, d)]

\* The category of the metric, and only if it is empty the hourly readings (for
\* the average the other way round).
KmaDaily(response, metric) ==
  LET hourly == [d \in {e \in DOMAIN response.readings : response.readings[e] # {}} |->
                   Aggregate(metric, response.readings[d])]
      daily == ExtremesDaily(response, metric)
  IN  IF metric = "avg"
      THEN (IF hourly = << >> THEN daily ELSE hourly)
      ELSE (IF daily = << >> THEN hourly ELSE daily)

NoError == ""
Failed(e) == [mean |-> NotKnown, target |-> NotKnown, error |-> e]

Summary(daily, target) ==
  IF daily = << >> THEN Failed("error")
  ELSE [mean |-> Mean(Range(daily)),
        target |-> IF target \in DOMAIN daily THEN daily[target] ELSE NotKnown,
        error |-> NoError]

OpenMeteoForecast(response, metric, target) ==
  IF DOMAIN ExtremesDaily(response, metric) # DOMAIN response.high THEN Failed("error")
  ELSE Summary(ExtremesDaily(response, metric), target)

\* fetch_forecast_for_location: NOAA knows every metric, the others temperatures.
Forecast(provider, metric, target, response) ==
  IF response.error # NoError THEN Failed(response.error)
  ELSE IF provider = "noaa" THEN Summary(NoaaDaily(response, metric), target)
  ELSE IF metric \notin Temperatures THEN Failed("error")
  ELSE CASE provider = "kma" -> Summary(KmaDaily(response, metric), target)
         [] provider = "open_meteo" -> OpenMeteoForecast(response, metric, target)
         [] OTHER -> Summary(ExtremesDaily(response, metric), target)

\* What became of a day: Open-Meteo and KMA list its extremes, the Met Office the
\* observations of the city's own day; NOAA has no history.
OpenMeteoActual(response, metric, d) ==
  IF d \in DOMAIN response.high THEN Extreme(response, metric, d) ELSE NotKnown
MetOfficeActual(response, metric, d) ==
  IF d \in DOMAIN response.readings /\ response.readings[d] # {}
  THEN Aggregate(metric, response.readings[d]) ELSE NotKnown
KmaActual(response, metric, d) ==
  IF d \in DOMAIN response.high THEN Extreme(response, metric, d) ELSE NotKnown

Historical(provider, metric, d, response) ==
  IF response.error # NoError \/ metric \notin Temperatures THEN NotKnown
  ELSE CASE provider = "open_meteo" -> OpenMeteoActual(response, metric, d)
         [] provider = "met_office" -> MetOfficeActual(response, metric, d)
         [] provider = "kma" -> KmaActual(response, metric, d)
         [] OTHER -> NotKnown

-----------------------------------------------------------------------------
(* Probabilities *)

Certain == 10000

\* The degrees are whole: a bin of temperatures reaches half a degree further.
HalfDegree(metric) == IF metric \in Temperatures THEN 5 ELSE 0

\* An increasing function of x around the mean, as wide as four sigmas.
Cdf(metric, x, mean, sigma) ==
  IF metric \notin Temperatures /\ x <= 0 THEN 0
  ELSE IF metric \notin Temperatures /\ mean <= 0 THEN Certain
  ELSE IF sigma = 0 THEN (IF mean <= x THEN Certain ELSE 0)
  ELSE Max({0, Min({Certain, (Certain * (x - mean + 2 * sigma)) \div (4 * sigma)})})

Isqrt(x) == CHOOSE r \in 0 .. x : r * r <= x /\ (r + 1) * (r + 1) > x

\* With a value for the day its error, else also the spread of the days.
effective_sigma(forecast, sigma, spread) ==
  IF Known(forecast.target) THEN sigma ELSE Isqrt(sigma * sigma + spread * spread)

Centre(forecast) == IF Known(forecast.target) THEN forecast.target ELSE forecast.mean

model_probability(forecast, threshold, comparison, sigma, metric) ==
  LET mean == Centre(forecast)
      below == Cdf(metric, threshold, mean, sigma)
  IN  IF comparison \in {"above", "at_least"}
      THEN IF sigma = 0 THEN (IF mean >= threshold THEN Certain ELSE 0)
           ELSE Certain - below
      ELSE below

model_range_probability(forecast, range, sigma, metric) ==
  LET upper == IF Known(range.upper)
               THEN Cdf(metric, range.upper + HalfDegree(metric), Centre(forecast), sigma)
               ELSE Certain
      lower == IF Known(range.lower)
               THEN Cdf(metric, range.lower - HalfDegree(metric), Centre(forecast), sigma)
               ELSE 0
  IN  Max({upper - lower, 0})

\* The side of a binary market that a settled value makes true.
resolved_yes(actual, threshold, comparison) ==
  CASE comparison = "above" -> actual > threshold
    [] comparison = "at_least" -> actual >= threshold
    [] comparison = "below" -> actual < threshold
    [] OTHER -> actual <= threshold

\* A first value, or one further from the last than the threshold allows.
is_significant_change(new, previous, limit) ==
  ~Known(previous) \/ new - previous > limit \/ previous - new > limit
=============================================================================
