-------------------------- MODULE PrometheusScraper --------------------------
(***************************************************************************)
(* src/collector/prometheus.rs: a tick of the scraper, raced by the        *)
(* timeout of its HTTP client (scrape_timeout) and by the scheduler's      *)
(* (max_runtime, src/pipeline.rs).  A target may answer, fail, answer with *)
(* something that does not parse, or say nothing.                          *)
(*                                                                         *)
(* The scheduler's timer starts with the task, the client's when the       *)
(* request is sent.  Both happen in one poll, but time does not stand      *)
(* still in it: up to MaxSkew ticks of the clock lie between them.         *)
(* A later tick uses last_up and failed_ticks only to word its log lines.  *)
(***************************************************************************)
EXTENDS Naturals

CONSTANTS Settings,        \* what scrape_timeout and max_runtime may be set to
          MaxSkew          \* bound: from the one timer's start to the other's

ASSUME ScraperAssumption == /\ Settings \subseteq [scrapeTimeout : Nat, maxRuntime : Nat]
                            /\ MaxSkew \in Nat

VARIABLES setting,         \* the pair that is configured
          stage,           \* "idle"; "starting" until the request is sent; "waiting"
          requestLeft,     \* until the client gives the request up
          tickLeft,        \* until the scheduler drops the tick
          health           \* the `up' of the last tick; "none" while one is on

scraperVars == <<setting, stage, requestLeft, tickLeft, health>>

ScraperInit == /\ setting \in Settings
               /\ stage = "idle"
               /\ requestLeft = 0
               /\ tickLeft = 0
               /\ health = "none"

\* timeout(max_runtime, ..) is entered ...
StartScrape == /\ stage = "idle"
               /\ stage' = "starting"
               /\ tickLeft' = setting.maxRuntime
               /\ health' = "none"
               /\ UNCHANGED <<setting, requestLeft>>

\* Mistake: the client is built without a timeout, as if with one beyond max_runtime.
SendRequestUntimed == /\ stage = "starting"
                      /\ stage' = "waiting"
                      /\ requestLeft' = setting.maxRuntime + 1
                      /\ UNCHANGED <<setting, tickLeft, health>>

\* ... and its first poll goes as far as send(), where the client's timer starts.
SendRequest == /\ stage = "starting"
               /\ stage' = "waiting"
               /\ requestLeft' = setting.scrapeTimeout
               /\ UNCHANGED <<setting, tickLeft, health>>

Lower(t) == IF t = 0 THEN 0 ELSE t - 1

TimePasses == /\ stage # "idle"
              /\ stage = "starting" => setting.maxRuntime < tickLeft + MaxSkew
              /\ requestLeft' = Lower(requestLeft)
              /\ tickLeft' = Lower(tickLeft)
              /\ UNCHANGED <<setting, stage, health>>

EndScrape(up) == /\ stage = "waiting"
                 /\ stage' = "idle"
                 /\ requestLeft' = 0
                 /\ tickLeft' = 0
                 /\ health' = up
                 /\ UNCHANGED setting

\* A 2xx answer that parses: its samples and up = 1.
Scraped == EndScrape("up")

\* A transport error, another status, a text that does not parse, or the end of
\* scrape_timeout: no samples and up = 0.
ScrapeFailed == EndScrape("down")

\* max_runtime elapses and the tick is dropped.  A timeout polls what it guards
\* before its own timer, so a request that has timed out as well ends first.
DropScrape == /\ tickLeft = 0
              /\ requestLeft > 0
              /\ EndScrape("aborted")

ScraperNext == StartScrape \/ SendRequest \/ TimePasses \/ Scraped \/ ScrapeFailed \/ DropScrape

ScraperSpec == ScraperInit /\ [][ScraperNext]_scraperVars

-----------------------------------------------------------------------------
(* Properties *)

\* README.md:114, "Every tick also emits ... `up' (1/0)".  No answer and no silence of
\* the target lets the scheduler drop a tick, if max_runtime leaves room for
\* scrape_timeout and for what passes before that starts to run.  With the two equal
\* (config.rs:323 asks for no more) it does not.
HealthEveryTick ==
    setting.scrapeTimeout + MaxSkew <= setting.maxRuntime => health # "aborted"
=============================================================================
