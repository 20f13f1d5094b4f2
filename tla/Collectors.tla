----------------------------- MODULE Collectors -----------------------------
(***************************************************************************)
(* The Unix collector and a Prometheus scraper side by side, each under    *)
(* its own task and timeout (src/pipeline.rs).                             *)
(***************************************************************************)
EXTENDS UnixCollector, PrometheusScraper

collectorVars == <<unixVars, scraperVars>>

CollectorsInit == UnixInit /\ ScraperInit

CollectorsNext == \/ UnixNext /\ UNCHANGED scraperVars
                  \/ ScraperNext /\ UNCHANGED unixVars

CollectorsSpec == CollectorsInit /\ [][CollectorsNext]_collectorVars /\ UnixFairness
=============================================================================
