------------------------- MODULE AnalyticalClients --------------------------
(***************************************************************************)
(* The tabs that share the ledger of analytical runs                       *)
(* (packages/bigquery/src/analytical/ledger.ts).                           *)
(***************************************************************************)
CONSTANTS Clients,
          None     \* no run, no session, no cursor
=============================================================================
