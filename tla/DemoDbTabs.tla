----------------------------- MODULE DemoDbTabs -----------------------------
(***************************************************************************)
(* The tabs of one origin that share a demo dataset, and which of them are *)
(* still there (external: the browser).                                    *)
(***************************************************************************)
CONSTANTS Tabs,
          Nobody  \* not a tab

ASSUME TabsAssumption == Nobody \notin Tabs

VARIABLE alive  \* tabs that have not crashed or navigated away
=============================================================================
