---------------------------- MODULE RecordStore -----------------------------
(***************************************************************************)
(* What the write operations of a DALgo database promise for one record,   *)
(* whatever service keeps it.  A write takes effect at most once, at one   *)
(* moment, and only when its condition holds then; what the caller is told *)
(* is the truth of one moment of the call, or "failed", which promises     *)
(* nothing: the write may take effect even later.                          *)
(***************************************************************************)
EXTENDS Integers
CONSTANT Writers
VARIABLES
  stored,     \* the record: its revision (0: none), the last one given, who wrote each half
  writing     \* per writer: operation, revision seen, ruling of the service, what it was told
storeVars == <<stored, writing>>

NoOne == "none"
Unread == -1
Absent(s) == s.rev = 0
Put(s, whole, w) ==
  [rev |-> s.last + 1, last |-> s.last + 1, a |-> w, b |-> IF whole THEN w ELSE s.b]
Gone(s) == [rev |-> 0, last |-> s.last, a |-> NoOne, b |-> NoOne]
Conditional == {"setIfMatch", "updateIfMatch", "deleteIfMatch"}
Idle == [op |-> "none", base |-> Unread, ruled |-> "no", told |-> "nothing"]

Allowed(op, base) ==
  CASE op = "insert" -> Absent(stored)
    [] op = "update" -> ~Absent(stored)
    [] op \in Conditional -> base = stored.rev /\ base # 0
    [] OTHER -> TRUE
After(op, w) ==
  CASE op \in {"insert", "set", "setIfMatch"} -> Put(stored, TRUE, w)
    [] op \in {"update", "updateIfMatch"} -> Put(stored, FALSE, w)
    [] OTHER -> Gone(stored)
Rulings(op, base) ==
  (CASE op = "insert" /\ ~Absent(stored) -> {"exists", "failed"}
     [] op = "update" /\ Absent(stored) -> {"missing"}
     [] op \in {"delete", "deleteIfMatch"} /\ Absent(stored) -> {"missing", "done", "failed"}
     [] OTHER -> {})
  \cup (IF base \notin {Unread, stored.rev} THEN {"conflict", "failed"} ELSE {})

StoreInit ==
  /\ stored \in {[rev |-> 0, last |-> 0, a |-> NoOne, b |-> NoOne],
                 [rev |-> 1, last |-> 1, a |-> "old", b |-> "old"]}
  /\ writing = [w \in Writers |-> Idle]
Begin(w, op) ==
  /\ writing[w].op = "none" /\ writing' = [writing EXCEPT ![w].op = op] /\ UNCHANGED stored
Decline(w, op) ==
  /\ writing[w].op = "none" /\ UNCHANGED stored
  /\ writing' = [writing EXCEPT ![w] = [Idle EXCEPT !.op = op, !.ruled = "unsupported", !.told = "unsupported"]]
Look(w) ==
  /\ writing[w].ruled = "no" /\ writing[w].told = "nothing"
  /\ writing' = [writing EXCEPT ![w].base = stored.rev] /\ UNCHANGED stored
TakeEffect(w) ==
  /\ writing[w].op # "none" /\ writing[w].ruled = "no" /\ Allowed(writing[w].op, writing[w].base)
  /\ stored' = After(writing[w].op, w) /\ writing' = [writing EXCEPT ![w].ruled = "done"]
Rule(w) ==
  /\ writing[w].op # "none" /\ writing[w].ruled = "no" /\ UNCHANGED stored
  /\ \E r \in Rulings(writing[w].op, writing[w].base) : writing' = [writing EXCEPT ![w].ruled = r]
Tell(w) ==
  /\ writing[w].op # "none" /\ writing[w].told = "nothing" /\ UNCHANGED stored
  /\ \E t \in {writing[w].ruled, "failed"} \ {"no"} : writing' = [writing EXCEPT ![w].told = t]
StoreNext == \E w \in Writers :
  \/ \E op \in {"insert", "set", "update", "delete"} \cup Conditional : Begin(w, op) \/ Decline(w, op)
  \/ Look(w) \/ TakeEffect(w) \/ Rule(w) \/ Tell(w)
StoreSpec == StoreInit /\ [][StoreNext]_storeVars
=============================================================================
