-------------------------- MODULE TabBridgeProofs --------------------------
(***************************************************************************)
(* Proofs about TabBridge, and about its ports (BridgePorts), for any set  *)
(* of tabs and callers, any number of calls, messages, terms and           *)
(* departures, and messages of different senders in any order.             *)
(*                                                                         *)
(* Every step is one of a tab t that takes message n from its inbox (none: *)
(* 0) and posts some messages `out'.  Flow says what that makes of the     *)
(* inboxes; TraceStep what it does to the requests and their traces, and   *)
(* TermStep to the terms and their answers.  TracesKept and TermsKept      *)
(* prove the two halves of BridgeInv kept by any such step; after them     *)
(* there is a lemma for each action, which says that it is one.  The ports *)
(* are proved the same way, with PortStep and PortsKept.                   *)
(***************************************************************************)
EXTENDS BridgePorts, FiniteSetTheorems, WellFoundedInduction, TLAPS

-----------------------------------------------------------------------------
(* The requests that wait, in their order.                                 *)

\* Every set of numbers has a least one.
LEMMA LeastNumber ==
  ASSUME NEW S \in SUBSET Nat, S # {}
  PROVE  \E least \in S : \A k \in S : least <= k
<1>1. \E least \in S : \A k \in S : ~(<<k, least>> \in OpToRel(<, Nat))
  BY NatLessThanWellFounded, WFMin
<1>2. \E least \in S : \A k \in S : ~(k < least)
  BY <1>1 DEF OpToRel
<1> QED
  BY <1>2

\* Every set of calls has a last one.
LEMMA GreatestCall ==
  ASSUME NEW S \in SUBSET Calls, S # {}
  PROVE  \E last \in S : \A k \in S : k <= last
<1> DEFINE Rest == {MaxCalls - k : k \in S}
<1>1. Rest \in SUBSET Nat /\ Rest # {}
  <2>1. \A k \in S : MaxCalls - k \in Nat
    BY BridgeAssumption DEF Calls
  <2> QED
    BY <2>1
<1> HIDE DEF Rest
<1>2. PICK least \in Rest : \A k \in Rest : least <= k
  BY <1>1, LeastNumber
<1>3. PICK last \in S : least = MaxCalls - last
  BY <1>2 DEF Rest
<1>4. \A k \in S : least <= MaxCalls - k
  BY <1>2 DEF Rest
<1> QED
  BY <1>3, <1>4, BridgeAssumption DEF Calls

\* There are finitely many calls.
LEMMA CallsAreFinite ==
  ASSUME NEW S \in SUBSET Calls
  PROVE  IsFiniteSet(S) /\ Cardinality(S) \in Nat
<1>1. IsFiniteSet(Calls)
  BY FS_Interval, BridgeAssumption DEF Calls
<1>2. IsFiniteSet(S)
  BY <1>1, FS_Subset
<1> QED
  BY <1>2, FS_CardinalityType

\* Every set of calls can be put in order: take a least counterexample and its
\* greatest member away.
LEMMA AscendingExists ==
  ASSUME NEW S \in SUBSET Calls
  PROVE  \E s \in [1..Cardinality(S) -> S] : \A i, j \in DOMAIN s : i < j => s[i] < s[j]
<1> DEFINE Sortable(T) == \E s \in [1..Cardinality(T) -> T] : \A i, j \in DOMAIN s : i < j => s[i] < s[j]
           Bad == {n \in Nat : \E T \in SUBSET Calls : Cardinality(T) = n /\ ~Sortable(T)}
<1> HIDE DEF Sortable
<1>1. Bad = {}
  <2> SUFFICES ASSUME Bad # {} PROVE FALSE
    OBVIOUS
  <2>1. PICK n \in Bad : \A k \in Bad : n <= k
    BY LeastNumber
  <2>2. PICK T \in SUBSET Calls : Cardinality(T) = n /\ ~Sortable(T)
    BY <2>1
  <2>3. IsFiniteSet(T) /\ n \in Nat
    BY <2>2, CallsAreFinite
  <2>4. CASE n = 0
    <3>1. T = {}
      BY <2>2, <2>3, <2>4, FS_EmptySet
    <3>2. [i \in 1..0 |-> 0] \in [1..Cardinality(T) -> T]
      BY <2>2, <2>4
    <3>3. Sortable(T)
      <4>1. \A i, j \in DOMAIN [k \in 1..0 |-> 0] : FALSE
        OBVIOUS
      <4> QED
        BY <3>2, <4>1 DEF Sortable
    <3> QED
      BY <2>2, <3>3
  <2>5. CASE n # 0
    <3>1. T # {}
      BY <2>2, <2>5, FS_EmptySet
    <3>2. PICK last \in T : \A k \in T : k <= last
      BY <3>1, GreatestCall
    <3>3. Cardinality(T \ {last}) = n - 1
      BY <2>2, <2>3, <3>2, FS_RemoveElement
    <3>4. n - 1 \in Nat /\ n - 1 \notin Bad
      BY <2>1, <2>3, <2>5
    <3>5. Sortable(T \ {last})
      BY <3>3, <3>4, <2>2
    <3>6. PICK s \in [1..(n - 1) -> T \ {last}] : \A i, j \in DOMAIN s : i < j => s[i] < s[j]
      BY <3>3, <3>5 DEF Sortable
    <3> DEFINE all == [i \in 1..n |-> IF i = n THEN last ELSE s[i]]
    <3>7. all \in [1..n -> T]
      BY <2>3, <3>2, <3>6
    <3>8. \A i, j \in 1..n : i < j => all[i] < all[j]
      <4> SUFFICES ASSUME NEW i \in 1..n, NEW j \in 1..n, i < j PROVE all[i] < all[j]
        OBVIOUS
      <4>1. i \in 1..(n - 1) /\ all[i] = s[i] /\ s[i] \in T \ {last}
        BY <2>3, <3>6
      <4>2. CASE j = n
        <5>1. all[j] = last /\ s[i] # last /\ s[i] <= last
          BY <2>3, <3>2, <4>1, <4>2
        <5>2. s[i] \in Calls /\ last \in Calls
          BY <3>2, <4>1
        <5> QED
          BY <4>1, <5>1, <5>2 DEF Calls
      <4>3. CASE j # n
        BY <2>3, <3>6, <4>1, <4>3
      <4> QED
        BY <4>2, <4>3
    <3>9. Sortable(T)
      <4> HIDE DEF all
      <4>1. DOMAIN all = 1..n
        BY <3>7
      <4> QED
        BY <2>2, <3>7, <3>8, <4>1 DEF Sortable
    <3> QED
      BY <2>2, <3>9
  <2> QED
    BY <2>4, <2>5
<1>2. Cardinality(S) \in Nat
  BY CallsAreFinite
<1>3. Sortable(S)
  BY <1>1, <1>2
<1> QED
  BY <1>3 DEF Sortable

\* The calls that wait are dispatched in an order, each once.
LEMMA AscendingSorts ==
  ASSUME NEW S \in SUBSET Calls
  PROVE  /\ Cardinality(S) \in Nat
         /\ Ascending(S) \in [1..Cardinality(S) -> S]
         /\ \A i, j \in 1..Cardinality(S) : i # j => Ascending(S)[i] # Ascending(S)[j]
<1>1. Cardinality(S) \in Nat
  BY CallsAreFinite
<1>2. /\ Ascending(S) \in [1..Cardinality(S) -> S]
      /\ \A i, j \in DOMAIN Ascending(S) : i < j => Ascending(S)[i] < Ascending(S)[j]
  BY AscendingExists DEF Ascending
<1>3. \A i, j \in 1..Cardinality(S) : i < j => Ascending(S)[i] < Ascending(S)[j]
  BY <1>2
<1>4. \A i \in 1..Cardinality(S) : Ascending(S)[i] \in Nat
  <2>1. \A i \in 1..Cardinality(S) : Ascending(S)[i] \in Calls
    BY <1>2
  <2> QED
    BY <2>1 DEF Calls
<1> QED
  BY <1>1, <1>2, <1>3, <1>4
-----------------------------------------------------------------------------
(* Messages, and what becomes of an inbox.                                 *)

\* What the bridge posts are messages.
LEMMA MessagesMade ==
  ASSUME NEW t \in Tabs
  PROVE  /\ Hello(t) \in Message /\ Bye(t) \in Message
         /\ \A i \in Terms : Leader(t, i) \in Message
         /\ \A l \in Tabs, id \in Calls : Req(t, l, id) \in Message
         /\ \A l \in Tabs, id \in Calls, st \in {"ok", "error", "changed"}, by \in 0..MaxTerms :
              Res(t, l, id, st, by) \in Message
BY DEF Message, Hello, Bye, Leader, Req, Res

\* What the fields of a message hold.
LEMMA MessagesRead ==
  ASSUME NEW m \in Message
  PROVE  /\ m.from \in Tabs
         /\ m.k = "leader" => m.info \in Terms
         /\ m.k = "req" => m.id \in Calls
         /\ m.k = "res" => m.id \in Calls /\ m.st \in {"ok", "error", "changed"} /\ m.by \in 0..MaxTerms
BY DEF Message

\* Messages that are posted come behind those on their way.
LEMMA Joined ==
  ASSUME NEW M, NEW s \in Seq(M), NEW e \in Seq(M)
  PROVE  /\ s \o e \in Seq(M) /\ Len(s \o e) = Len(s) + Len(e)
         /\ \A k \in 1..Len(s) : (s \o e)[k] = s[k]
         /\ \A k \in 1..Len(e) : (s \o e)[Len(s) + k] = e[k]
OBVIOUS

\* A message that is taken leaves the others in their order.
LEMMA TakenOut ==
  ASSUME NEW M, NEW s \in Seq(M), NEW n \in 1..Len(s)
  PROVE  /\ Without(s, n) \in Seq(M)
         /\ Len(Without(s, n)) = Len(s) - 1
         /\ \A k \in 1..(Len(s) - 1) : Without(s, n)[k] = s[IF k < n THEN k ELSE k + 1]
<1> DEFINE before == SubSeq(s, 1, n - 1)
           after == SubSeq(s, n + 1, Len(s))
<1>1. /\ before \in Seq(M) /\ Len(before) = n - 1 /\ \A k \in 1..(n - 1) : before[k] = s[k]
  OBVIOUS
<1>2. /\ after \in Seq(M) /\ Len(after) = Len(s) - n /\ \A k \in 1..(Len(s) - n) : after[k] = s[n + k]
  OBVIOUS
<1>3. Without(s, n) = before \o after
  BY DEF Without
<1> HIDE DEF before, after
<1>4. /\ before \o after \in Seq(M) /\ Len(before \o after) = Len(s) - 1
      /\ \A k \in 1..(n - 1) : (before \o after)[k] = before[k]
      /\ \A k \in 1..(Len(s) - n) : (before \o after)[(n - 1) + k] = after[k]
  <2>1. /\ before \o after \in Seq(M) /\ Len(before \o after) = Len(before) + Len(after)
        /\ \A k \in 1..Len(before) : (before \o after)[k] = before[k]
        /\ \A k \in 1..Len(after) : (before \o after)[Len(before) + k] = after[k]
    <3>1. before \in Seq(M) /\ after \in Seq(M)
      BY <1>1, <1>2
    <3> QED
      BY <3>1, SMTT(30)
  <2>2. Len(s) \in Nat /\ Len(before) + Len(after) = Len(s) - 1
    BY <1>1, <1>2
  <2> QED
    BY <1>1, <1>2, <2>1, <2>2
<1>5. \A k \in 1..(Len(s) - 1) : (before \o after)[k] = s[IF k < n THEN k ELSE k + 1]
  <2> SUFFICES ASSUME NEW k \in 1..(Len(s) - 1)
               PROVE  (before \o after)[k] = s[IF k < n THEN k ELSE k + 1]
    OBVIOUS
  <2>1. CASE k < n
    BY <1>1, <1>4, <2>1
  <2>2. CASE ~(k < n)
    <3>1. /\ k - (n - 1) \in 1..(Len(s) - n) /\ n + (k - (n - 1)) = k + 1
          /\ (n - 1) + (k - (n - 1)) = k
      BY <2>2
    <3>2. (before \o after)[k] = after[k - (n - 1)]
      BY <1>4, <3>1
    <3> QED
      BY <1>2, <2>2, <3>1, <3>2
  <2> QED
    BY <2>1, <2>2
<1> QED
  BY <1>3, <1>4, <1>5

\* Where message k of r's inbox was before t took message n (0: none) from its
\* own, where message k then is, and how many old messages r has left.
WasAt(r, k, t, n) == IF r = t /\ n # 0 /\ k >= n THEN k + 1 ELSE k

NowAt(r, k, t, n) == IF r = t /\ n # 0 /\ k > n THEN k - 1 ELSE k

Kept(r, t, n) == Len(inbox[r]) - (IF r = t /\ n # 0 THEN 1 ELSE 0)

\* What becomes of the inboxes when t takes message n and posts `out': the old
\* messages keep their order, the new ones come behind them.
Flows(M, t, n, out) ==
  /\ inbox' \in [Tabs -> Seq(M)]
  /\ n \in 0..Len(inbox[t])
  /\ \A r \in Tabs : ~Listens(r)' => inbox'[r] = <<>>
  /\ \A r \in Tabs : \A k \in DOMAIN inbox'[r] :
       \/ /\ k <= Kept(r, t, n) /\ WasAt(r, k, t, n) \in DOMAIN inbox[r]
          /\ inbox'[r][k] = inbox[r][WasAt(r, k, t, n)]
       \/ /\ k > Kept(r, t, n) /\ k - Kept(r, t, n) \in DOMAIN out
          /\ inbox'[r][k] = out[k - Kept(r, t, n)]
          /\ r # t /\ out[1].to \in {r, Nobody}
  /\ \A r \in Tabs : Listens(r)' =>
       /\ \A k \in DOMAIN inbox[r] :
            \/ r = t /\ k = n
            \/ /\ NowAt(r, k, t, n) \in DOMAIN inbox'[r] /\ NowAt(r, k, t, n) <= Kept(r, t, n)
               /\ inbox'[r][NowAt(r, k, t, n)] = inbox[r][k]
       /\ r # t /\ Listens(t) /\ out # <<>> /\ out[1].to \in {r, Nobody} =>
            \A k \in DOMAIN out :
              /\ Kept(r, t, n) + k \in DOMAIN inbox'[r]
              /\ inbox'[r][Kept(r, t, n) + k] = out[k]

\* Every step of a tab on the channel makes of the inboxes what Flows says.
LEMMA Flow ==
  ASSUME NEW M, inbox \in [Tabs -> Seq(M)], HostLeads,
         NEW t \in Tabs, NEW n \in 0..Len(inbox[t]), NEW out \in Seq(M),
         NEW box, box = IF n = 0 THEN inbox ELSE [inbox EXCEPT ![t] = Without(@, n)],
         \/ inbox' = Post(box, t, out) /\ (Listens(t)' <=> Listens(t))
         \/ inbox' = [Post(box, t, out) EXCEPT ![t] = <<>>] /\ ~Listens(t)',
         \A r \in Tabs \ {t} : Listens(r)' <=> Listens(r)
  PROVE  Flows(M, t, n, out)
<1> DEFINE kept(r) == Kept(r, t, n)
<1>1. ASSUME NEW r \in Tabs
      PROVE  /\ box[r] \in Seq(M) /\ Len(box[r]) = kept(r) /\ kept(r) \in Nat
             /\ \A k \in 1..kept(r) : box[r][k] = inbox[r][WasAt(r, k, t, n)]
  <2>1. CASE r = t
    <3>1. box[t] = IF n = 0 THEN inbox[t] ELSE Without(inbox[t], n)
      OBVIOUS
    <3>2. inbox[t] \in Seq(M)
      OBVIOUS
    <3>3. kept(t) = Len(inbox[t]) - (IF n # 0 THEN 1 ELSE 0)
      BY DEF Kept
    <3>4. /\ box[t] \in Seq(M) /\ Len(box[t]) = kept(t) /\ kept(t) \in Nat
          /\ \A k \in 1..kept(t) : box[t][k] = inbox[t][IF n # 0 /\ k >= n THEN k + 1 ELSE k]
      <4>1. CASE n = 0
        BY <3>1, <3>2, <3>3, <4>1
      <4>2. CASE n # 0
        <5>1. /\ Without(inbox[t], n) \in Seq(M) /\ Len(Without(inbox[t], n)) = Len(inbox[t]) - 1
              /\ \A k \in 1..(Len(inbox[t]) - 1) :
                   Without(inbox[t], n)[k] = inbox[t][IF k < n THEN k ELSE k + 1]
          BY <3>2, <4>2, TakenOut
        <5> QED
          BY <3>1, <3>3, <4>2, <5>1
      <4> QED
        BY <4>1, <4>2
    <3> QED
      BY <2>1, <3>4 DEF WasAt
  <2>2. CASE r # t
    BY <2>2 DEF Kept, WasAt
  <2> QED
    BY <2>1, <2>2
<1>2. box \in [Tabs -> Seq(M)]
  <2>1. CASE n = 0
    BY <2>1
  <2>2. CASE n # 0
    <3>1. Without(inbox[t], n) \in Seq(M)
      BY <1>1, <2>2
    <3> QED
      BY <2>2, <3>1
  <2> QED
    BY <2>1, <2>2
<1>3. /\ Post(box, t, out) \in [Tabs -> Seq(M)]
      /\ \A r \in Tabs :
           IF r # t /\ Listens(t) /\ Listens(r) /\ out # <<>> /\ out[1].to \in {r, Nobody}
           THEN Post(box, t, out)[r] = box[r] \o out
           ELSE Post(box, t, out)[r] = box[r]
  <2> HIDE DEF kept
  <2>1. out \in Seq(M)
    OBVIOUS
  <2> QED
    BY <1>2, <2>1 DEF Post
<1>4. inbox' \in [Tabs -> Seq(M)]
  <2>1. <<>> \in Seq(M)
    OBVIOUS
  <2>2. [Post(box, t, out) EXCEPT ![t] = <<>>] \in [Tabs -> Seq(M)]
    BY <1>3, <2>1
  <2> QED
    BY <1>3, <2>2
<1>5. ASSUME NEW r \in Tabs, Listens(r)'
      PROVE  Listens(r) /\ inbox'[r] = Post(box, t, out)[r]
  BY <1>3, <1>5
<1>6. ASSUME NEW r \in Tabs, ~Listens(r)'
      PROVE  inbox'[r] = <<>>
  <2>1. CASE ~Listens(r)
    <3>1. inbox[r] = <<>>
      BY <2>1 DEF HostLeads
    <3>2. box[r] = <<>>
      BY <3>1
    <3>3. Post(box, t, out)[r] = box[r]
      BY <1>3, <2>1
    <3> QED
      BY <1>3, <3>2, <3>3
  <2>2. CASE Listens(r)
    BY <1>3, <1>6, <2>2
  <2> QED
    BY <2>1, <2>2
<1>7. ASSUME NEW r \in Tabs, Listens(r)'
      PROVE  IF r # t /\ Listens(t) /\ out # <<>> /\ out[1].to \in {r, Nobody}
             THEN inbox'[r] = box[r] \o out ELSE inbox'[r] = box[r]
  <2>1. IF r # t /\ Listens(t) /\ Listens(r) /\ out # <<>> /\ out[1].to \in {r, Nobody}
        THEN Post(box, t, out)[r] = box[r] \o out
        ELSE Post(box, t, out)[r] = box[r]
    BY <1>3, Zenon
  <2>2. Listens(r) /\ inbox'[r] = Post(box, t, out)[r]
    BY <1>5, <1>7
  <2> QED
    BY <2>1, <2>2
<1>8. ASSUME NEW r \in Tabs, Listens(r)'
      PROVE  /\ Len(inbox'[r]) >= kept(r)
             /\ \A k \in 1..kept(r) : inbox'[r][k] = box[r][k]
             /\ r # t /\ Listens(t) /\ out # <<>> /\ out[1].to \in {r, Nobody} =>
                  /\ Len(inbox'[r]) = kept(r) + Len(out)
                  /\ \A k \in 1..Len(out) : inbox'[r][kept(r) + k] = out[k]
             /\ Len(inbox'[r]) > kept(r) =>
                  r # t /\ Listens(t) /\ out # <<>> /\ out[1].to \in {r, Nobody}
  <2>1. box[r] \in Seq(M) /\ Len(box[r]) = kept(r) /\ kept(r) \in Nat /\ Len(out) \in Nat
    BY <1>1
  <2> HIDE DEF kept
  <2>2. CASE r # t /\ Listens(t) /\ out # <<>> /\ out[1].to \in {r, Nobody}
    <3>1. inbox'[r] = box[r] \o out
      BY <1>7, <1>8, <2>2
    <3>2. /\ Len(box[r] \o out) = Len(box[r]) + Len(out)
          /\ \A k \in 1..Len(box[r]) : (box[r] \o out)[k] = box[r][k]
          /\ \A k \in 1..Len(out) : (box[r] \o out)[Len(box[r]) + k] = out[k]
      BY <2>1, Joined
    <3> QED
      BY <2>1, <2>2, <3>1, <3>2
  <2>3. CASE ~(r # t /\ Listens(t) /\ out # <<>> /\ out[1].to \in {r, Nobody})
    <3>1. inbox'[r] = box[r]
      BY <1>7, <1>8, <2>3
    <3> QED
      BY <2>1, <2>3, <3>1
  <2> QED
    BY <2>2, <2>3
<1> HIDE DEF kept
<1>9. ASSUME NEW r \in Tabs, NEW k \in DOMAIN inbox'[r]
      PROVE  \/ /\ k <= kept(r) /\ WasAt(r, k, t, n) \in DOMAIN inbox[r]
                /\ inbox'[r][k] = inbox[r][WasAt(r, k, t, n)]
             \/ /\ k > kept(r) /\ k - kept(r) \in DOMAIN out
                /\ inbox'[r][k] = out[k - kept(r)]
                /\ r # t /\ out[1].to \in {r, Nobody}
  <2>1. Listens(r)'
    BY <1>6, <1>9
  <2>2. kept(r) \in Nat /\ k \in 1..Len(inbox'[r]) /\ k \in Nat
    BY <1>1, <1>4, <1>9
  <2>3. CASE k <= kept(r)
    <3>1. inbox'[r][k] = inbox[r][WasAt(r, k, t, n)]
      BY <1>1, <1>8, <2>1, <2>2, <2>3
    <3>2. WasAt(r, k, t, n) \in DOMAIN inbox[r]
      BY <2>2, <2>3 DEF WasAt, kept, Kept
    <3> QED
      BY <2>3, <3>1, <3>2
  <2>4. CASE k > kept(r)
    <3>1. /\ r # t /\ Listens(t) /\ out # <<>> /\ out[1].to \in {r, Nobody}
          /\ Len(inbox'[r]) = kept(r) + Len(out)
          /\ \A j \in 1..Len(out) : inbox'[r][kept(r) + j] = out[j]
      BY <1>8, <2>1, <2>2, <2>4
    <3>2. k - kept(r) \in 1..Len(out) /\ kept(r) + (k - kept(r)) = k
      BY <2>2, <2>4, <3>1
    <3>3. inbox'[r][k] = out[k - kept(r)]
      BY <3>1, <3>2
    <3> QED
      BY <2>4, <3>1, <3>2, <3>3
  <2> QED
    BY <2>2, <2>3, <2>4
<1>10. ASSUME NEW r \in Tabs, Listens(r)', NEW k \in DOMAIN inbox[r], ~(r = t /\ k = n)
       PROVE  /\ NowAt(r, k, t, n) \in DOMAIN inbox'[r] /\ NowAt(r, k, t, n) <= kept(r)
              /\ inbox'[r][NowAt(r, k, t, n)] = inbox[r][k]
  <2> DEFINE now == NowAt(r, k, t, n)
  <2>1. /\ now \in 1..kept(r) /\ WasAt(r, now, t, n) = k /\ kept(r) \in Nat
    BY <1>1, <1>10 DEF NowAt, WasAt, kept, Kept
  <2>2. inbox'[r][now] = inbox[r][k]
    BY <1>1, <1>8, <1>10, <2>1
  <2>3. now \in DOMAIN inbox'[r]
    BY <1>4, <1>8, <1>10, <2>1
  <2> QED
    BY <2>1, <2>2, <2>3
<1>11. ASSUME NEW r \in Tabs, Listens(r)', r # t, Listens(t), out # <<>>, out[1].to \in {r, Nobody},
              NEW k \in DOMAIN out
       PROVE  kept(r) + k \in DOMAIN inbox'[r] /\ inbox'[r][kept(r) + k] = out[k]
  <2>1. Len(inbox'[r]) = kept(r) + Len(out) /\ \A j \in 1..Len(out) : inbox'[r][kept(r) + j] = out[j]
    BY <1>8, <1>11
  <2>2. k \in 1..Len(out) /\ kept(r) \in Nat
    BY <1>1, <1>11
  <2> QED
    BY <1>4, <2>1, <2>2
<1> USE DEF kept
<1>12. \A r \in Tabs : Listens(r)' =>
         \A k \in DOMAIN inbox[r] :
            \/ r = t /\ k = n
            \/ /\ NowAt(r, k, t, n) \in DOMAIN inbox'[r] /\ NowAt(r, k, t, n) <= Kept(r, t, n)
               /\ inbox'[r][NowAt(r, k, t, n)] = inbox[r][k]
  BY <1>10
<1>13. \A r \in Tabs : Listens(r)' =>
         (r # t /\ Listens(t) /\ out # <<>> /\ out[1].to \in {r, Nobody} =>
            \A k \in DOMAIN out :
              /\ Kept(r, t, n) + k \in DOMAIN inbox'[r]
              /\ inbox'[r][Kept(r, t, n) + k] = out[k])
  BY <1>11
<1>14. \A r \in Tabs : \A k \in DOMAIN inbox'[r] :
         \/ /\ k <= Kept(r, t, n) /\ WasAt(r, k, t, n) \in DOMAIN inbox[r]
            /\ inbox'[r][k] = inbox[r][WasAt(r, k, t, n)]
         \/ /\ k > Kept(r, t, n) /\ k - Kept(r, t, n) \in DOMAIN out
            /\ inbox'[r][k] = out[k - Kept(r, t, n)]
            /\ r # t /\ out[1].to \in {r, Nobody}
  BY <1>9
<1> QED
  BY <1>4, <1>6, <1>12, <1>13, <1>14 DEF Flows

\* The posted requests are those of the calls that wait, each once.
LEMMA DispatchedAsks ==
  ASSUME BridgeTypeOK, NEW t \in Tabs, NEW l \in Tabs
  PROVE  /\ Dispatched(t, l) \in Seq(Message)
         /\ \A n \in DOMAIN Dispatched(t, l) :
              \E id \in Waiting(t) : Dispatched(t, l)[n] = Req(t, l, id)
         /\ \A n, k \in DOMAIN Dispatched(t, l) :
              Dispatched(t, l)[n].id = Dispatched(t, l)[k].id => n = k
<1>1. CASE l \in {t, Nobody}
  BY <1>1 DEF Dispatched
<1>2. CASE l \notin {t, Nobody}
  <2> DEFINE W == Waiting(t)
             ids == Ascending(W)
             N == Cardinality(W)
  <2>1. W \in SUBSET Calls
    BY DEF Waiting
  <2> HIDE DEF W
  <2>2. N \in Nat /\ ids \in [1..N -> W] /\ \A i, j \in 1..N : i # j => ids[i] # ids[j]
    BY <2>1, AscendingSorts
  <2>3. Dispatched(t, l) = [n \in 1..N |-> Req(t, l, ids[n])]
    BY <1>2 DEF Dispatched, W
  <2> HIDE DEF ids, N
  <2>4. \A n \in 1..N : Req(t, l, ids[n]) \in Message /\ Req(t, l, ids[n]).id = ids[n]
    <3>1. \A n \in 1..N : ids[n] \in Calls
      BY <2>1, <2>2
    <3>2. \A n \in 1..N : Req(t, l, ids[n]) \in Message
      BY <3>1, MessagesMade
    <3> QED
      BY <3>2 DEF Req
  <2>5. Dispatched(t, l) \in Seq(Message)
    BY <2>2, <2>3, <2>4
  <2>6. DOMAIN Dispatched(t, l) = 1..N /\ \A n \in 1..N : Dispatched(t, l)[n] = Req(t, l, ids[n])
    BY <2>3
  <2>7. \A n \in 1..N : \E id \in W : Dispatched(t, l)[n] = Req(t, l, id)
    BY <2>2, <2>6
  <2> QED
    BY <2>2, <2>4, <2>5, <2>6, <2>7 DEF W
<1> QED
  BY <1>1, <1>2

-----------------------------------------------------------------------------
(* Requests and their traces.  A step in which t takes message n (0: none) *)
(* and posts `out'.                                                        *)

Pending(u, id) == calls[u][id].st \in {"none", "queued"}

Begins(u, id) == u \in alive /\ Pending(u, id) /\ calls'[u][id].st \notin {"none", "queued"}

Takes(t, n, u, id) == n # 0 /\ IsReq(inbox[t][n], u, id)

\* A request is posted, run or served only as its call begins or as a posted
\* request is taken; an answer only for what is served.
TraceStep(t, n, out) ==
  /\ alive' \subseteq alive
  /\ \A u \in alive', id \in Calls : Pending(u, id)' => Pending(u, id)
  /\ \A u \in Tabs, id \in Calls :
       \/ executed'[u][id] = executed[u][id]
       \/ executed'[u][id] = executed[u][id] + 1 /\ (Begins(u, id) \/ Takes(t, n, u, id))
  /\ \A k \in DOMAIN out : out[k].k = "req" =>
       /\ Begins(out[k].from, out[k].id) /\ out[1].to # Nobody
       /\ executed'[out[k].from][out[k].id] = executed[out[k].from][out[k].id]
  /\ \A k, j \in DOMAIN out :
       out[k].k = "req" /\ out[j].k = "req" /\ out[k].id = out[j].id => k = j
  /\ \A k \in DOMAIN out : out[k].k = "res" =>
       \E w \in work[t] : w.from = out[1].to /\ w.id = out[k].id
  /\ \A r \in Tabs : \A w \in work'[r] :
       \/ \E v \in work[r] : v.from = w.from /\ v.id = w.id
       \/ Begins(w.from, w.id)
       \/ Takes(t, n, w.from, w.id)

\* A step that leaves and takes traces of requests as it should keeps the
\* invariant of the requests.
LEMMA TracesKept ==
  ASSUME BridgeTypeOK, BridgeTypeOK', WaitingLeftNoTrace, RequestIsFresh, RunsAtMostOnce,
         NEW t \in Tabs, NEW n, NEW out \in Seq(Message),
         Flows(Message, t, n, out), TraceStep(t, n, out)
  PROVE  (WaitingLeftNoTrace /\ RequestIsFresh /\ RunsAtMostOnce)'
<1>1. /\ inbox \in [Tabs -> Seq(Message)] /\ inbox' \in [Tabs -> Seq(Message)]
      /\ alive \subseteq Tabs /\ alive' \subseteq Tabs
      /\ work' \in [Tabs -> SUBSET [from : Tabs, id : Calls, term : 0..MaxTerms, fresh : BOOLEAN]]
      /\ work \in [Tabs -> SUBSET [from : Tabs, id : Calls, term : 0..MaxTerms, fresh : BOOLEAN]]
  BY DEF BridgeTypeOK
<1>2. \A r \in Tabs : \A k \in DOMAIN inbox'[r] :
        \/ /\ k <= Kept(r, t, n) /\ WasAt(r, k, t, n) \in DOMAIN inbox[r]
           /\ inbox'[r][k] = inbox[r][WasAt(r, k, t, n)]
        \/ /\ k > Kept(r, t, n) /\ k - Kept(r, t, n) \in DOMAIN out
           /\ inbox'[r][k] = out[k - Kept(r, t, n)]
           /\ r # t /\ out[1].to \in {r, Nobody}
  BY DEF Flows
<1>3. n \in 0..Len(inbox[t]) /\ (n # 0 => n \in DOMAIN inbox[t])
  <2>1. n \in 0..Len(inbox[t])
    BY DEF Flows
  <2> QED
    BY <1>1, <2>1
<1>4. ASSUME NEW u \in alive, NEW id \in Calls, Pending(u, id)
      PROVE  /\ executed[u][id] = 0
             /\ \A r \in Tabs : \A k \in DOMAIN inbox[r] : ~IsReq(inbox[r][k], u, id)
             /\ \A r \in Tabs : \A w \in work[r] : w.from # u \/ w.id # id
             /\ \A k \in DOMAIN inbox[u] : inbox[u][k].k = "res" => inbox[u][k].id # id
             /\ ~Takes(t, n, u, id)
  <2>1. /\ executed[u][id] = 0
        /\ \A r \in Tabs : /\ \A k \in DOMAIN inbox[r] : ~IsReq(inbox[r][k], u, id)
                           /\ \A w \in work[r] : w.from # u \/ w.id # id
        /\ \A k \in DOMAIN inbox[u] : inbox[u][k].k = "res" => inbox[u][k].id # id
    BY <1>4 DEF WaitingLeftNoTrace, Pending
  <2>2. ~Takes(t, n, u, id)
    BY <1>3, <2>1 DEF Takes
  <2> QED
    BY <2>1, <2>2
<1>5. ASSUME NEW u \in Tabs, NEW id \in Calls, Takes(t, n, u, id)
      PROVE  /\ executed[u][id] = 0
             /\ \A s \in Tabs : \A k \in DOMAIN inbox[s] :
                  IsReq(inbox[s][k], u, id) => s = t /\ k = n
  BY <1>3, <1>5 DEF RequestIsFresh, Takes, IsReq
<1>6. ASSUME NEW u \in Tabs, NEW id \in Calls
      PROVE  \/ executed'[u][id] = executed[u][id]
             \/ executed[u][id] = 0 /\ executed'[u][id] = 1
  <2>1. CASE Begins(u, id) \/ Takes(t, n, u, id)
    <3>1. executed[u][id] = 0
      BY <1>4, <1>5, <2>1 DEF Begins
    <3>2. executed'[u][id] = executed[u][id] \/ executed'[u][id] = executed[u][id] + 1
      BY DEF TraceStep
    <3> QED
      BY <3>1, <3>2
  <2>2. CASE ~(Begins(u, id) \/ Takes(t, n, u, id))
    BY <2>2, Zenon DEF TraceStep
  <2> QED
    BY <2>1, <2>2
<1>7. RunsAtMostOnce'
  <2>1. \A u \in Tabs, id \in Calls : executed'[u][id] <= 1
    BY <1>6 DEF RunsAtMostOnce
  <2> QED
    BY <2>1 DEF RunsAtMostOnce
\* what has just been posted for a call
<1>8. ASSUME NEW r \in Tabs, NEW k \in DOMAIN inbox'[r], k > Kept(r, t, n),
             inbox'[r][k].k = "req"
      PROVE  /\ inbox'[r][k].from \in alive /\ inbox'[r][k].id \in Calls
             /\ Begins(inbox'[r][k].from, inbox'[r][k].id)
             /\ executed'[inbox'[r][k].from][inbox'[r][k].id] = 0
             /\ r = out[1].to
  <2>1. /\ k - Kept(r, t, n) \in DOMAIN out /\ inbox'[r][k] = out[k - Kept(r, t, n)]
        /\ out[1].to \in {r, Nobody}
    <3>1. k \in Nat /\ Kept(r, t, n) \in Int
      BY <1>1 DEF Kept
    <3> QED
      BY <1>2, <1>8, <3>1
  <2>2. /\ Begins(inbox'[r][k].from, inbox'[r][k].id) /\ out[1].to # Nobody
        /\ executed'[inbox'[r][k].from][inbox'[r][k].id] = executed[inbox'[r][k].from][inbox'[r][k].id]
    BY <1>8, <2>1 DEF TraceStep
  <2>3. inbox'[r][k].id \in Calls
    <3>1. inbox'[r][k] \in Message
      BY <1>1
    <3> QED
      BY <1>8, <3>1, MessagesRead
  <2>4. inbox'[r][k].from \in alive
    BY <2>2 DEF Begins
  <2>5. executed[inbox'[r][k].from][inbox'[r][k].id] = 0
    BY <1>4, <2>2, <2>3, <2>4 DEF Begins
  <2> QED
    BY <2>1, <2>2, <2>3, <2>4, <2>5
\* an old request is not that of a call which begins, nor of the one just taken
<1>9. ASSUME NEW r \in Tabs, NEW k \in DOMAIN inbox'[r], k <= Kept(r, t, n),
             inbox'[r][k].k = "req"
      PROVE  /\ inbox'[r][k].from \in Tabs /\ inbox'[r][k].id \in Calls
             /\ ~Begins(inbox'[r][k].from, inbox'[r][k].id)
             /\ executed'[inbox'[r][k].from][inbox'[r][k].id] = 0
             /\ WasAt(r, k, t, n) \in DOMAIN inbox[r]
             /\ inbox'[r][k] = inbox[r][WasAt(r, k, t, n)]
             /\ \A s \in Tabs : \A j \in DOMAIN inbox[s] :
                  IsReq(inbox[s][j], inbox'[r][k].from, inbox'[r][k].id)
                    => s = r /\ j = WasAt(r, k, t, n)
  <2> DEFINE m == inbox'[r][k]
             was == WasAt(r, k, t, n)
  <2>1. k \in Nat /\ Kept(r, t, n) \in Int
    BY <1>1 DEF Kept
  <2>2. was \in DOMAIN inbox[r] /\ m = inbox[r][was]
    BY <1>2, <1>9, <2>1
  <2>3. m.from \in Tabs /\ m.id \in Calls
    <3>1. inbox'[r][k] \in Message
      BY <1>1
    <3> QED
      BY <1>9, <3>1, MessagesRead
  <2>4. was # n \/ r # t
    <3>1. k \in Nat /\ k # 0 /\ n \in Int
      BY <1>1, <1>3
    <3> QED
      BY <3>1 DEF WasAt
  <2> HIDE DEF was, m
  <2>5. m.k = "req"
    BY <1>9 DEF m
  <2>6. /\ executed[m.from][m.id] = 0
        /\ \A s \in Tabs : \A j \in DOMAIN inbox[s] :
             IsReq(inbox[s][j], m.from, m.id) => s = r /\ j = was
    BY <2>2, <2>5 DEF RequestIsFresh
  <2>7. ~Begins(m.from, m.id)
    <3>1. IsReq(inbox[r][was], m.from, m.id)
      BY <2>2, <2>5 DEF IsReq
    <3> QED
      BY <1>4, <2>2, <2>3, <3>1 DEF Begins
  <2>8. ~Takes(t, n, m.from, m.id)
    BY <1>3, <2>4, <2>6 DEF Takes
  <2>9. executed'[m.from][m.id] = 0
    BY <2>3, <2>6, <2>7, <2>8 DEF TraceStep
  <2> QED
    BY <2>2, <2>3, <2>6, <2>7, <2>9 DEF m, was
<1>10. RequestIsFresh'
  <2> SUFFICES ASSUME NEW r \in Tabs, NEW k \in DOMAIN inbox'[r], inbox'[r][k].k = "req"
               PROVE  /\ executed'[inbox'[r][k].from][inbox'[r][k].id] = 0
                      /\ \A s \in Tabs : \A j \in DOMAIN inbox'[s] :
                           IsReq(inbox'[s][j], inbox'[r][k].from, inbox'[r][k].id) => s = r /\ j = k
    BY DEF RequestIsFresh, IsReq
  <2>1. k \in Nat /\ Kept(r, t, n) \in Int
    BY <1>1 DEF Kept
  <2>2. executed'[inbox'[r][k].from][inbox'[r][k].id] = 0
    BY <1>8, <1>9, <2>1
  <2>3. ASSUME NEW s \in Tabs, NEW j \in DOMAIN inbox'[s],
               IsReq(inbox'[s][j], inbox'[r][k].from, inbox'[r][k].id)
        PROVE  s = r /\ j = k
    <3>1. /\ inbox'[s][j].k = "req" /\ inbox'[s][j].from = inbox'[r][k].from
          /\ inbox'[s][j].id = inbox'[r][k].id
      BY <2>3 DEF IsReq
    <3>2. j \in Nat /\ Kept(s, t, n) \in Int
      BY <1>1 DEF Kept
    <3>3. CASE k > Kept(r, t, n)
      <4>1. Begins(inbox'[r][k].from, inbox'[r][k].id) /\ r = out[1].to
        BY <1>8, <3>3
      <4>2. j > Kept(s, t, n)
        BY <1>9, <3>1, <3>2, <4>1
      <4>3. s = r
        BY <1>8, <3>1, <4>1, <4>2
      <4>4. /\ k - Kept(r, t, n) \in DOMAIN out /\ inbox'[r][k] = out[k - Kept(r, t, n)]
            /\ j - Kept(r, t, n) \in DOMAIN out /\ inbox'[r][j] = out[j - Kept(r, t, n)]
        BY <1>2, <2>1, <3>2, <3>3, <4>2, <4>3
      <4>5. k - Kept(r, t, n) = j - Kept(r, t, n)
        BY <3>1, <4>3, <4>4 DEF TraceStep
      <4> QED
        BY <2>1, <3>2, <4>3, <4>5
    <3>4. CASE k <= Kept(r, t, n)
      <4>1. ~Begins(inbox'[r][k].from, inbox'[r][k].id)
        BY <1>9, <3>4
      <4>2. j <= Kept(s, t, n)
        BY <1>8, <3>1, <3>2, <4>1
      <4>3. /\ WasAt(s, j, t, n) \in DOMAIN inbox[s]
            /\ inbox'[s][j] = inbox[s][WasAt(s, j, t, n)]
        BY <1>9, <3>1, <4>2
      <4>4. s = r /\ WasAt(s, j, t, n) = WasAt(r, k, t, n)
        BY <1>9, <2>3, <3>4, <4>3
      <4> QED
        BY <1>3, <2>1, <3>2, <4>4 DEF WasAt
    <3> QED
      BY <2>1, <3>3, <3>4
  <2> QED
    BY <2>2, <2>3
<1>11. WaitingLeftNoTrace'
  <2> SUFFICES ASSUME NEW u \in alive', NEW id \in Calls, Pending(u, id)'
               PROVE  /\ executed'[u][id] = 0
                      /\ \A r \in Tabs :
                           /\ \A k \in DOMAIN inbox'[r] : ~IsReq(inbox'[r][k], u, id)
                           /\ \A w \in work'[r] : w.from # u \/ w.id # id
                      /\ \A k \in DOMAIN inbox'[u] : inbox'[u][k].k = "res" => inbox'[u][k].id # id
    BY DEF WaitingLeftNoTrace, Pending, IsReq
  <2>1. Pending(u, id) /\ u \in alive /\ u \in Tabs /\ ~Begins(u, id)
    BY <1>1 DEF TraceStep, Begins, Pending
  <2>2. /\ executed[u][id] = 0
        /\ \A r \in Tabs : \A k \in DOMAIN inbox[r] : ~IsReq(inbox[r][k], u, id)
        /\ \A r \in Tabs : \A w \in work[r] : w.from # u \/ w.id # id
        /\ \A k \in DOMAIN inbox[u] : inbox[u][k].k = "res" => inbox[u][k].id # id
        /\ ~Takes(t, n, u, id)
    BY <1>4, <2>1
  <2>3. executed'[u][id] = 0
    BY <2>1, <2>2 DEF TraceStep
  <2>4. ASSUME NEW r \in Tabs, NEW k \in DOMAIN inbox'[r]
        PROVE  ~IsReq(inbox'[r][k], u, id)
    <3>3. k \in Nat /\ Kept(r, t, n) \in Int
      BY <1>1 DEF Kept
    <3>1. CASE k <= Kept(r, t, n)
      <4>1. WasAt(r, k, t, n) \in DOMAIN inbox[r] /\ inbox'[r][k] = inbox[r][WasAt(r, k, t, n)]
        BY <1>2, <3>1, <3>3
      <4>2. ~IsReq(inbox[r][WasAt(r, k, t, n)], u, id)
        BY <2>2, <4>1
      <4> QED
        BY <4>1, <4>2
    <3>2. CASE k > Kept(r, t, n)
      BY <1>8, <2>1, <3>2 DEF IsReq
    <3> QED
      BY <3>1, <3>2, <3>3
  <2>5. ASSUME NEW r \in Tabs, NEW w \in work'[r]
        PROVE  w.from # u \/ w.id # id
    BY <2>1, <2>2, <2>5 DEF TraceStep
  <2>6. ASSUME NEW k \in DOMAIN inbox'[u], inbox'[u][k].k = "res"
        PROVE  inbox'[u][k].id # id
    <3>1. CASE k <= Kept(u, t, n) /\ WasAt(u, k, t, n) \in DOMAIN inbox[u]
               /\ inbox'[u][k] = inbox[u][WasAt(u, k, t, n)]
      BY <2>2, <2>6, <3>1
    <3>2. CASE /\ k - Kept(u, t, n) \in DOMAIN out
               /\ inbox'[u][k] = out[k - Kept(u, t, n)] /\ out[1].to \in {u, Nobody}
      <4>1. PICK w \in work[t] : w.from = out[1].to /\ w.id = inbox'[u][k].id
        BY <2>6, <3>2 DEF TraceStep
      <4>2. w.from # Nobody
        BY <1>1, <4>1, TabsAssumption
      <4> QED
        BY <2>2, <3>2, <4>1, <4>2
    <3> QED
      BY <1>2, <2>1, <2>6, <3>1, <3>2
  <2> QED
    BY <2>3, <2>4, <2>5, <2>6
<1> QED
  BY <1>7, <1>10, <1>11

-----------------------------------------------------------------------------
(* Terms and their answers.                                                *)

\* The message t takes is the bye of l, which u hears.
Byes(t, n, u, l) == u = t /\ n # 0 /\ inbox[t][n].k = "bye" /\ inbox[t][n].from = l

\* A term ends with a bye to everyone or with its tab; a tab learns of a term
\* from the message it takes, and forgets it with the bye; a call is sent to
\* the leader its tab knows; what is served and answered is of the host's term.
TermStep(t, n, out) ==
  /\ alive' \subseteq alive
  /\ \A r \in Tabs : Listens(r)' => Listens(r)
  /\ n # 0 => \A k \in 1..(n - 1) : inbox[t][k].from # inbox[t][n].from
  /\ \A k \in DOMAIN out : out[k].from = t
  /\ \A l \in Tabs :
       \/ host'[l] = host[l] \/ host[l] = 0 \/ l \notin alive'
       \/ /\ l = t /\ Listens(t) /\ out # <<>> /\ out[1].to = Nobody
          /\ \E k \in DOMAIN out : out[k].k = "bye"
  /\ \A k \in DOMAIN out : out[k].k = "leader" => out[k].info = host'[t]
  /\ \A u \in Tabs : leader'[u] \notin {u, Nobody} =>
       \/ leader'[u] = leader[u] /\ info'[u] = info[u] /\ ~Byes(t, n, u, leader[u])
       \/ /\ u = t /\ n # 0 /\ inbox[t][n].k = "leader"
          /\ leader'[u] = inbox[t][n].from /\ info'[u] = inbox[t][n].info
  /\ \A u \in Tabs, id \in Calls : calls'[u][id].st = "sent" =>
       \/ /\ calls'[u][id] = calls[u][id] /\ ~Byes(t, n, u, calls[u][id].to)
          /\ calls[u][id].to = u => host'[u] = host[u]
       \/ /\ Begins(u, id) /\ leader'[u] # Nobody
          /\ calls'[u][id].to = leader'[u] /\ calls'[u][id].info = info'[u]
  /\ \A u \in Tabs, id \in Calls : calls'[u][id].st = "ok" =>
       calls'[u][id].by = calls'[u][id].info
  /\ \A r \in Tabs : \A w \in work'[r] : w.fresh /\ w.term # 0 =>
       \/ w \in work[r] /\ host'[r] = host[r]
       \/ w.term = host'[r]
  /\ \A k \in DOMAIN out : out[k].k = "res" /\ out[k].st = "ok" =>
       /\ t \in alive /\ host[t] # 0 /\ out[k].by = host[t]
       /\ \E w \in work[t] : w.from = out[1].to /\ w.id = out[k].id

\* A step that begins, ends and answers for terms as it should keeps the
\* invariant of the terms.
LEMMA TermsKept ==
  ASSUME BridgeTypeOK, BridgeTypeOK', HostLeads, HostLeads', NoStrandedCall',
         WaitingLeftNoTrace, TermsEndWithBye, WorkIsOfTerm, AnswersAreOfTerm,
         NEW t \in Tabs, NEW n, NEW out \in Seq(Message),
         Flows(Message, t, n, out), TermStep(t, n, out)
  PROVE  (TermsEndWithBye /\ WorkIsOfTerm /\ AnswersAreOfTerm /\ AnsweredByItsLeader)'
<1>1. /\ inbox \in [Tabs -> Seq(Message)] /\ inbox' \in [Tabs -> Seq(Message)]
      /\ alive \subseteq Tabs /\ alive' \subseteq Tabs
      /\ work \in [Tabs -> SUBSET [from : Tabs, id : Calls, term : 0..MaxTerms, fresh : BOOLEAN]]
  BY DEF BridgeTypeOK
<1>2. \A r \in Tabs : \A k \in DOMAIN inbox'[r] :
        \/ /\ k <= Kept(r, t, n) /\ WasAt(r, k, t, n) \in DOMAIN inbox[r]
           /\ inbox'[r][k] = inbox[r][WasAt(r, k, t, n)]
        \/ /\ k > Kept(r, t, n) /\ k - Kept(r, t, n) \in DOMAIN out
           /\ inbox'[r][k] = out[k - Kept(r, t, n)]
           /\ r # t /\ out[1].to \in {r, Nobody}
  BY DEF Flows
<1>3. n \in 0..Len(inbox[t]) /\ (n # 0 => n \in DOMAIN inbox[t])
  <2>1. n \in 0..Len(inbox[t])
    BY DEF Flows
  <2> QED
    BY <1>1, <2>1
<1>4. \A r \in Tabs : \A k \in DOMAIN inbox'[r] : Listens(r)'
  BY <1>1 DEF Flows
<1>5. ASSUME NEW r \in Tabs, NEW k \in DOMAIN inbox'[r]
      PROVE  /\ k \in Nat /\ k # 0 /\ Kept(r, t, n) \in Int /\ n \in Nat
             /\ inbox'[r][k] \in Message
  BY <1>1, <1>3 DEF Kept
\* a term that is over stays over, as long as its bye is not taken
<1>6. ASSUME NEW u \in Tabs, Listens(u)', NEW l \in Tabs \ {u}, NEW i \in Terms,
             NEW j \in 0..Len(inbox[u]), OverFor(u, l, i, (j + 1)..Len(inbox[u])),
             ~(u = t /\ n # 0 /\ j = n), Byes(t, n, u, l) => n <= j
      PROVE  OverFor(u, l, i, (NowAt(u, j, t, n) + 1)..Len(inbox[u]))'
  <2> DEFINE places == (NowAt(u, j, t, n) + 1)..Len(inbox'[u])
  <2>1. Len(inbox[u]) \in Nat /\ Len(inbox'[u]) \in Nat /\ n \in Nat /\ i # 0
    BY <1>1, <1>3, BridgeAssumption DEF Terms
  <2>2. CASE \E p \in (j + 1)..Len(inbox[u]) : inbox[u][p].k = "bye" /\ inbox[u][p].from = l
    <3>1. PICK p \in (j + 1)..Len(inbox[u]) : inbox[u][p].k = "bye" /\ inbox[u][p].from = l
      BY <2>2
    <3>2. p \in DOMAIN inbox[u] /\ ~(u = t /\ p = n)
      BY <1>1, <1>3, <1>6, <2>1, <3>1 DEF Byes
    <3>3. NowAt(u, p, t, n) \in DOMAIN inbox'[u] /\ inbox'[u][NowAt(u, p, t, n)] = inbox[u][p]
      BY <1>6, <3>2 DEF Flows
    <3>4. NowAt(u, p, t, n) >= NowAt(u, j, t, n) + 1 /\ NowAt(u, j, t, n) \in Nat
      BY <1>6, <2>1, <3>1, <3>2 DEF NowAt
    <3>5. NowAt(u, p, t, n) \in places
      BY <1>1, <3>3, <3>4
    <3> HIDE DEF places
    <3>6. \E k \in places : inbox'[u][k].k = "bye" /\ inbox'[u][k].from = l
      BY <3>1, <3>3, <3>5
    <3> QED
      BY <3>6 DEF OverFor, places
  <2>3. CASE host[l] = i
    <3>1. CASE host'[l] = host[l] \/ l \notin alive'
      BY <2>3, <3>1 DEF OverFor
    <3>2. CASE /\ l = t /\ Listens(t) /\ out # <<>> /\ out[1].to = Nobody
               /\ \E k \in DOMAIN out : out[k].k = "bye"
      <4>1. PICK k \in DOMAIN out : out[k].k = "bye"
        BY <3>2
      <4>2. out[k].from = l
        BY <3>2 DEF TermStep
      <4>3. Kept(u, t, n) + k \in DOMAIN inbox'[u] /\ inbox'[u][Kept(u, t, n) + k] = out[k]
        BY <1>6, <3>2 DEF Flows
      <4>4. Kept(u, t, n) + k \in places
        <5>1. Kept(u, t, n) = Len(inbox[u]) /\ NowAt(u, j, t, n) = j
          <6>1. u # t /\ Len(inbox[u]) - 0 = Len(inbox[u])
            BY <2>1, <3>2
          <6> QED
            BY <6>1 DEF Kept, NowAt
        <5>2. k \in Nat /\ k # 0
          OBVIOUS
        <5>3. Len(inbox[u]) + k \in DOMAIN inbox'[u]
          BY <4>3, <5>1
        <5>4. Len(inbox[u]) + k \in 1..Len(inbox'[u])
          BY <1>1, <5>3
        <5> QED
          BY <2>1, <5>1, <5>2, <5>4
      <4> HIDE DEF places
      <4>5. \E p \in places : inbox'[u][p].k = "bye" /\ inbox'[u][p].from = l
        BY <4>1, <4>2, <4>3, <4>4
      <4> QED
        BY <4>5 DEF OverFor, places
    <3>3. host[l] # 0
      BY <2>1, <2>3
    <3> QED
      BY <3>1, <3>2, <3>3 DEF TermStep
  <2>4. CASE l \notin alive
    <3>1. l \notin alive'
      BY <2>4 DEF TermStep
    <3> QED
      BY <3>1 DEF OverFor
  <2> QED
    BY <1>6, <2>2, <2>3, <2>4 DEF OverFor
<1>7. ASSUME NEW u \in Tabs, Listens(u)', NEW l \in Tabs \ {u}, NEW i \in Terms,
             NEW j \in 0..Len(inbox[u]), OverFor(u, l, i, (j + 1)..Len(inbox[u])),
             ~Byes(t, n, u, l)
      PROVE  OverFor(u, l, i, DOMAIN inbox[u])'
  <2>1. OverFor(u, l, i, (0 + 1)..Len(inbox[u]))
    <3>1. (j + 1)..Len(inbox[u]) \subseteq (0 + 1)..Len(inbox[u])
      OBVIOUS
    <3> QED
      BY <1>7, <3>1 DEF OverFor
  <2>2. 0 \in 0..Len(inbox[u]) /\ ~(u = t /\ n # 0 /\ 0 = n)
    BY <1>1
  <2>3. OverFor(u, l, i, (NowAt(u, 0, t, n) + 1)..Len(inbox[u]))'
    BY <1>6, <1>7, <2>1, <2>2
  <2>4. NowAt(u, 0, t, n) = 0
    BY <1>3 DEF NowAt
  <2>5. DOMAIN inbox'[u] = (0 + 1)..Len(inbox'[u])
    BY <1>1
  <2> QED
    BY <2>3, <2>4, <2>5
<1>8. ASSUME NEW u \in Tabs, NEW k \in DOMAIN inbox'[u], inbox'[u][k].k = "leader",
             NEW l, l = inbox'[u][k].from, NEW i, i = inbox'[u][k].info
      PROVE  OverFor(u, l, i, (k + 1)..Len(inbox[u]))'
  <2>1. l \in Tabs \ {u} /\ i \in Terms
    <3>1. l # u
      BY <1>8 DEF HostLeads
    <3> QED
      BY <1>5, <1>8, <3>1, MessagesRead
  <2>2. Listens(u)' /\ k \in Nat /\ k # 0 /\ Kept(u, t, n) \in Int /\ n \in Nat
    BY <1>4, <1>5
  <2>3. CASE k <= Kept(u, t, n)
    <3> DEFINE was == WasAt(u, k, t, n)
    <3>1. was \in DOMAIN inbox[u] /\ inbox'[u][k] = inbox[u][was]
      BY <1>2, <2>2, <2>3
    <3>2. NowAt(u, was, t, n) = k /\ ~(u = t /\ n # 0 /\ was = n)
      BY <2>2 DEF NowAt, WasAt
    <3> HIDE DEF was
    <3>3. OverFor(u, l, i, (was + 1)..Len(inbox[u]))
      BY <1>8, <3>1 DEF TermsEndWithBye
    <3>4. was \in 0..Len(inbox[u]) /\ was \in Nat /\ was # 0
      BY <1>1, <3>1
    <3>5. Byes(t, n, u, l) => n <= was
      <4> SUFFICES ASSUME Byes(t, n, u, l), ~(n <= was) PROVE FALSE
        OBVIOUS
      <4>1. u = t /\ n # 0 /\ was \in 1..(n - 1) /\ inbox[t][n].from = l
        BY <2>2, <3>4 DEF Byes
      <4>2. inbox[t][was].from # inbox[t][n].from
        BY <4>1 DEF TermStep
      <4> QED
        BY <1>8, <3>1, <4>1, <4>2
    <3>6. OverFor(u, l, i, (NowAt(u, was, t, n) + 1)..Len(inbox[u]))'
      BY <1>6, <2>1, <2>2, <3>2, <3>3, <3>4, <3>5
    <3> QED
      BY <3>2, <3>6
  <2>4. CASE k > Kept(u, t, n)
    <3>1. k - Kept(u, t, n) \in DOMAIN out /\ inbox'[u][k] = out[k - Kept(u, t, n)]
      BY <1>2, <2>2, <2>4
    <3>2. l = t /\ i = host'[t]
      BY <1>8, <3>1 DEF TermStep
    <3> QED
      BY <3>2 DEF OverFor
  <2> QED
    BY <2>2, <2>3, <2>4
<1>9. ASSUME NEW u \in Tabs, NEW l, l = leader'[u], l \notin {u, Nobody}
      PROVE  OverFor(u, l, info[u], DOMAIN inbox[u])'
  <2>1. l \in Tabs \ {u}
    BY <1>9 DEF BridgeTypeOK
  <2>2. Listens(u)' /\ info'[u] \in Terms
    <3>1. Listens(u)' /\ info'[u] # 0
      BY <1>9 DEF HostLeads
    <3>2. info'[u] \in 0..MaxTerms
      BY DEF BridgeTypeOK
    <3> QED
      BY <3>1, <3>2, BridgeAssumption DEF Terms
  <2>3. Len(inbox[u]) \in Nat /\ DOMAIN inbox[u] = (0 + 1)..Len(inbox[u]) /\ 0 \in 0..Len(inbox[u])
    BY <1>1
  <2> SUFFICES ASSUME NEW i, i = info'[u] PROVE OverFor(u, l, i, DOMAIN inbox[u])'
    BY DEF OverFor
  <2>4. CASE leader'[u] = leader[u] /\ info'[u] = info[u] /\ ~Byes(t, n, u, leader[u])
    <3>1. OverFor(u, l, i, (0 + 1)..Len(inbox[u]))
      BY <1>9, <2>3, <2>4 DEF TermsEndWithBye
    <3> QED
      BY <1>7, <1>9, <2>1, <2>2, <2>3, <2>4, <3>1
  <2>5. CASE /\ u = t /\ n # 0 /\ inbox[t][n].k = "leader"
             /\ leader'[u] = inbox[t][n].from /\ info'[u] = inbox[t][n].info
    <3>1. OverFor(u, l, i, (n + 1)..Len(inbox[u]))
      BY <1>3, <1>9, <2>5 DEF TermsEndWithBye
    <3>2. ~Byes(t, n, u, l)
      BY <2>5 DEF Byes
    <3> QED
      BY <1>3, <1>7, <2>1, <2>2, <2>5, <3>1, <3>2
  <2> QED
    BY <1>9, <2>4, <2>5 DEF TermStep
<1>10. ASSUME NEW u \in Tabs, NEW id \in Calls, calls'[u][id].st = "sent"
       PROVE  /\ calls'[u][id].info # 0
              /\ calls'[u][id].to = u => calls'[u][id].info = host'[u]
              /\ calls'[u][id].to # u =>
                   OverFor(u, calls[u][id].to, calls[u][id].info, DOMAIN inbox[u])'
  <2>1. Listens(u)' /\ leader'[u] = calls'[u][id].to
    BY <1>10 DEF NoStrandedCall
  <2> DEFINE l == calls'[u][id].to
             i == calls'[u][id].info
  <2>2. CASE /\ calls'[u][id] = calls[u][id] /\ ~Byes(t, n, u, calls[u][id].to)
             /\ calls[u][id].to = u => host'[u] = host[u]
    <3>1. /\ calls[u][id].info # 0
          /\ calls[u][id].to = u => calls[u][id].info = host[u]
          /\ calls[u][id].to # u => OverFor(u, calls[u][id].to, calls[u][id].info, DOMAIN inbox[u])
      BY <1>10, <2>2 DEF TermsEndWithBye
    <3>2. ASSUME NEW a, a = calls[u][id].to, a # u, NEW b, b = calls[u][id].info
          PROVE  OverFor(u, a, b, DOMAIN inbox[u])'
      <4>1. CASE a \notin Tabs
        BY <1>1, <4>1 DEF OverFor
      <4>2. CASE a \in Tabs
        <5>1. b \in Terms
          <6>1. b \in 0..MaxTerms
            BY <3>2 DEF BridgeTypeOK
          <6> QED
            BY <3>1, <3>2, <6>1, BridgeAssumption DEF Terms
        <5>2. Len(inbox[u]) \in Nat /\ DOMAIN inbox[u] = (0 + 1)..Len(inbox[u]) /\ 0 \in 0..Len(inbox[u])
          BY <1>1
        <5>3. OverFor(u, a, b, (0 + 1)..Len(inbox[u]))
          BY <3>1, <3>2, <5>2
        <5>4. ~Byes(t, n, u, a) /\ a \in Tabs \ {u}
          BY <2>2, <3>2, <4>2
        <5> QED
          BY <1>7, <2>1, <5>1, <5>2, <5>3, <5>4
      <4> QED
        BY <4>1, <4>2
    <3>3. calls'[u][id].to # u => OverFor(u, calls[u][id].to, calls[u][id].info, DOMAIN inbox[u])'
      BY <2>2, <3>2 DEF OverFor
    <3> QED
      BY <2>2, <3>1, <3>3
  <2>3. CASE /\ leader'[u] # Nobody
             /\ calls'[u][id].to = leader'[u] /\ calls'[u][id].info = info'[u]
    <3>1. info'[u] # 0 /\ (leader'[u] = u => host'[u] = info'[u])
      BY <2>3 DEF HostLeads
    <3>2. calls'[u][id].to # u => OverFor(u, calls[u][id].to, calls[u][id].info, DOMAIN inbox[u])'
      BY <1>9, <2>3 DEF OverFor
    <3> QED
      BY <2>3, <3>1, <3>2
  <2> QED
    BY <1>10, <2>2, <2>3 DEF TermStep
<1>11. TermsEndWithBye'
  <2>1. \A u \in Tabs : \A k \in DOMAIN inbox'[u] : inbox'[u][k].k = "leader" =>
          OverFor(u, inbox[u][k].from, inbox[u][k].info, (k + 1)..Len(inbox[u]))'
    BY <1>8 DEF OverFor
  <2>2. \A u \in Tabs : leader'[u] \notin {u, Nobody} =>
          OverFor(u, leader[u], info[u], DOMAIN inbox[u])'
    BY <1>9 DEF OverFor
  <2> QED
    BY <1>10, <2>1, <2>2 DEF TermsEndWithBye
<1>12. WorkIsOfTerm'
  BY DEF WorkIsOfTerm, TermStep
<1>13. ASSUME NEW u \in Tabs, NEW k \in DOMAIN inbox'[u],
              NEW m, m = inbox'[u][k], m.k = "res", m.st = "ok",
              calls'[u][m.id].st = "sent", calls'[u][m.id].to = m.from
       PROVE  \/ m.by = calls'[u][m.id].info
              \/ \E p \in 1..(k - 1) : inbox'[u][p].k = "bye" /\ inbox'[u][p].from = m.from
  <2>1. Listens(u)' /\ k \in Nat /\ k # 0 /\ Kept(u, t, n) \in Int /\ n \in Nat
    BY <1>4, <1>5
  <2>2. m.id \in Calls /\ m.from \in Tabs
    BY <1>5, <1>13, MessagesRead
  <2>3. \/ /\ calls'[u][m.id] = calls[u][m.id] /\ ~Byes(t, n, u, calls[u][m.id].to)
        \/ Begins(u, m.id)
    BY <1>13, <2>2 DEF TermStep
  <2>4. Begins(u, m.id) =>
          /\ \A j \in DOMAIN inbox[u] : inbox[u][j].k = "res" => inbox[u][j].id # m.id
          /\ \A w \in work[t] : w.from # u \/ w.id # m.id
    BY <2>2 DEF WaitingLeftNoTrace, Begins, Pending
  <2>5. CASE k <= Kept(u, t, n)
    <3> DEFINE was == WasAt(u, k, t, n)
    <3>1. was \in DOMAIN inbox[u] /\ m = inbox[u][was]
      BY <1>2, <1>13, <2>1, <2>5
    <3>2. ~Begins(u, m.id)
      BY <1>13, <2>4, <3>1
    <3>3. calls'[u][m.id] = calls[u][m.id] /\ ~Byes(t, n, u, m.from)
      BY <1>13, <2>3, <3>2
    <3>4. \/ m.by = calls[u][m.id].info
          \/ \E p \in 1..(was - 1) : inbox[u][p].k = "bye" /\ inbox[u][p].from = m.from
      <4> HIDE DEF was
      <4>1. inbox[u][was].k = "res" /\ inbox[u][was].st = "ok"
        BY <1>13, <3>1
      <4>2. calls[u][inbox[u][was].id].st = "sent" /\ calls[u][inbox[u][was].id].to = inbox[u][was].from
        BY <1>13, <3>1, <3>3
      <4> QED
        BY <3>1, <4>1, <4>2 DEF AnswersAreOfTerm
    <3>5. ASSUME NEW p \in 1..(was - 1), inbox[u][p].k = "bye", inbox[u][p].from = m.from
          PROVE  \E q \in 1..(k - 1) : inbox'[u][q].k = "bye" /\ inbox'[u][q].from = m.from
      <4>1. was \in Nat /\ was <= Len(inbox[u]) /\ Len(inbox[u]) \in Nat
        BY <1>1, <3>1
      <4>2. p \in DOMAIN inbox[u]
        BY <1>1, <4>1
      <4>3. ~(u = t /\ p = n)
        BY <2>1, <3>3, <3>5, <4>1 DEF Byes
      <4>4. NowAt(u, p, t, n) \in 1..(k - 1)
        BY <2>1, <4>1, <4>3 DEF NowAt, WasAt
      <4>5. inbox'[u][NowAt(u, p, t, n)] = inbox[u][p]
        BY <2>1, <4>2, <4>3 DEF Flows
      <4> QED
        BY <3>5, <4>4, <4>5
    <3> QED
      BY <3>3, <3>4, <3>5
  <2>6. CASE k > Kept(u, t, n)
    <3>1. /\ k - Kept(u, t, n) \in DOMAIN out /\ m = out[k - Kept(u, t, n)]
          /\ u # t /\ out[1].to \in {u, Nobody}
      BY <1>2, <1>13, <2>1, <2>6
    <3>2. /\ t \in alive /\ host[t] # 0 /\ m.by = host[t] /\ m.from = t
          /\ \E w \in work[t] : w.from = out[1].to /\ w.id = m.id
      BY <1>13, <3>1 DEF TermStep
    <3>3. \E w \in work[t] : w.from = u /\ w.id = m.id
      <4>1. \A w \in work[t] : w.from # Nobody
        BY <1>1, TabsAssumption
      <4> QED
        BY <3>1, <3>2, <4>1
    <3>4. calls'[u][m.id] = calls[u][m.id]
      BY <2>3, <2>4, <3>3
    <3>5. OverFor(u, t, calls[u][m.id].info, DOMAIN inbox[u])
      <4>1. calls[u][m.id].st = "sent" /\ calls[u][m.id].to = t /\ t # u
        BY <1>13, <3>1, <3>2, <3>4
      <4> QED
        BY <2>2, <4>1 DEF TermsEndWithBye
    <3>6. ASSUME NEW p \in DOMAIN inbox[u], inbox[u][p].k = "bye", inbox[u][p].from = t
          PROVE  \E q \in 1..(k - 1) : inbox'[u][q].k = "bye" /\ inbox'[u][q].from = m.from
      <4>1. p \in Nat /\ p # 0 /\ p <= Len(inbox[u]) /\ Len(inbox[u]) \in Nat
        BY <1>1
      <4>2. Kept(u, t, n) = Len(inbox[u]) /\ NowAt(u, p, t, n) = p
        BY <3>1, <4>1 DEF Kept, NowAt
      <4>3. inbox'[u][p] = inbox[u][p]
        <5>1. \A j \in DOMAIN inbox[u] :
                \/ u = t /\ j = n
                \/ inbox'[u][NowAt(u, j, t, n)] = inbox[u][j]
          BY <2>1 DEF Flows
        <5> QED
          BY <3>1, <4>2, <5>1
      <4>4. p \in 1..(k - 1)
        BY <2>1, <2>6, <4>1, <4>2
      <4> QED
        BY <3>2, <3>6, <4>3, <4>4
    <3> QED
      BY <3>2, <3>4, <3>5, <3>6 DEF OverFor
  <2> QED
    BY <2>1, <2>5, <2>6
<1>14. AnswersAreOfTerm'
  BY <1>13 DEF AnswersAreOfTerm
<1>15. AnsweredByItsLeader'
  BY DEF AnsweredByItsLeader, TermStep
<1> QED
  BY <1>11, <1>12, <1>14, <1>15

-----------------------------------------------------------------------------
(* What a step makes of one tab: its calls, what it serves.                *)

CallRecord ==
  [st : {"none", "queued", "sent", "ok", "error", "changed"},
   to : Tabs \cup {Nobody}, info : 0..MaxTerms, by : 0..MaxTerms]

WorkRecord == [from : Tabs, id : Calls, term : 0..MaxTerms, fresh : BOOLEAN]

\* The kinds of the fields, with names for those of calls and of work.
LEMMA BridgeTypes ==
  BridgeTypeOK <=>
    /\ alive \subseteq Tabs
    /\ host \in [Tabs -> 0..MaxTerms]
    /\ leader \in [Tabs -> Tabs \cup {Nobody}]
    /\ info \in [Tabs -> 0..MaxTerms]
    /\ closed \in [Tabs -> BOOLEAN]
    /\ calls \in [Tabs -> [Calls -> CallRecord]]
    /\ work \in [Tabs -> SUBSET WorkRecord]
    /\ inbox \in [Tabs -> Seq(Message)]
    /\ terms \in 0..MaxTerms
    /\ executed \in [Tabs -> [Calls -> Nat]]
BY DEF BridgeTypeOK, CallRecord, WorkRecord

\* The same after a step.
LEMMA BridgeTypesNext ==
  BridgeTypeOK' <=>
    /\ alive' \subseteq Tabs
    /\ host' \in [Tabs -> 0..MaxTerms]
    /\ leader' \in [Tabs -> Tabs \cup {Nobody}]
    /\ info' \in [Tabs -> 0..MaxTerms]
    /\ closed' \in [Tabs -> BOOLEAN]
    /\ calls' \in [Tabs -> [Calls -> CallRecord]]
    /\ work' \in [Tabs -> SUBSET WorkRecord]
    /\ inbox' \in [Tabs -> Seq(Message)]
    /\ terms' \in 0..MaxTerms
    /\ executed' \in [Tabs -> [Calls -> Nat]]
BY DEF BridgeTypeOK, CallRecord, WorkRecord

\* What #settle and #setLeader write into a call.
LEMMA CallChanged ==
  ASSUME NEW call \in CallRecord
  PROVE  /\ \A st \in {"none", "queued", "sent", "ok", "error", "changed"} :
              /\ [call EXCEPT !.st = st] \in CallRecord
              /\ [call EXCEPT !.st = st].st = st /\ [call EXCEPT !.st = st].to = call.to
              /\ [call EXCEPT !.st = st].info = call.info /\ [call EXCEPT !.st = st].by = call.by
         /\ \A l \in Tabs \cup {Nobody}, i \in 0..MaxTerms :
              /\ [call EXCEPT !.st = "sent", !.to = l, !.info = i] \in CallRecord
              /\ [call EXCEPT !.st = "sent", !.to = l, !.info = i].st = "sent"
              /\ [call EXCEPT !.st = "sent", !.to = l, !.info = i].to = l
              /\ [call EXCEPT !.st = "sent", !.to = l, !.info = i].info = i
         /\ \A st \in {"ok", "error", "changed"}, by \in 0..MaxTerms :
              /\ [call EXCEPT !.st = st, !.by = by] \in CallRecord
              /\ [call EXCEPT !.st = st, !.by = by].st = st
              /\ [call EXCEPT !.st = st, !.by = by].to = call.to
              /\ [call EXCEPT !.st = st, !.by = by].info = call.info
              /\ [call EXCEPT !.st = st, !.by = by].by = by
BY DEF CallRecord

\* What is served, and what becomes of it when the generation ends.
LEMMA WorkServed ==
  /\ \A u \in Tabs, id \in Calls, h \in 0..MaxTerms :
       /\ Serving(u, id, h) \in WorkRecord
       /\ Serving(u, id, h).from = u /\ Serving(u, id, h).id = id /\ Serving(u, id, h).term = h
  /\ \A w \in WorkRecord :
       /\ [w EXCEPT !.fresh = FALSE] \in WorkRecord /\ [w EXCEPT !.fresh = FALSE].fresh = FALSE
       /\ [w EXCEPT !.fresh = FALSE].from = w.from /\ [w EXCEPT !.fresh = FALSE].id = w.id
BY DEF WorkRecord, Serving

\* What becomes of one call under a new leader.
LEMMA CallUnder ==
  ASSUME calls \in [Tabs -> [Calls -> CallRecord]],
         NEW t \in Tabs, NEW l \in Tabs \cup {Nobody}, NEW i \in 0..MaxTerms, NEW id \in Calls
  PROVE  LET was == calls[t][id]
             now == CallsUnder(t, l, i)[id] IN
         /\ now \in CallRecord
         /\ was.st = "sent" /\ l # leader[t] => now.st = "changed"
         /\ was.st = "queued" /\ l # Nobody => now.st = "sent" /\ now.to = l /\ now.info = i
         /\ \/ was.st = "sent" /\ l # leader[t]
            \/ was.st = "queued" /\ l # Nobody
            \/ now = was
<1> DEFINE was == calls[t][id]
           now == CallsUnder(t, l, i)[id]
<1>1. was \in CallRecord
  OBVIOUS
<1>2. now = CASE was.st = "sent" /\ l # leader[t] -> [was EXCEPT !.st = "changed"]
              [] was.st = "queued" /\ l # Nobody -> [was EXCEPT !.st = "sent", !.to = l, !.info = i]
              [] OTHER -> was
  BY DEF CallsUnder
<1> HIDE DEF was, now
<1>3. /\ [was EXCEPT !.st = "changed"] \in CallRecord
      /\ [was EXCEPT !.st = "changed"].st = "changed"
  BY <1>1, CallChanged
<1>4. /\ [was EXCEPT !.st = "sent", !.to = l, !.info = i] \in CallRecord
      /\ [was EXCEPT !.st = "sent", !.to = l, !.info = i].st = "sent"
      /\ [was EXCEPT !.st = "sent", !.to = l, !.info = i].to = l
      /\ [was EXCEPT !.st = "sent", !.to = l, !.info = i].info = i
  BY <1>1 DEF CallRecord
<1>5. CASE was.st = "sent" /\ l # leader[t]
  <2>1. now = [was EXCEPT !.st = "changed"]
    BY <1>2, <1>5
  <2> QED
    BY <1>3, <1>5, <2>1 DEF was, now
<1>6. CASE was.st = "queued" /\ l # Nobody
  <2>1. now = [was EXCEPT !.st = "sent", !.to = l, !.info = i]
    BY <1>2, <1>6
  <2> QED
    BY <1>4, <1>6, <2>1 DEF was, now
<1>7. CASE ~(was.st = "sent" /\ l # leader[t]) /\ ~(was.st = "queued" /\ l # Nobody)
  <2>1. now = was
    BY <1>2, <1>7
  <2> QED
    BY <1>1, <1>7, <2>1 DEF was, now
<1> QED
  BY <1>5, <1>6, <1>7

\* What is served under a new leader.
LEMMA WorkUnderFacts ==
  ASSUME work \in [Tabs -> SUBSET WorkRecord],
         NEW t \in Tabs, NEW l, NEW h \in 0..MaxTerms
  PROVE  /\ WorkUnder(t, l, h) \in SUBSET WorkRecord
         /\ \A w \in WorkUnder(t, l, h) :
              \/ /\ l = leader[t] /\ w \in work[t]
              \/ /\ ~w.fresh
                 /\ \E v \in work[t] : v.from = w.from /\ v.id = w.id
              \/ /\ l = t /\ w.from = t /\ w.id \in Waiting(t) /\ w.term = h
<1> DEFINE stale == {[w EXCEPT !.fresh = FALSE] : w \in work[t]}
           own == {Serving(t, id, h) : id \in Waiting(t)}
<1>1. /\ stale \in SUBSET WorkRecord
      /\ \A w \in stale : ~w.fresh /\ \E v \in work[t] : v.from = w.from /\ v.id = w.id
  <2>1. ASSUME NEW w \in stale
        PROVE  /\ w \in WorkRecord /\ ~w.fresh
               /\ \E v \in work[t] : v.from = w.from /\ v.id = w.id
    <3>1. PICK v \in work[t] : w = [v EXCEPT !.fresh = FALSE]
      OBVIOUS
    <3>2. v \in WorkRecord
      OBVIOUS
    <3>3. w \in WorkRecord /\ ~w.fresh /\ w.from = v.from /\ w.id = v.id
      BY <3>1, <3>2, WorkServed
    <3> QED
      BY <3>3
  <2> HIDE DEF stale
  <2> QED
    BY <2>1
<1>2. /\ own \in SUBSET WorkRecord
      /\ \A w \in own : w.from = t /\ w.id \in Waiting(t) /\ w.term = h
  BY WorkServed DEF Waiting
<1>3. WorkUnder(t, l, h) = (IF l = leader[t] THEN work[t] ELSE stale) \cup (IF l = t THEN own ELSE {})
  BY DEF WorkUnder
<1> HIDE DEF stale, own
<1> QED
  BY <1>1, <1>2, <1>3

\* What HostLeads says of the hosts.
LeadersKnown ==
  \A u \in Tabs :
    /\ host[u] # 0 => leader[u] = u
    /\ leader[u] = u => host[u] = info[u]
    /\ leader[u] # Nobody => info[u] # 0 /\ Listens(u)

\* A new leader l with info i at t, which has host h from then on.
LEMMA LeaderSet ==
  ASSUME BridgeTypeOK, HostLeads, NoStrandedCall, AnsweredByItsLeader,
         NEW t \in Tabs, NEW l \in Tabs \cup {Nobody}, NEW i \in 0..MaxTerms, NEW h \in 0..MaxTerms,
         SetLeader(t, l, i, h), Listens(t), alive' = alive, closed' = closed,
         l # Nobody => i # 0, h # 0 => l = t, l = t => h = i, l = leader[t] => h = host[t]
  PROVE  /\ host' \in [Tabs -> 0..MaxTerms]
         /\ leader' \in [Tabs -> Tabs \cup {Nobody}]
         /\ info' \in [Tabs -> 0..MaxTerms]
         /\ calls' \in [Tabs -> [Calls -> CallRecord]]
         /\ work' \in [Tabs -> SUBSET WorkRecord]
         /\ executed' \in [Tabs -> [Calls -> Nat]]
         /\ LeadersKnown' /\ NoStrandedCall'
         /\ \A u \in Tabs, id \in Calls : Pending(u, id)' => Pending(u, id)
         /\ \A u \in Tabs, id \in Calls :
              \/ executed'[u][id] = executed[u][id]
              \/ executed'[u][id] = executed[u][id] + 1 /\ Begins(u, id)
         /\ \A r \in Tabs : \A w \in work'[r] :
              \/ \E v \in work[r] : v.from = w.from /\ v.id = w.id
              \/ Begins(w.from, w.id)
         /\ \A u \in Tabs : u # t =>
              host'[u] = host[u] /\ leader'[u] = leader[u] /\ info'[u] = info[u]
         /\ host'[t] = h /\ leader'[t] = l /\ info'[t] = i
         /\ \A u \in Tabs, id \in Calls : calls'[u][id].st = "sent" =>
              \/ /\ calls'[u][id] = calls[u][id] /\ (u = t => calls[u][id].to = l)
                 /\ calls[u][id].to = u => host'[u] = host[u]
              \/ /\ Begins(u, id) /\ leader'[u] # Nobody
                 /\ calls'[u][id].to = leader'[u] /\ calls'[u][id].info = info'[u]
         /\ \A u \in Tabs, id \in Calls : calls'[u][id].st = "ok" =>
              calls'[u][id].by = calls'[u][id].info
         /\ \A r \in Tabs : \A w \in work'[r] : w.fresh /\ w.term # 0 =>
              \/ w \in work[r] /\ host'[r] = host[r]
              \/ w.term = host'[r]
         /\ l \notin {t, Nobody} => \A id \in Waiting(t) :
              Begins(t, id) /\ executed'[t][id] = executed[t][id]
<1>1. /\ host \in [Tabs -> 0..MaxTerms] /\ leader \in [Tabs -> Tabs \cup {Nobody}]
      /\ info \in [Tabs -> 0..MaxTerms] /\ calls \in [Tabs -> [Calls -> CallRecord]]
      /\ work \in [Tabs -> SUBSET WorkRecord] /\ executed \in [Tabs -> [Calls -> Nat]]
      /\ alive \subseteq Tabs
  BY BridgeTypes
<1>2. /\ host' = [host EXCEPT ![t] = h] /\ leader' = [leader EXCEPT ![t] = l]
      /\ info' = [info EXCEPT ![t] = i]
  BY DEF SetLeader
<1>3. /\ host' \in [Tabs -> 0..MaxTerms] /\ leader' \in [Tabs -> Tabs \cup {Nobody}]
      /\ info' \in [Tabs -> 0..MaxTerms]
      /\ host'[t] = h /\ leader'[t] = l /\ info'[t] = i
      /\ \A u \in Tabs : u # t =>
           host'[u] = host[u] /\ leader'[u] = leader[u] /\ info'[u] = info[u]
  BY <1>1, <1>2
<1>4. LeadersKnown'
  <2>1. ASSUME NEW u \in Tabs
        PROVE  /\ host[u] # 0 => leader[u] = u
               /\ leader[u] = u => host[u] = info[u]
               /\ leader[u] # Nobody => info[u] # 0 /\ Listens(u)
    BY DEF HostLeads
  <2>2. ASSUME NEW u \in Tabs
        PROVE  Listens(u)' <=> Listens(u)
    BY DEF Listens
  <2>3. ASSUME NEW u \in Tabs
        PROVE  /\ host'[u] # 0 => leader'[u] = u
               /\ leader'[u] = u => host'[u] = info'[u]
               /\ leader'[u] # Nobody => info'[u] # 0 /\ Listens(u)'
    <3>1. CASE u = t
      BY <1>3, <2>2, <3>1
    <3>2. CASE u # t
      BY <1>3, <2>1, <2>2, <3>2
    <3> QED
      BY <3>1, <3>2
  <2> QED
    BY <2>3 DEF LeadersKnown
<1> DEFINE new == CallsUnder(t, l, i)
           serves == WorkUnder(t, l, h)
           runs == RunsUnder(t, l, h)
<1>5. ASSUME NEW id \in Calls
      PROVE  /\ new[id] \in CallRecord
             /\ calls[t][id].st = "sent" /\ l # leader[t] => new[id].st = "changed"
             /\ calls[t][id].st = "queued" /\ l # Nobody =>
                  new[id].st = "sent" /\ new[id].to = l /\ new[id].info = i
             /\ \/ calls[t][id].st = "sent" /\ l # leader[t]
                \/ calls[t][id].st = "queued" /\ l # Nobody
                \/ new[id] = calls[t][id]
  BY <1>1, CallUnder
<1>6. new \in [Calls -> CallRecord]
  <2>1. new = [id \in Calls |-> new[id]]
    BY DEF CallsUnder
  <2> HIDE DEF new
  <2> QED
    BY <1>5, <2>1
<1>7. calls' = [calls EXCEPT ![t] = new]
  BY DEF SetLeader
<1> HIDE DEF new
<1>8. /\ calls' \in [Tabs -> [Calls -> CallRecord]]
      /\ calls'[t] = new /\ \A u \in Tabs : u # t => calls'[u] = calls[u]
  BY <1>1, <1>6, <1>7
<1>9. /\ serves \in SUBSET WorkRecord
      /\ \A w \in serves :
           \/ l = leader[t] /\ w \in work[t]
           \/ ~w.fresh /\ \E v \in work[t] : v.from = w.from /\ v.id = w.id
           \/ l = t /\ w.from = t /\ w.id \in Waiting(t) /\ w.term = h
  BY <1>1, WorkUnderFacts
<1>10. work' = [work EXCEPT ![t] = serves]
  BY DEF SetLeader
<1> HIDE DEF serves
<1>11. /\ work' \in [Tabs -> SUBSET WorkRecord]
       /\ work'[t] = serves /\ \A u \in Tabs : u # t => work'[u] = work[u]
  BY <1>1, <1>9, <1>10
<1>12. /\ runs \in [Calls -> Nat]
       /\ \A id \in Calls :
            runs[id] = IF l = t /\ h # 0 /\ id \in Waiting(t) THEN executed[t][id] + 1 ELSE executed[t][id]
  <2>1. \A id \in Calls : executed[t][id] \in Nat
    BY <1>1
  <2> QED
    BY <2>1 DEF RunsUnder
<1>13. executed' = [executed EXCEPT ![t] = runs]
  BY DEF SetLeader
<1> HIDE DEF runs
<1>14. /\ executed' \in [Tabs -> [Calls -> Nat]]
       /\ executed'[t] = runs /\ \A u \in Tabs : u # t => executed'[u] = executed[u]
  BY <1>1, <1>12, <1>13
<1>15. ASSUME NEW id \in Waiting(t), l # Nobody
       PROVE  Begins(t, id)
  <2>1. id \in Calls /\ calls[t][id].st = "queued"
    BY <1>15 DEF Waiting
  <2>2. calls'[t][id].st = "sent"
    BY <1>5, <1>8, <1>15, <2>1
  <2> QED
    BY <2>1, <2>2 DEF Begins, Pending, Listens
<1>16. \A u \in Tabs, id \in Calls : Pending(u, id)' => Pending(u, id)
  BY <1>5, <1>8 DEF Pending
<1>17. NoStrandedCall'
  <2> SUFFICES ASSUME NEW u \in Tabs, NEW id \in Calls
               PROVE  /\ calls'[u][id].st = "queued" => leader'[u] = Nobody /\ Listens(u)'
                      /\ calls'[u][id].st = "sent" => leader'[u] = calls'[u][id].to /\ Listens(u)'
    BY DEF NoStrandedCall
  <2>1. /\ calls[u][id].st = "queued" => leader[u] = Nobody /\ Listens(u)
        /\ calls[u][id].st = "sent" => leader[u] = calls[u][id].to /\ Listens(u)
    BY DEF NoStrandedCall
  <2>2. Listens(u)' <=> Listens(u)
    BY DEF Listens
  <2>3. CASE u # t
    BY <1>3, <1>8, <2>1, <2>2, <2>3
  <2>4. CASE u = t
    BY <1>3, <1>5, <1>8, <2>1, <2>2, <2>4
  <2> QED
    BY <2>3, <2>4
<1>18. ASSUME NEW u \in Tabs, NEW id \in Calls
       PROVE  \/ executed'[u][id] = executed[u][id]
              \/ executed'[u][id] = executed[u][id] + 1 /\ Begins(u, id)
  <2>1. CASE u = t /\ l = t /\ id \in Waiting(t)
    <3>1. Begins(u, id)
      BY <1>15, <2>1, TabsAssumption
    <3>2. executed'[u][id] = executed[u][id] \/ executed'[u][id] = executed[u][id] + 1
      BY <1>12, <1>14, <2>1
    <3> QED
      BY <3>1, <3>2
  <2>2. CASE ~(u = t /\ l = t /\ id \in Waiting(t))
    BY <1>12, <1>14, <2>2
  <2> QED
    BY <2>1, <2>2
<1>19. ASSUME NEW r \in Tabs, NEW w \in work'[r]
       PROVE  \/ \E v \in work[r] : v.from = w.from /\ v.id = w.id
              \/ Begins(w.from, w.id)
  <2>1. CASE r # t
    BY <1>11, <1>19, <2>1
  <2>2. CASE r = t /\ l = t /\ w.from = t /\ w.id \in Waiting(t)
    BY <1>15, <2>2, TabsAssumption
  <2>3. CASE r = t /\ ~(l = t /\ w.from = t /\ w.id \in Waiting(t))
    BY <1>9, <1>11, <1>19, <2>3
  <2> QED
    BY <2>1, <2>2, <2>3
<1>20. ASSUME NEW u \in Tabs, NEW id \in Calls, calls'[u][id].st = "sent"
       PROVE  \/ /\ calls'[u][id] = calls[u][id] /\ (u = t => calls[u][id].to = l)
                 /\ calls[u][id].to = u => host'[u] = host[u]
              \/ /\ Begins(u, id) /\ leader'[u] # Nobody
                 /\ calls'[u][id].to = leader'[u] /\ calls'[u][id].info = info'[u]
  <2>1. CASE u # t
    BY <1>3, <1>8, <2>1
  <2>2. CASE u = t /\ id \in Waiting(t) /\ l # Nobody
    <3>1. Begins(u, id)
      BY <1>15, <2>2
    <3>2. new[id].to = l /\ new[id].info = i
      BY <1>5, <2>2 DEF Waiting
    <3> QED
      BY <1>3, <1>8, <2>2, <3>1, <3>2
  <2>3. CASE u = t /\ ~(id \in Waiting(t) /\ l # Nobody)
    <3>1. calls[t][id].st # "queued" \/ l = Nobody
      BY <2>3 DEF Waiting
    <3>2. new[id].st = "sent"
      BY <1>8, <1>20, <2>3
    <3>3. new[id] = calls[t][id] /\ (calls[t][id].st = "sent" => l = leader[t])
      BY <1>5, <3>1, <3>2
    <3>4. calls[t][id].to = l /\ l = leader[t]
      BY <3>2, <3>3 DEF NoStrandedCall
    <3> QED
      BY <1>3, <1>8, <2>3, <3>3, <3>4
  <2> QED
    BY <2>1, <2>2, <2>3
<1>21. ASSUME NEW u \in Tabs, NEW id \in Calls, calls'[u][id].st = "ok"
       PROVE  calls'[u][id].by = calls'[u][id].info
  <2>1. calls'[u][id] = calls[u][id]
    BY <1>5, <1>8, <1>21
  <2> QED
    BY <1>21, <2>1 DEF AnsweredByItsLeader
<1>22. ASSUME NEW r \in Tabs, NEW w \in work'[r], w.fresh
       PROVE  \/ w \in work[r] /\ host'[r] = host[r]
              \/ w.term = host'[r]
  <2>1. CASE r # t
    BY <1>3, <1>11, <2>1
  <2>2. CASE r = t
    <3>1. (l = leader[t] /\ w \in work[t]) \/ w.term = h
      BY <1>9, <1>11, <1>22, <2>2
    <3> QED
      BY <1>3, <2>2, <3>1
  <2> QED
    BY <2>1, <2>2
<1>23. ASSUME l \notin {t, Nobody}, NEW id \in Waiting(t)
       PROVE  Begins(t, id) /\ executed'[t][id] = executed[t][id]
  <2>1. id \in Calls
    BY DEF Waiting
  <2>2. executed'[t][id] = executed[t][id]
    BY <1>12, <1>14, <1>23, <2>1
  <2> QED
    BY <1>15, <1>23, <2>2
<1> QED
  BY <1>3, <1>4, <1>8, <1>11, <1>14, <1>16, <1>17, <1>18, <1>19, <1>20, <1>21, <1>22, <1>23

\* Every step that is a TraceStep and a TermStep keeps the invariant.
LEMMA StepKeeps ==
  ASSUME BridgeTypeOK, BridgeInv, BridgeTypeOK', LeadersKnown', NoStrandedCall',
         NEW t \in Tabs, NEW n, NEW out \in Seq(Message),
         Flows(Message, t, n, out), TraceStep(t, n, out), TermStep(t, n, out)
  PROVE  BridgeInv'
<1>1. HostLeads'
  <2>1. ASSUME NEW r \in Tabs, NEW k \in DOMAIN inbox'[r]
        PROVE  inbox'[r][k].from # r
    <3>1. CASE WasAt(r, k, t, n) \in DOMAIN inbox[r] /\ inbox'[r][k] = inbox[r][WasAt(r, k, t, n)]
      BY <3>1 DEF BridgeInv, HostLeads
    <3>2. CASE k - Kept(r, t, n) \in DOMAIN out /\ inbox'[r][k] = out[k - Kept(r, t, n)] /\ r # t
      BY <3>2 DEF TermStep
    <3> QED
      BY <2>1, <3>1, <3>2 DEF Flows
  <2>2. \A r \in Tabs : ~Listens(r)' => inbox'[r] = <<>>
    BY DEF Flows
  <2> QED
    BY <2>1, <2>2 DEF HostLeads, LeadersKnown
<1>2. (WaitingLeftNoTrace /\ RequestIsFresh /\ RunsAtMostOnce)'
  BY TracesKept DEF BridgeInv
<1>3. (TermsEndWithBye /\ WorkIsOfTerm /\ AnswersAreOfTerm /\ AnsweredByItsLeader)'
  BY <1>1, TermsKept DEF BridgeInv
<1> QED
  BY <1>1, <1>2, <1>3 DEF BridgeInv

\* A step that changes no tab's leader: t posts announcements at most.
LEMMA KeepingStep ==
  ASSUME BridgeTypeOK, BridgeInv, KeepLeader, UNCHANGED <<alive, closed>>, terms' \in 0..MaxTerms,
         NEW t \in Tabs, NEW n, NEW out \in Seq(Message), Flows(Message, t, n, out),
         n # 0 => \A k \in 1..(n - 1) : inbox[t][k].from # inbox[t][n].from,
         n # 0 /\ inbox[t][n].k = "bye" => leader[t] # inbox[t][n].from,
         \A k \in DOMAIN out : /\ out[k].from = t /\ out[k].k \in {"hello", "leader", "bye"}
                               /\ out[k].k = "leader" => out[k].info = host[t]
  PROVE  BridgeTypeOK' /\ BridgeInv'
<1>1. /\ host' = host /\ leader' = leader /\ info' = info /\ calls' = calls /\ work' = work
      /\ executed' = executed /\ alive' = alive /\ closed' = closed
  BY DEF KeepLeader
<1>2. inbox' \in [Tabs -> Seq(Message)]
  BY DEF Flows
<1>3. BridgeTypeOK'
  BY <1>1, <1>2, BridgeTypes, BridgeTypesNext
<1>4. LeadersKnown' /\ NoStrandedCall'
  BY <1>1 DEF BridgeInv, HostLeads, LeadersKnown, NoStrandedCall, Listens
<1>5. TraceStep(t, n, out)
  <2>1. \A k \in DOMAIN out : out[k].k # "req" /\ out[k].k # "res"
    OBVIOUS
  <2> QED
    BY <1>1, <2>1 DEF TraceStep, Pending
<1>6. ASSUME NEW u \in Tabs, NEW id \in Calls, calls[u][id].st = "sent"
      PROVE  ~Byes(t, n, u, calls[u][id].to)
  BY <1>6 DEF Byes, BridgeInv, NoStrandedCall
<1>7. TermStep(t, n, out)
  <2>1. \A r \in Tabs : Listens(r)' => Listens(r)
    BY <1>1 DEF Listens
  <2>2. \A u \in Tabs : ~Byes(t, n, u, leader[u])
    BY DEF Byes
  <2>3. \A k \in DOMAIN out : out[k].k # "res"
    OBVIOUS
  <2>4. \A u \in Tabs, id \in Calls : calls[u][id].st = "ok" => calls[u][id].by = calls[u][id].info
    BY DEF BridgeInv, AnsweredByItsLeader
  <2> QED
    BY <1>1, <1>6, <2>1, <2>2, <2>3, <2>4 DEF TermStep
<1> QED
  BY <1>3, <1>4, <1>5, <1>7, StepKeeps

\* A step in which t, and only t, has a new leader.
LEMMA LeadingStep ==
  ASSUME BridgeTypeOK, BridgeInv, UNCHANGED <<alive, closed>>, terms' \in 0..MaxTerms,
         NEW t \in Tabs, NEW l \in Tabs \cup {Nobody}, NEW i \in 0..MaxTerms, NEW h \in 0..MaxTerms,
         SetLeader(t, l, i, h), Listens(t),
         l # Nobody => i # 0, h # 0 => l = t, l = t => h = i, l = leader[t] => h = host[t],
         NEW n, NEW out \in Seq(Message), Flows(Message, t, n, out),
         n # 0 => \A k \in 1..(n - 1) : inbox[t][k].from # inbox[t][n].from,
         n # 0 /\ inbox[t][n].k = "bye" => l = Nobody,
         l \notin {t, Nobody} =>
           n # 0 /\ inbox[t][n].k = "leader" /\ inbox[t][n].from = l /\ inbox[t][n].info = i,
         \/ h = host[t] \/ host[t] = 0
         \/ /\ out # <<>> /\ out[1].to = Nobody
            /\ \E k \in DOMAIN out : out[k].k = "bye",
         \A k \in DOMAIN out :
           /\ out[k].from = t /\ out[k].k # "res"
           /\ out[k].k = "leader" => out[k].info = h
           /\ out[k].k = "req" => l \notin {t, Nobody} /\ out[1].to = l /\ out[k].id \in Waiting(t),
         \A k, j \in DOMAIN out :
           out[k].k = "req" /\ out[j].k = "req" /\ out[k].id = out[j].id => k = j
  PROVE  BridgeTypeOK' /\ BridgeInv'
<1>1. /\ host' \in [Tabs -> 0..MaxTerms]
      /\ leader' \in [Tabs -> Tabs \cup {Nobody}]
      /\ info' \in [Tabs -> 0..MaxTerms]
      /\ calls' \in [Tabs -> [Calls -> CallRecord]]
      /\ work' \in [Tabs -> SUBSET WorkRecord]
      /\ executed' \in [Tabs -> [Calls -> Nat]]
      /\ LeadersKnown' /\ NoStrandedCall'
  BY LeaderSet DEF BridgeInv
<1>2. /\ \A u \in Tabs, id \in Calls : Pending(u, id)' => Pending(u, id)
      /\ \A u \in Tabs, id \in Calls :
           \/ executed'[u][id] = executed[u][id]
           \/ executed'[u][id] = executed[u][id] + 1 /\ Begins(u, id)
      /\ \A r \in Tabs : \A w \in work'[r] :
           \/ \E v \in work[r] : v.from = w.from /\ v.id = w.id
           \/ Begins(w.from, w.id)
      /\ l \notin {t, Nobody} => \A id \in Waiting(t) :
           Begins(t, id) /\ executed'[t][id] = executed[t][id]
  BY LeaderSet DEF BridgeInv
<1>3. /\ HostLeads /\ NoStrandedCall /\ AnsweredByItsLeader
      /\ alive' = alive /\ closed' = closed
  BY DEF BridgeInv
<1>7. /\ \A u \in Tabs : u # t =>
           host'[u] = host[u] /\ leader'[u] = leader[u] /\ info'[u] = info[u]
      /\ host'[t] = h /\ leader'[t] = l /\ info'[t] = i
  BY <1>3, LeaderSet
<1>8. \A u \in Tabs, id \in Calls : calls'[u][id].st = "sent" =>
        \/ /\ calls'[u][id] = calls[u][id] /\ (u = t => calls[u][id].to = l)
           /\ calls[u][id].to = u => host'[u] = host[u]
        \/ /\ Begins(u, id) /\ leader'[u] # Nobody
           /\ calls'[u][id].to = leader'[u] /\ calls'[u][id].info = info'[u]
  BY <1>3, LeaderSet
<1>9. \A u \in Tabs, id \in Calls : calls'[u][id].st = "ok" =>
        calls'[u][id].by = calls'[u][id].info
  BY <1>3, LeaderSet
<1>10. \A r \in Tabs : \A w \in work'[r] : w.fresh /\ w.term # 0 =>
         \/ w \in work[r] /\ host'[r] = host[r]
         \/ w.term = host'[r]
  BY <1>3, LeaderSet
<1>4. BridgeTypeOK'
  <2>1. inbox' \in [Tabs -> Seq(Message)]
    BY DEF Flows
  <2>2. alive \subseteq Tabs /\ closed \in [Tabs -> BOOLEAN] /\ terms' \in 0..MaxTerms
    BY DEF BridgeTypeOK
  <2> QED
    BY <1>1, <2>1, <2>2, BridgeTypesNext
<1>5. TraceStep(t, n, out)
  <2>1. ASSUME NEW k \in DOMAIN out, out[k].k = "req"
        PROVE  /\ Begins(out[k].from, out[k].id) /\ out[1].to # Nobody
               /\ executed'[out[k].from][out[k].id] = executed[out[k].from][out[k].id]
    <3>1. l \notin {t, Nobody} /\ out[1].to = l /\ out[k].id \in Waiting(t) /\ out[k].from = t
      BY <2>1
    <3>2. Begins(t, out[k].id) /\ executed'[t][out[k].id] = executed[t][out[k].id]
      BY <1>2, <3>1
    <3> QED
      BY <3>1, <3>2
  <2>2. \A k \in DOMAIN out : out[k].k # "res"
    OBVIOUS
  <2>3. alive' \subseteq alive /\ \A u \in alive' : u \in Tabs
    BY DEF BridgeTypeOK
  <2> QED
    BY <1>2, <2>1, <2>2, <2>3 DEF TraceStep
<1>6. TermStep(t, n, out)
  <2>1. \A r \in Tabs : Listens(r)' => Listens(r)
    BY DEF Listens
  <2>2. ASSUME NEW u \in Tabs, leader'[u] \notin {u, Nobody}
        PROVE  \/ leader'[u] = leader[u] /\ info'[u] = info[u] /\ ~Byes(t, n, u, leader[u])
               \/ /\ u = t /\ n # 0 /\ inbox[t][n].k = "leader"
                  /\ leader'[u] = inbox[t][n].from /\ info'[u] = inbox[t][n].info
    BY <1>7, <2>2 DEF Byes
  <2>3. ASSUME NEW u \in Tabs, NEW id \in Calls, calls'[u][id].st = "sent"
        PROVE  \/ /\ calls'[u][id] = calls[u][id] /\ ~Byes(t, n, u, calls[u][id].to)
                  /\ calls[u][id].to = u => host'[u] = host[u]
               \/ /\ Begins(u, id) /\ leader'[u] # Nobody
                  /\ calls'[u][id].to = leader'[u] /\ calls'[u][id].info = info'[u]
    <3>1. CASE Begins(u, id) /\ leader'[u] # Nobody
               /\ calls'[u][id].to = leader'[u] /\ calls'[u][id].info = info'[u]
      BY <3>1
    <3>2. CASE /\ calls'[u][id] = calls[u][id] /\ (u = t => calls[u][id].to = l)
               /\ calls[u][id].to = u => host'[u] = host[u]
      <4>1. ASSUME Byes(t, n, u, calls[u][id].to) PROVE FALSE
        <5>1. u = t /\ inbox[t][n].from = Nobody /\ n # 0
          BY <3>2, <4>1 DEF Byes
        <5>2. n \in DOMAIN inbox[t] /\ inbox[t] \in Seq(Message)
          BY <5>1 DEF Flows, BridgeTypeOK
        <5>3. inbox[t][n].from \in Tabs
          BY <5>2, MessagesRead
        <5> QED
          BY <5>1, <5>3, TabsAssumption
      <4> QED
        BY <3>2, <4>1
    <3> QED
      BY <1>8, <2>3, <3>1, <3>2
  <2>4. \A k \in DOMAIN out : out[k].k # "res" /\ out[k].from = t
    OBVIOUS
  <2>5. \A k \in DOMAIN out : out[k].k = "leader" => out[k].info = host'[t]
    BY <1>7
  <2>6. \A u \in Tabs :
          \/ host'[u] = host[u] \/ host[u] = 0 \/ u \notin alive'
          \/ /\ u = t /\ Listens(t) /\ out # <<>> /\ out[1].to = Nobody
             /\ \E k \in DOMAIN out : out[k].k = "bye"
    BY <1>7
  <2> QED
    BY <1>3, <1>9, <1>10, <2>1, <2>2, <2>3, <2>4, <2>5, <2>6 DEF TermStep
<1> QED
  BY <1>1, <1>4, <1>5, <1>6, StepKeeps

-----------------------------------------------------------------------------
(* The actions.                                                            *)

\* A step that takes a message and posts some is one of the channel.
LEMMA Taken ==
  ASSUME BridgeTypeOK, HostLeads, UNCHANGED <<alive, closed>>, NEW t \in Tabs,
         NEW n \in 1..Len(inbox[t]), NEW out \in Seq(Message), TakeAndPost(t, n, out)
  PROVE  Flows(Message, t, n, out)
<1>1. inbox \in [Tabs -> Seq(Message)] /\ n \in 0..Len(inbox[t]) /\ n # 0
  BY DEF BridgeTypeOK
<1>2. \A r \in Tabs : Listens(r)' <=> Listens(r)
  BY DEF Listens
<1>3. inbox' = Post([inbox EXCEPT ![t] = Without(@, n)], t, out)
  BY DEF TakeAndPost
<1> QED
  BY <1>1, <1>2, <1>3, Flow

\* So is a step that only posts.
LEMMA Sent ==
  ASSUME BridgeTypeOK, HostLeads, UNCHANGED <<alive, closed>>, NEW t \in Tabs,
         NEW out \in Seq(Message), inbox' = Post(inbox, t, out)
  PROVE  Flows(Message, t, 0, out)
<1>1. inbox \in [Tabs -> Seq(Message)] /\ 0 \in 0..Len(inbox[t])
  BY DEF BridgeTypeOK
<1>2. \A r \in Tabs : Listens(r)' <=> Listens(r)
  BY DEF Listens
<1> QED
  BY <1>1, <1>2, Flow

\* Nothing is posted.
LEMMA Nothing == <<>> \in Seq(Message) /\ DOMAIN <<>> = {}
OBVIOUS

\* One message is posted.
LEMMA OneMessage ==
  ASSUME NEW m \in Message
  PROVE  /\ <<m>> \in Seq(Message) /\ <<m>> # <<>>
         /\ \A k \in DOMAIN <<m>> : k = 1 /\ <<m>>[k] = m
         /\ <<m>>[1] = m /\ 1 \in DOMAIN <<m>>
OBVIOUS

\* The message that is read is the first of its sender.
LEMMA ReadsFirst ==
  ASSUME BridgeTypeOK, NEW t \in Tabs, NEW n \in 1..Len(inbox[t]), NEW kind, Reads(t, n, kind)
  PROVE  /\ Listens(t) /\ inbox[t][n] \in Message
         /\ inbox[t][n].k = kind /\ inbox[t][n].from # t
         /\ \A k \in 1..(n - 1) : inbox[t][k].from # inbox[t][n].from
<1>1. inbox[t] \in Seq(Message)
  BY DEF BridgeTypeOK
<1>2. inbox[t][n] \in Message
  BY <1>1
<1> QED
  BY <1>2 DEF Reads, Readable

\* becomeLeader: the first host there is, announced with the new term.
LEMMA LeadKeeps ==
  ASSUME BridgeTypeOK, BridgeInv, NEW t \in Tabs, Lead(t)
  PROVE  BridgeTypeOK' /\ BridgeInv'
<1> DEFINE new == terms + 1
           out == <<Leader(t, new)>>
<1>1. /\ Listens(t) /\ host[t] = 0 /\ UNCHANGED <<alive, closed>>
      /\ terms' = new /\ SetLeader(t, t, new, new) /\ inbox' = Post(inbox, t, out)
  BY DEF Lead, NoHost, BecomeLeader
<1>2. new \in Terms /\ new \in 0..MaxTerms /\ new # 0
  BY BridgeAssumption DEF Lead, BecomeLeader, BridgeTypeOK, Terms
<1>3. Leader(t, new) \in Message
  BY <1>2, MessagesMade
<1> HIDE DEF new
<1>4. /\ out \in Seq(Message)
      /\ \A k \in DOMAIN out : out[k] = Leader(t, new) /\ k = 1
  BY <1>3, OneMessage
<1> HIDE DEF out
<1>5. Flows(Message, t, 0, out)
  BY <1>1, <1>4, Sent DEF BridgeInv
<1>6. \A k \in DOMAIN out : out[k].from = t /\ out[k].k = "leader" /\ out[k].info = new
  BY <1>4 DEF Leader
<1>7. leader[t] # t
  BY <1>1, TabsAssumption DEF BridgeInv, HostLeads
<1>8. \A k \in DOMAIN out :
        /\ out[k].from = t /\ out[k].k # "res" /\ out[k].k # "req"
        /\ out[k].k = "leader" => out[k].info = new
  BY <1>6
<1> QED
  BY <1>1, <1>2, <1>4, <1>5, <1>7, <1>8, LeadingStep

\* t knows no leader and has no host from then on, and says bye.
LEMMA LeavingKeeps ==
  ASSUME BridgeTypeOK, BridgeInv, NEW t \in Tabs, Listens(t), UNCHANGED <<alive, closed, terms>>,
         SetLeader(t, Nobody, 0, 0), inbox' = Post(inbox, t, <<Bye(t)>>)
  PROVE  BridgeTypeOK' /\ BridgeInv'
<1> DEFINE out == <<Bye(t)>>
<1>1. /\ out \in Seq(Message) /\ out # <<>> /\ out[1] = Bye(t) /\ 1 \in DOMAIN out
      /\ \A k \in DOMAIN out : out[k] = Bye(t) /\ k = 1
  <2>1. Bye(t) \in Message
    BY MessagesMade
  <2> QED
    BY <2>1, OneMessage
<1> HIDE DEF out
<1>2. Flows(Message, t, 0, out)
  BY <1>1, Sent DEF BridgeInv, out
<1>3. /\ \A k \in DOMAIN out : out[k].from = t /\ out[k].k = "bye"
      /\ out[1].to = Nobody /\ out[1].k = "bye"
  BY <1>1 DEF Bye
<1>4. terms' \in 0..MaxTerms /\ 0 \in 0..MaxTerms
  BY BridgeAssumption DEF BridgeTypeOK
<1>5. Nobody = leader[t] => 0 = host[t]
  BY TabsAssumption DEF BridgeInv, HostLeads, BridgeTypeOK
<1>6. \A k \in DOMAIN out :
        out[k].from = t /\ out[k].k # "res" /\ out[k].k # "req" /\ out[k].k # "leader"
  BY <1>3
<1>7. out # <<>> /\ out[1].to = Nobody /\ \E k \in DOMAIN out : out[k].k = "bye"
  BY <1>1, <1>3
<1> QED
  BY <1>1, <1>2, <1>4, <1>5, <1>6, <1>7, LeadingStep, TabsAssumption

\* stepDown of a host, which leads.
LEMMA GiveUpKeeps ==
  ASSUME BridgeTypeOK, BridgeInv, NEW t \in Tabs, GiveUp(t)
  PROVE  BridgeTypeOK' /\ BridgeInv'
<1>1. leader[t] = t
  BY DEF GiveUp, BridgeInv, HostLeads
<1>2. /\ Listens(t) /\ UNCHANGED <<alive, closed, terms>>
      /\ SetLeader(t, Nobody, 0, 0) /\ inbox' = Post(inbox, t, <<Bye(t)>>)
  BY <1>1 DEF GiveUp, StepDown
<1> QED
  BY <1>2, LeavingKeeps

\* leave, by a host or a follower.
LEMMA GoAwayKeeps ==
  ASSUME BridgeTypeOK, BridgeInv, NEW t \in Tabs, GoAway(t)
  PROVE  BridgeTypeOK' /\ BridgeInv'
BY LeavingKeeps DEF GoAway, Leave

\* hello.
LEMMA AskKeeps ==
  ASSUME BridgeTypeOK, BridgeInv, NEW t \in Tabs, Ask(t)
  PROVE  BridgeTypeOK' /\ BridgeInv'
<1> DEFINE out == <<Hello(t)>>
<1>1. KeepLeader /\ UNCHANGED <<alive, closed>> /\ terms' = terms /\ inbox' = Post(inbox, t, out)
  BY DEF Ask, SayHello
<1>2. out \in Seq(Message) /\ \A k \in DOMAIN out : out[k] = Hello(t)
  <2>1. Hello(t) \in Message
    BY MessagesMade
  <2> QED
    BY <2>1, OneMessage
<1> HIDE DEF out
<1>3. Flows(Message, t, 0, out)
  BY <1>1, <1>2, Sent DEF BridgeInv
<1>4. \A k \in DOMAIN out : out[k].from = t /\ out[k].k = "hello"
  BY <1>2 DEF Hello
<1>5. terms' \in 0..MaxTerms
  BY <1>1 DEF BridgeTypeOK
<1> QED
  BY <1>1, <1>2, <1>3, <1>4, <1>5, KeepingStep

\* The answer to a hello announces the term of the host.
LEMMA HelloKeeps ==
  ASSUME BridgeTypeOK, BridgeInv, NEW t \in Tabs, NEW n \in 1..Len(inbox[t]), ReceiveHello(t, n)
  PROVE  BridgeTypeOK' /\ BridgeInv'
<1> DEFINE out == IF host[t] # 0 /\ leader[t] # Nobody THEN <<Leader(t, info[t])>> ELSE <<>>
<1>1. KeepLeader /\ UNCHANGED <<alive, closed>> /\ terms' = terms /\ TakeAndPost(t, n, out)
  BY DEF ReceiveHello
<1>2. /\ inbox[t][n].k = "hello" /\ \A k \in 1..(n - 1) : inbox[t][k].from # inbox[t][n].from
  BY ReadsFirst DEF ReceiveHello
<1>3. out \in Seq(Message) /\ \A k \in DOMAIN out : out[k] = Leader(t, host[t])
  <2>1. CASE host[t] # 0 /\ leader[t] # Nobody
    <3>1. info[t] = host[t] /\ info[t] \in Terms
      <4>1. info[t] = host[t]
        BY <2>1 DEF BridgeInv, HostLeads
      <4>2. host[t] \in 0..MaxTerms
        BY DEF BridgeTypeOK
      <4> QED
        BY <2>1, <4>1, <4>2, BridgeAssumption DEF Terms
    <3>2. Leader(t, host[t]) \in Message /\ out = <<Leader(t, host[t])>>
      BY <2>1, <3>1, MessagesMade
    <3> HIDE DEF out
    <3> QED
      BY <3>2, OneMessage
  <2>2. CASE ~(host[t] # 0 /\ leader[t] # Nobody)
    <3>1. out = <<>>
      BY <2>2
    <3> HIDE DEF out
    <3> QED
      BY <3>1, Nothing
  <2> QED
    BY <2>1, <2>2
<1> HIDE DEF out
<1>4. Flows(Message, t, n, out)
  BY <1>1, <1>3, Taken DEF BridgeInv
<1>5. \A k \in DOMAIN out : out[k].from = t /\ out[k].k = "leader" /\ out[k].info = host[t]
  BY <1>3 DEF Leader
<1>6. terms' \in 0..MaxTerms
  BY <1>1 DEF BridgeTypeOK
<1>7. ~(n # 0 /\ inbox[t][n].k = "bye")
  BY <1>2
<1> QED
  BY <1>1, <1>2, <1>3, <1>4, <1>5, <1>6, <1>7, KeepingStep

\* An announcement: a host ignores it, any other tab follows and dispatches.
LEMMA LeaderKeeps ==
  ASSUME BridgeTypeOK, BridgeInv, NEW t \in Tabs, NEW n \in 1..Len(inbox[t]),
         ReceiveLeader(t, n, <<>>)
  PROVE  BridgeTypeOK' /\ BridgeInv'
<1> DEFINE m == inbox[t][n]
<1>1. /\ Listens(t) /\ m \in Message /\ m.k = "leader" /\ m.from # t
      /\ \A k \in 1..(n - 1) : inbox[t][k].from # m.from
  BY ReadsFirst DEF ReceiveLeader
<1>2. m.from \in Tabs /\ m.info \in Terms
  BY <1>1, MessagesRead
<1>3. UNCHANGED <<alive, closed>> /\ terms' \in 0..MaxTerms /\ n # 0
  BY DEF ReceiveLeader, BridgeTypeOK
<1>4. \/ TakeAndPost(t, n, <<>>) /\ KeepLeader
      \/ /\ host[t] = 0 /\ SetLeader(t, m.from, m.info, 0)
         /\ TakeAndPost(t, n, Dispatched(t, m.from) \o <<>>)
  BY DEF ReceiveLeader
<1> HIDE DEF m
<1>5. CASE TakeAndPost(t, n, <<>>) /\ KeepLeader
  <2>1. Flows(Message, t, n, <<>>)
    BY <1>3, <1>5, Taken, Nothing DEF BridgeInv
  <2>2. ~(n # 0 /\ inbox[t][n].k = "bye")
    BY <1>1 DEF m
  <2>3. \A k \in DOMAIN <<>> : FALSE
    BY Nothing
  <2>4. \A k \in 1..(n - 1) : inbox[t][k].from # inbox[t][n].from
    BY <1>1 DEF m
  <2> QED
    BY <1>3, <1>5, <2>1, <2>2, <2>3, <2>4, Nothing, KeepingStep
<1>6. CASE /\ host[t] = 0 /\ SetLeader(t, m.from, m.info, 0)
           /\ TakeAndPost(t, n, Dispatched(t, m.from) \o <<>>)
  <2> DEFINE out == Dispatched(t, m.from)
             l == m.from
             i == m.info
  <2>1. /\ out \in Seq(Message)
        /\ \A k \in DOMAIN out : \E id \in Waiting(t) : out[k] = Req(t, l, id)
        /\ \A k, j \in DOMAIN out : out[k].id = out[j].id => k = j
    BY <1>2, DispatchedAsks
  <2> HIDE DEF out
  <2>2. TakeAndPost(t, n, out)
    <3>1. out \o <<>> = out
      BY <2>1
    <3> QED
      BY <1>6, <3>1 DEF out
  <2>3. Flows(Message, t, n, out)
    BY <1>3, <2>1, <2>2, Taken DEF BridgeInv
  <2>4. ASSUME NEW k \in DOMAIN out
        PROVE  out[k].from = t /\ out[k].k = "req" /\ out[k].to = l /\ out[k].id \in Waiting(t)
    BY <2>1 DEF Req
  <2>5. \A k \in DOMAIN out : out[1].to = l
    <3>1. \A k \in DOMAIN out : 1 \in DOMAIN out
      BY <2>1
    <3> QED
      BY <2>4, <3>1
  <2>6. l \in Tabs \cup {Nobody} /\ l \notin {t, Nobody} /\ i \in 0..MaxTerms /\ i # 0 /\ 0 \in 0..MaxTerms
    BY <1>1, <1>2, TabsAssumption, BridgeAssumption DEF Terms
  <2>7. /\ n # 0 /\ inbox[t][n].k = "leader" /\ inbox[t][n].from = l /\ inbox[t][n].info = i
        /\ \A k \in 1..(n - 1) : inbox[t][k].from # inbox[t][n].from
    BY <1>1, <1>3 DEF m
  <2>8. SetLeader(t, l, i, 0) /\ host[t] = 0
    BY <1>6
  <2> HIDE DEF l, i
  <2>9. \A k \in DOMAIN out :
          /\ out[k].from = t /\ out[k].k # "res" /\ out[k].k # "leader"
          /\ out[k].k = "req" => l \notin {t, Nobody} /\ out[1].to = l /\ out[k].id \in Waiting(t)
    BY <2>4, <2>5, <2>6
  <2>10. \A k, j \in DOMAIN out : out[k].k = "req" /\ out[j].k = "req" /\ out[k].id = out[j].id => k = j
    BY <2>1
  <2> DEFINE h == 0
  <2>11. /\ l # Nobody => i # 0
         /\ h \in 0..MaxTerms /\ h = host[t] /\ SetLeader(t, l, i, h)
         /\ h # 0 => l = t
         /\ l = t => h = i
         /\ n # 0 /\ inbox[t][n].k = "bye" => l = Nobody
         /\ \A k \in DOMAIN out :
              /\ out[k].from = t /\ out[k].k # "res"
              /\ out[k].k = "leader" => out[k].info = h
              /\ out[k].k = "req" => l \notin {t, Nobody} /\ out[1].to = l /\ out[k].id \in Waiting(t)
    BY <2>6, <2>7, <2>8, <2>9
  <2>12. /\ BridgeTypeOK /\ BridgeInv /\ UNCHANGED <<alive, closed>> /\ terms' \in 0..MaxTerms
         /\ Listens(t) /\ out \in Seq(Message)
    BY <1>1, <1>3, <2>1
  <2> HIDE DEF h
  <2> QED
    BY <2>3, <2>6, <2>7, <2>10, <2>11, <2>12, LeadingStep
<1> QED
  BY <1>4, <1>5, <1>6

\* A bye: the leader goes, with its calls, or nothing changes.
LEMMA ByeKeeps ==
  ASSUME BridgeTypeOK, BridgeInv, NEW t \in Tabs, NEW n \in 1..Len(inbox[t]), ReceiveBye(t, n)
  PROVE  BridgeTypeOK' /\ BridgeInv'
<1>1. /\ Listens(t) /\ inbox[t][n] \in Message /\ inbox[t][n].k = "bye" /\ inbox[t][n].from # t
      /\ \A k \in 1..(n - 1) : inbox[t][k].from # inbox[t][n].from
  BY ReadsFirst DEF ReceiveBye
<1>2. UNCHANGED <<alive, closed>> /\ terms' \in 0..MaxTerms /\ n # 0
  BY DEF ReceiveBye, BridgeTypeOK
<1>3. TakeAndPost(t, n, <<>>)
  BY DEF ReceiveBye
<1>4. Flows(Message, t, n, <<>>)
  BY <1>2, <1>3, Taken, Nothing DEF BridgeInv
<1>5. \A k \in DOMAIN <<>> : FALSE
  BY Nothing
<1>6. CASE leader[t] # inbox[t][n].from
  <2>1. KeepLeader
    BY <1>6 DEF ReceiveBye
  <2> QED
    BY <1>1, <1>2, <1>4, <1>5, <1>6, <2>1, Nothing, KeepingStep
<1>7. CASE leader[t] = inbox[t][n].from
  <2>1. host[t] = 0
    BY <1>1, <1>7 DEF BridgeInv, HostLeads
  <2>2. SetLeader(t, Nobody, 0, 0)
    BY <1>7, <2>1 DEF ReceiveBye
  <2>3. 0 \in 0..MaxTerms
    BY BridgeAssumption
  <2> QED
    BY <1>1, <1>2, <1>4, <1>5, <2>1, <2>2, <2>3, Nothing, LeadingStep, TabsAssumption
<1> QED
  BY <1>6, <1>7

\* A request is served for the term of the host that has taken it.
LEMMA ReqKeeps ==
  ASSUME BridgeTypeOK, BridgeInv, NEW t \in Tabs, NEW n \in 1..Len(inbox[t]), ReceiveReq(t, n)
  PROVE  BridgeTypeOK' /\ BridgeInv'
<1> DEFINE u == inbox[t][n].from
           id == inbox[t][n].id
           w == Serving(u, id, host[t])
<1>1. /\ inbox[t][n] \in Message /\ inbox[t][n].k = "req"
      /\ \A k \in 1..(n - 1) : inbox[t][k].from # inbox[t][n].from
  BY ReadsFirst DEF ReceiveReq
<1>2. u \in Tabs /\ id \in Calls
  BY <1>1, MessagesRead
<1>3. /\ host' = host /\ leader' = leader /\ info' = info /\ calls' = calls
      /\ alive' = alive /\ closed' = closed /\ terms' = terms /\ TakeAndPost(t, n, <<>>)
  BY DEF ReceiveReq
<1>4. /\ work' = [work EXCEPT ![t] = @ \cup {w}]
      /\ executed' = IF host[t] = 0 THEN executed ELSE [executed EXCEPT ![u][id] = @ + 1]
  BY DEF ReceiveReq
<1>5. Takes(t, n, u, id)
  BY <1>1 DEF Takes, IsReq
<1> HIDE DEF u, id
<1>6. /\ work \in [Tabs -> SUBSET WorkRecord] /\ executed \in [Tabs -> [Calls -> Nat]]
      /\ host[t] \in 0..MaxTerms
  BY BridgeTypes
<1>7. w \in WorkRecord /\ w.from = u /\ w.id = id /\ w.term = host[t]
  BY <1>2, <1>6, WorkServed
<1> HIDE DEF w
<1>8. /\ work' \in [Tabs -> SUBSET WorkRecord]
      /\ \A r \in Tabs : \A v \in work'[r] : v \in work[r] \/ (r = t /\ v = w)
  BY <1>4, <1>6, <1>7
<1>9. /\ executed' \in [Tabs -> [Calls -> Nat]]
      /\ \A a \in Tabs, b \in Calls :
           \/ executed'[a][b] = executed[a][b]
           \/ executed'[a][b] = executed[a][b] + 1 /\ a = u /\ b = id
  <2>1. CASE host[t] = 0
    BY <1>4, <1>6, <2>1
  <2>2. CASE host[t] # 0
    <3>1. executed' = [executed EXCEPT ![u][id] = @ + 1]
      BY <1>4, <2>2
    <3> QED
      BY <1>2, <1>6, <3>1
  <2> QED
    BY <2>1, <2>2
<1>10. Flows(Message, t, n, <<>>)
  BY <1>3, Taken, Nothing DEF BridgeInv
<1>11. BridgeTypeOK'
  <2>1. inbox' \in [Tabs -> Seq(Message)]
    BY <1>10 DEF Flows
  <2> QED
    BY <1>3, <1>8, <1>9, <2>1, BridgeTypes, BridgeTypesNext
<1>12. LeadersKnown' /\ NoStrandedCall'
  BY <1>3 DEF BridgeInv, HostLeads, LeadersKnown, NoStrandedCall, Listens
<1>13. \A k \in DOMAIN <<>> : FALSE
  BY Nothing
<1>14. TraceStep(t, n, <<>>)
  <2>1. \A a \in Tabs, b \in Calls :
          \/ executed'[a][b] = executed[a][b]
          \/ executed'[a][b] = executed[a][b] + 1 /\ (Begins(a, b) \/ Takes(t, n, a, b))
    BY <1>5, <1>9
  <2>2. \A r \in Tabs : \A v \in work'[r] :
          \/ \E o \in work[r] : o.from = v.from /\ o.id = v.id
          \/ Begins(v.from, v.id) \/ Takes(t, n, v.from, v.id)
    BY <1>5, <1>7, <1>8
  <2>3. \A a \in alive', b \in Calls : Pending(a, b)' => Pending(a, b)
    BY <1>3 DEF Pending
  <2> QED
    BY <1>3, <1>13, <2>1, <2>2, <2>3 DEF TraceStep
<1>15. TermStep(t, n, <<>>)
  <2>1. \A r \in Tabs : Listens(r)' => Listens(r)
    BY <1>3 DEF Listens
  <2>3. \A a \in Tabs : ~Byes(t, n, a, leader[a])
    BY <1>1 DEF Byes
  <2>4. \A a \in Tabs, b \in Calls : ~Byes(t, n, a, calls[a][b].to)
    BY <1>1 DEF Byes
  <2>5. \A a \in Tabs, b \in Calls : calls[a][b].st = "ok" => calls[a][b].by = calls[a][b].info
    BY DEF BridgeInv, AnsweredByItsLeader
  <2>6. \A r \in Tabs : \A v \in work'[r] : v \in work[r] \/ v.term = host[r]
    BY <1>7, <1>8
  <2> QED
    BY <1>1, <1>3, <1>13, <2>1, <2>3, <2>4, <2>5, <2>6 DEF TermStep
<1> QED
  BY <1>10, <1>11, <1>12, <1>14, <1>15, Nothing, StepKeeps

\* The calls once that out at t has settled.
Settled(t, id, st, by) == [calls EXCEPT ![t][id].st = st, ![t][id].by = by]

\* Settling one call leaves the others alone.
LEMMA CallSettled ==
  ASSUME calls \in [Tabs -> [Calls -> CallRecord]], NEW t \in Tabs, NEW id \in Calls,
         NEW st \in {"ok", "error", "changed"}, NEW by \in 0..MaxTerms
  PROVE  /\ Settled(t, id, st, by) \in [Tabs -> [Calls -> CallRecord]]
         /\ Settled(t, id, st, by)[t][id].st = st /\ Settled(t, id, st, by)[t][id].by = by
         /\ Settled(t, id, st, by)[t][id].info = calls[t][id].info
         /\ \A u \in Tabs, j \in Calls : u # t \/ j # id =>
              Settled(t, id, st, by)[u][j] = calls[u][j]
<1> DEFINE was == calls[t][id]
           now == [was EXCEPT !.st = st, !.by = by]
<1>1. was \in CallRecord
  OBVIOUS
<1>2. Settled(t, id, st, by) = [calls EXCEPT ![t] = [calls[t] EXCEPT ![id] = now]]
  <2>1. calls[t] \in [Calls -> CallRecord]
    OBVIOUS
  <2>2. [calls EXCEPT ![t][id].st = st] = [calls EXCEPT ![t] = [calls[t] EXCEPT ![id] = [was EXCEPT !.st = st]]]
    BY <2>1
  <2> QED
    BY <1>1, <2>1, <2>2 DEF Settled
<1> HIDE DEF was
<1>3. /\ now \in CallRecord /\ now.st = st /\ now.by = by /\ now.info = was.info
  BY <1>1 DEF CallRecord
<1> HIDE DEF now
<1> DEFINE mine == [calls[t] EXCEPT ![id] = now]
<1>4. /\ mine \in [Calls -> CallRecord] /\ mine[id] = now
      /\ \A j \in Calls : j # id => mine[j] = calls[t][j]
  BY <1>3
<1> HIDE DEF mine
<1>5. /\ Settled(t, id, st, by) \in [Tabs -> [Calls -> CallRecord]]
      /\ Settled(t, id, st, by)[t] = mine
      /\ \A u \in Tabs : u # t => Settled(t, id, st, by)[u] = calls[u]
  <2>1. Settled(t, id, st, by) = [calls EXCEPT ![t] = mine]
    BY <1>2 DEF mine
  <2> QED
    BY <1>4, <2>1
<1> QED
  BY <1>3, <1>4, <1>5 DEF was

\* An answer settles the call that is out to its sender.
LEMMA ResKeeps ==
  ASSUME BridgeTypeOK, BridgeInv, NEW t \in Tabs, NEW n \in 1..Len(inbox[t]), ReceiveRes(t, n)
  PROVE  BridgeTypeOK' /\ BridgeInv'
<1> DEFINE m == inbox[t][n]
           call == calls[t][m.id]
<1>1. /\ m \in Message /\ m.k = "res"
      /\ \A k \in 1..(n - 1) : inbox[t][k].from # m.from
  BY ReadsFirst DEF ReceiveRes
<1>2. m.id \in Calls /\ m.st \in {"ok", "error", "changed"} /\ m.by \in 0..MaxTerms
  BY <1>1, MessagesRead
<1>3. /\ host' = host /\ leader' = leader /\ info' = info /\ work' = work /\ executed' = executed
      /\ alive' = alive /\ closed' = closed /\ terms' = terms /\ TakeAndPost(t, n, <<>>)
  BY DEF ReceiveRes
<1>4. \/ calls' = calls
      \/ /\ call.st = "sent" /\ call.to = m.from
         /\ calls' = [calls EXCEPT ![t][m.id].st = m.st, ![t][m.id].by = m.by]
  BY DEF ReceiveRes
<1>5. calls \in [Tabs -> [Calls -> CallRecord]]
  BY BridgeTypes
<1>6. call.st = "sent" /\ call.to = m.from /\ m.st = "ok" => m.by = call.info
  <2>1. n \in DOMAIN inbox[t]
    BY DEF BridgeTypeOK
  <2> QED
    BY <1>1, <2>1 DEF BridgeInv, AnswersAreOfTerm
<1> HIDE DEF m
<1>7. /\ calls' \in [Tabs -> [Calls -> CallRecord]]
      /\ \A u \in Tabs, j \in Calls :
           \/ calls'[u][j] = calls[u][j]
           \/ /\ calls[u][j].st = "sent" /\ calls'[u][j].st \in {"ok", "error", "changed"}
              /\ calls'[u][j].st = "ok" => calls'[u][j].by = calls'[u][j].info
  <2>1. CASE calls' = calls
    BY <1>5, <2>1
  <2>2. CASE /\ call.st = "sent" /\ call.to = m.from
             /\ calls' = [calls EXCEPT ![t][m.id].st = m.st, ![t][m.id].by = m.by]
    <3>1. /\ calls' \in [Tabs -> [Calls -> CallRecord]]
          /\ calls'[t][m.id].st = m.st /\ calls'[t][m.id].by = m.by
          /\ calls'[t][m.id].info = calls[t][m.id].info
          /\ \A u \in Tabs, j \in Calls : u # t \/ j # m.id => calls'[u][j] = calls[u][j]
      <4>1. calls' = Settled(t, m.id, m.st, m.by)
        BY <2>2 DEF Settled
      <4> QED
        BY <1>2, <1>5, <4>1, CallSettled
    <3> QED
      BY <1>2, <1>6, <2>2, <3>1
  <2> QED
    BY <1>4, <2>1, <2>2
<1>8. Flows(Message, t, n, <<>>)
  BY <1>3, Taken, Nothing DEF BridgeInv
<1>9. BridgeTypeOK'
  <2>1. inbox' \in [Tabs -> Seq(Message)]
    BY <1>8 DEF Flows
  <2> QED
    BY <1>3, <1>7, <2>1, BridgeTypes, BridgeTypesNext
<1>10. \A k \in DOMAIN <<>> : FALSE
  BY Nothing
<1>11. LeadersKnown' /\ NoStrandedCall'
  <2>1. LeadersKnown'
    BY <1>3 DEF BridgeInv, HostLeads, LeadersKnown, Listens
  <2>2. NoStrandedCall'
    BY <1>3, <1>7 DEF BridgeInv, NoStrandedCall, Listens
  <2> QED
    BY <2>1, <2>2
<1>12. TraceStep(t, n, <<>>)
  <2>1. \A a \in Tabs, b \in Calls : Pending(a, b)' => Pending(a, b)
    BY <1>7 DEF Pending
  <2>2. alive' \subseteq alive /\ alive' \subseteq Tabs
    BY <1>3 DEF BridgeTypeOK
  <2> QED
    BY <1>3, <1>10, <2>1, <2>2 DEF TraceStep
<1>13. TermStep(t, n, <<>>)
  <2>1. \A r \in Tabs : Listens(r)' => Listens(r)
    BY <1>3 DEF Listens
  <2>2. \A a \in Tabs : ~Byes(t, n, a, leader[a])
    BY <1>1 DEF Byes, m
  <2>3. \A a \in Tabs, b \in Calls : ~Byes(t, n, a, calls[a][b].to)
    BY <1>1 DEF Byes, m
  <2>4. \A a \in Tabs, b \in Calls : calls'[a][b].st = "ok" => calls'[a][b].by = calls'[a][b].info
    BY <1>7 DEF BridgeInv, AnsweredByItsLeader
  <2>5. \A a \in Tabs, b \in Calls : calls'[a][b].st = "sent" => calls'[a][b] = calls[a][b]
    BY <1>7
  <2>6. \A k \in 1..(n - 1) : inbox[t][k].from # inbox[t][n].from
    BY <1>1 DEF m
  <2> QED
    BY <1>3, <1>10, <2>1, <2>2, <2>3, <2>4, <2>5, <2>6 DEF TermStep
<1> QED
  BY <1>8, <1>9, <1>11, <1>12, <1>13, Nothing, StepKeeps

\* A call begins: it fails, waits, is served or is posted.
LEMMA CallKeeps ==
  ASSUME BridgeTypeOK, BridgeInv, NEW t \in Tabs, NEW id \in Calls, Call(t, id)
  PROVE  BridgeTypeOK' /\ BridgeInv'
<1> DEFINE l == leader[t]
           st == IF closed[t] THEN "changed" ELSE IF l = Nobody THEN "queued" ELSE "sent"
           new == [st |-> st, to |-> l, info |-> info[t], by |-> 0]
           w == Serving(t, id, host[t])
           out == IF st = "sent" /\ l # t THEN <<Req(t, l, id)>> ELSE <<>>
<1>1. /\ t \in alive /\ calls[t][id] = Idle
      /\ host' = host /\ leader' = leader /\ info' = info
      /\ alive' = alive /\ closed' = closed /\ terms' = terms
  BY DEF Call
<1>2. /\ calls' = [calls EXCEPT ![t][id] = new]
      /\ inbox' = IF st = "sent" /\ l # t THEN Post(inbox, t, <<Req(t, l, id)>>) ELSE inbox
      /\ work' = IF st = "sent" /\ l = t THEN [work EXCEPT ![t] = @ \cup {w}] ELSE work
      /\ executed' = IF (st = "sent" /\ l = t) /\ host[t] # 0 THEN [executed EXCEPT ![t][id] = @ + 1]
                     ELSE executed
  BY DEF Call
<1>3. /\ calls \in [Tabs -> [Calls -> CallRecord]] /\ work \in [Tabs -> SUBSET WorkRecord]
      /\ executed \in [Tabs -> [Calls -> Nat]] /\ host[t] \in 0..MaxTerms
      /\ leader[t] \in Tabs \cup {Nobody} /\ info[t] \in 0..MaxTerms
      /\ inbox \in [Tabs -> Seq(Message)]
  BY BridgeTypes
<1>4. /\ st \in {"changed", "queued", "sent"}
      /\ st = "sent" => l # Nobody /\ Listens(t)
      /\ st = "queued" => l = Nobody /\ Listens(t)
  BY <1>1 DEF Listens
<1> HIDE DEF st
<1>5. new \in CallRecord /\ new.st = st /\ new.to = leader[t] /\ new.info = info[t]
  BY <1>3, <1>4, BridgeAssumption DEF CallRecord
<1> HIDE DEF new
<1>6. /\ calls' \in [Tabs -> [Calls -> CallRecord]] /\ calls'[t][id] = new
      /\ \A u \in Tabs, j \in Calls : u # t \/ j # id => calls'[u][j] = calls[u][j]
  BY <1>2, <1>3, <1>5
<1>7. st # "queued" => Begins(t, id)
  BY <1>1, <1>4, <1>5, <1>6 DEF Begins, Pending, Idle
<1>8. /\ work' \in [Tabs -> SUBSET WorkRecord]
      /\ \A r \in Tabs : \A v \in work'[r] : v \in work[r] \/ (r = t /\ v = w /\ st = "sent")
  <2>1. w \in WorkRecord
    BY <1>3, WorkServed
  <2> HIDE DEF w, l
  <2>2. CASE st = "sent" /\ l = t
    <3>1. work' = [work EXCEPT ![t] = @ \cup {w}]
      BY <1>2, <2>2
    <3> QED
      BY <1>3, <2>1, <2>2, <3>1
  <2>3. CASE ~(st = "sent" /\ l = t)
    BY <1>2, <1>3, <2>3
  <2> QED
    BY <2>2, <2>3
<1>9. /\ executed' \in [Tabs -> [Calls -> Nat]]
      /\ \A a \in Tabs, b \in Calls :
           \/ executed'[a][b] = executed[a][b]
           \/ executed'[a][b] = executed[a][b] + 1 /\ a = t /\ b = id /\ st = "sent" /\ l = t
  <2> HIDE DEF l
  <2>1. CASE (st = "sent" /\ l = t) /\ host[t] # 0
    <3>1. executed' = [executed EXCEPT ![t][id] = @ + 1]
      BY <1>2, <2>1
    <3> QED
      BY <1>3, <2>1, <3>1
  <2>2. CASE ~((st = "sent" /\ l = t) /\ host[t] # 0)
    BY <1>2, <1>3, <2>2
  <2> QED
    BY <2>1, <2>2
<1>10. w.from = t /\ w.id = id /\ w.term = host[t]
  BY <1>3, WorkServed
<1> HIDE DEF w
<1>11. /\ out \in Seq(Message)
       /\ \A k \in DOMAIN out : st = "sent" /\ l # t /\ out[k] = Req(t, l, id) /\ k = 1
       /\ inbox' = Post(inbox, t, out)
  <2>1. CASE st = "sent" /\ l # t
    <3>1. Req(t, l, id) \in Message /\ out = <<Req(t, l, id)>>
      BY <1>3, <1>4, <2>1, MessagesMade
    <3>2. inbox' = Post(inbox, t, <<Req(t, l, id)>>)
      BY <1>2, <2>1
    <3> HIDE DEF out, l
    <3> QED
      BY <2>1, <3>1, <3>2, OneMessage
  <2>2. CASE ~(st = "sent" /\ l # t)
    <3>1. out = <<>> /\ inbox' = inbox
      BY <1>2, <2>2
    <3> HIDE DEF out
    <3>2. Post(inbox, t, <<>>) = inbox
      BY DEF Post
    <3> QED
      BY <3>1, <3>2, Nothing
  <2> QED
    BY <2>1, <2>2
<1> HIDE DEF out
<1>12. Flows(Message, t, 0, out)
  BY <1>1, <1>11, Sent DEF BridgeInv
<1>13. BridgeTypeOK'
  <2>1. inbox' \in [Tabs -> Seq(Message)]
    BY <1>12 DEF Flows
  <2> QED
    BY <1>1, <1>6, <1>8, <1>9, <2>1, BridgeTypes, BridgeTypesNext
<1>14. LeadersKnown'
  BY <1>1 DEF BridgeInv, HostLeads, LeadersKnown, Listens
<1>15. NoStrandedCall'
  <2> SUFFICES ASSUME NEW u \in Tabs, NEW j \in Calls
               PROVE  /\ calls'[u][j].st = "queued" => leader'[u] = Nobody /\ Listens(u)'
                      /\ calls'[u][j].st = "sent" => leader'[u] = calls'[u][j].to /\ Listens(u)'
    BY DEF NoStrandedCall
  <2>1. (Listens(u)' <=> Listens(u)) /\ leader'[u] = leader[u]
    BY <1>1 DEF Listens
  <2>2. CASE u = t /\ j = id
    BY <1>4, <1>5, <1>6, <2>1, <2>2
  <2>3. CASE u # t \/ j # id
    BY <1>6, <2>1, <2>3 DEF BridgeInv, NoStrandedCall
  <2> QED
    BY <2>2, <2>3
<1>16. \A k \in DOMAIN out :
         /\ st = "sent" /\ l # t /\ k = 1 /\ out[k].from = t /\ out[k].k = "req"
         /\ out[k].id = id /\ out[k].to = l
  BY <1>11 DEF Req
<1>17. TraceStep(t, 0, out)
  <2>1. \A a \in Tabs, b \in Calls : Pending(a, b)' => Pending(a, b)
    BY <1>1, <1>6 DEF Pending, Idle
  <2>2. alive' \subseteq alive /\ alive' \subseteq Tabs
    BY <1>1 DEF BridgeTypeOK
  <2>3. \A a \in Tabs, b \in Calls :
          \/ executed'[a][b] = executed[a][b]
          \/ executed'[a][b] = executed[a][b] + 1 /\ (Begins(a, b) \/ Takes(t, 0, a, b))
    BY <1>7, <1>9
  <2>4. ASSUME NEW k \in DOMAIN out
        PROVE  /\ Begins(out[k].from, out[k].id) /\ out[1].to # Nobody
               /\ executed'[out[k].from][out[k].id] = executed[out[k].from][out[k].id]
    <3>1. st = "sent" /\ l # t /\ k = 1 /\ out[k].from = t /\ out[k].id = id /\ out[1].to = l
      BY <1>16
    <3>2. executed'[t][id] = executed[t][id]
      BY <1>9, <3>1
    <3>3. Begins(t, id)
      BY <1>7, <3>1
    <3> QED
      BY <1>4, <3>1, <3>2, <3>3
  <2>5. \A r \in Tabs : \A v \in work'[r] :
          \/ \E o \in work[r] : o.from = v.from /\ o.id = v.id
          \/ Begins(v.from, v.id) \/ Takes(t, 0, v.from, v.id)
    BY <1>7, <1>8, <1>10
  <2>6. \A k \in DOMAIN out : out[k].k # "res" /\ k = 1
    BY <1>16
  <2> QED
    BY <2>1, <2>2, <2>3, <2>4, <2>5, <2>6 DEF TraceStep
<1>18. TermStep(t, 0, out)
  <2>1. \A r \in Tabs : Listens(r)' => Listens(r)
    BY <1>1 DEF Listens
  <2>2. \A a \in Tabs : ~Byes(t, 0, a, leader[a])
    BY DEF Byes
  <2>3. ASSUME NEW a \in Tabs, NEW b \in Calls, calls'[a][b].st = "sent"
        PROVE  \/ /\ calls'[a][b] = calls[a][b] /\ ~Byes(t, 0, a, calls[a][b].to)
                  /\ calls[a][b].to = a => host'[a] = host[a]
               \/ /\ Begins(a, b) /\ leader'[a] # Nobody
                  /\ calls'[a][b].to = leader'[a] /\ calls'[a][b].info = info'[a]
    <3>1. CASE a = t /\ b = id
      <4>1. st = "sent" /\ calls'[t][id].to = leader[t] /\ calls'[t][id].info = info[t]
        BY <1>5, <1>6, <2>3, <3>1
      <4> QED
        BY <1>1, <1>4, <1>7, <3>1, <4>1
    <3>2. CASE a # t \/ b # id
      BY <1>1, <1>6, <3>2 DEF Byes
    <3> QED
      BY <3>1, <3>2
  <2>4. \A a \in Tabs, b \in Calls : calls'[a][b].st = "ok" => calls'[a][b].by = calls'[a][b].info
    BY <1>4, <1>5, <1>6 DEF BridgeInv, AnsweredByItsLeader
  <2>5. \A r \in Tabs : \A v \in work'[r] : v \in work[r] \/ v.term = host[r]
    BY <1>8, <1>10
  <2>6. \A k \in DOMAIN out : out[k].from = t /\ out[k].k # "leader" /\ out[k].k # "res"
    BY <1>16
  <2> QED
    BY <1>1, <2>1, <2>2, <2>3, <2>4, <2>5, <2>6 DEF TermStep
<1> QED
  BY <1>11, <1>12, <1>13, <1>14, <1>15, <1>17, <1>18, StepKeeps

\* A promise of #serve settles: its own call, or an answer is posted.
LEMMA ServeKeeps ==
  ASSUME BridgeTypeOK, BridgeInv, NEW t \in Tabs, NEW w \in work[t], NEW st \in Outcomes(w),
         Served(t, w, st)
  PROVE  BridgeTypeOK' /\ BridgeInv'
<1> DEFINE id == w.id
           call == calls[t][id]
           out == IF w.from # t /\ w.fresh THEN <<Res(t, w.from, w.id, st, w.term)>> ELSE <<>>
<1>1. /\ calls \in [Tabs -> [Calls -> CallRecord]] /\ work \in [Tabs -> SUBSET WorkRecord]
      /\ inbox \in [Tabs -> Seq(Message)]
  BY BridgeTypes
<1>2. w \in WorkRecord /\ w.from \in Tabs /\ w.id \in Calls /\ w.term \in 0..MaxTerms
  <2>1. w \in WorkRecord
    BY <1>1
  <2> QED
    BY <2>1 DEF WorkRecord
<1>3. st \in {"ok", "error", "changed"} /\ (st = "ok" => w.term # 0)
  BY DEF Outcomes
<1>4. /\ t \in alive /\ host' = host /\ leader' = leader /\ info' = info /\ executed' = executed
      /\ alive' = alive /\ closed' = closed /\ terms' = terms
      /\ work' = [work EXCEPT ![t] = @ \ {w}]
  BY DEF Served
<1>5. w.fresh /\ w.term # 0 => host[t] = w.term
  BY DEF BridgeInv, WorkIsOfTerm
<1>6. \/ calls' = calls
      \/ /\ call.st = "sent" /\ (st = "ok" => w.fresh)
         /\ calls' = Settled(t, id, st, w.term)
  BY DEF Served, Settled
<1>7. /\ out \in Seq(Message) /\ inbox' = Post(inbox, t, out)
      /\ \A k \in DOMAIN out : w.from # t /\ w.fresh /\ out[k] = Res(t, w.from, w.id, st, w.term) /\ k = 1
  <2>1. CASE w.from # t /\ w.fresh
    <3>1. Res(t, w.from, w.id, st, w.term) \in Message
      BY <1>2, <1>3, MessagesMade
    <3>2. out = <<Res(t, w.from, w.id, st, w.term)>> /\ inbox' = Post(inbox, t, out)
      BY <2>1 DEF Served
    <3> HIDE DEF out
    <3> QED
      BY <2>1, <3>1, <3>2, OneMessage
  <2>2. CASE ~(w.from # t /\ w.fresh)
    <3>1. out = <<>> /\ inbox' = inbox
      BY <2>2 DEF Served
    <3> HIDE DEF out
    <3>2. Post(inbox, t, <<>>) = inbox
      BY DEF Post
    <3> QED
      BY <3>1, <3>2, Nothing
  <2> QED
    BY <2>1, <2>2
<1> HIDE DEF out
<1>8. Flows(Message, t, 0, out)
  BY <1>4, <1>7, Sent DEF BridgeInv
<1>9. st = "ok" /\ w.fresh /\ call.st = "sent" => w.term = call.info
  <2> SUFFICES ASSUME st = "ok", w.fresh, call.st = "sent" PROVE w.term = call.info
    OBVIOUS
  <2>1. host[t] = w.term /\ w.term # 0
    BY <1>3, <1>5
  <2>2. leader[t] = t
    BY <2>1 DEF BridgeInv, HostLeads
  <2>3. call.to = t
    BY <1>2, <2>2 DEF BridgeInv, NoStrandedCall
  <2>4. call.info = host[t]
    BY <1>2, <2>3 DEF BridgeInv, TermsEndWithBye
  <2> QED
    BY <2>1, <2>4
<1>10. /\ calls' \in [Tabs -> [Calls -> CallRecord]]
       /\ \A u \in Tabs, j \in Calls :
            \/ calls'[u][j] = calls[u][j]
            \/ /\ calls[u][j].st = "sent" /\ calls'[u][j].st \in {"ok", "error", "changed"}
               /\ calls'[u][j].st = "ok" => calls'[u][j].by = calls'[u][j].info
  <2>1. CASE calls' = calls
    BY <1>1, <2>1
  <2>2. CASE /\ call.st = "sent" /\ (st = "ok" => w.fresh)
             /\ calls' = Settled(t, id, st, w.term)
    <3>1. /\ calls' \in [Tabs -> [Calls -> CallRecord]]
          /\ calls'[t][id].st = st /\ calls'[t][id].by = w.term /\ calls'[t][id].info = calls[t][id].info
          /\ \A u \in Tabs, j \in Calls : u # t \/ j # id => calls'[u][j] = calls[u][j]
      <4>1. id \in Calls /\ st \in {"ok", "error", "changed"} /\ w.term \in 0..MaxTerms
        BY <1>2, <1>3
      <4>2. calls' = Settled(t, id, st, w.term)
        BY <2>2
      <4> HIDE DEF id
      <4> QED
        BY <1>1, <4>1, <4>2, CallSettled
    <3> QED
      BY <1>2, <1>3, <1>9, <2>2, <3>1
  <2> QED
    BY <1>6, <2>1, <2>2
<1>11. work' \in [Tabs -> SUBSET WorkRecord] /\ \A r \in Tabs : work'[r] \subseteq work[r]
  BY <1>1, <1>4
<1>12. BridgeTypeOK'
  <2>1. inbox' \in [Tabs -> Seq(Message)]
    BY <1>8 DEF Flows
  <2> QED
    BY <1>4, <1>10, <1>11, <2>1, BridgeTypes, BridgeTypesNext
<1>13. LeadersKnown' /\ NoStrandedCall'
  <2>1. LeadersKnown'
    BY <1>4 DEF BridgeInv, HostLeads, LeadersKnown, Listens
  <2>2. NoStrandedCall'
    BY <1>4, <1>10 DEF BridgeInv, NoStrandedCall, Listens
  <2> QED
    BY <2>1, <2>2
<1>14. \A k \in DOMAIN out :
         /\ w.fresh /\ k = 1 /\ out[k].k = "res" /\ out[k].from = t /\ out[k].to = w.from
         /\ out[k].id = w.id /\ out[k].st = st /\ out[k].by = w.term
  BY <1>7 DEF Res
<1>15. TraceStep(t, 0, out)
  <2>1. \A a \in Tabs, b \in Calls : Pending(a, b)' => Pending(a, b)
    BY <1>10 DEF Pending
  <2>2. alive' \subseteq alive /\ alive' \subseteq Tabs
    BY <1>4 DEF BridgeTypeOK
  <2>3. \A k \in DOMAIN out : out[k].k # "req" /\ w.from = out[1].to /\ w.id = out[k].id
    BY <1>14
  <2>4. \A r \in Tabs : \A v \in work'[r] : \E o \in work[r] : o.from = v.from /\ o.id = v.id
    BY <1>11
  <2> QED
    BY <1>4, <2>1, <2>2, <2>3, <2>4 DEF TraceStep
<1>16. TermStep(t, 0, out)
  <2>1. \A r \in Tabs : Listens(r)' => Listens(r)
    BY <1>4 DEF Listens
  <2>2. \A a \in Tabs : ~Byes(t, 0, a, leader[a])
    BY DEF Byes
  <2>3. \A a \in Tabs, b \in Calls : ~Byes(t, 0, a, calls[a][b].to)
    BY DEF Byes
  <2>4. \A a \in Tabs, b \in Calls : calls'[a][b].st = "ok" => calls'[a][b].by = calls'[a][b].info
    BY <1>10 DEF BridgeInv, AnsweredByItsLeader
  <2>5. \A a \in Tabs, b \in Calls : calls'[a][b].st = "sent" => calls'[a][b] = calls[a][b]
    BY <1>10
  <2>6. \A r \in Tabs : \A v \in work'[r] : v.fresh /\ v.term # 0 =>
          v \in work[r] /\ host'[r] = host[r]
    BY <1>4, <1>11
  <2>7. \A k \in DOMAIN out : out[k].st = "ok" =>
          /\ host[t] # 0 /\ out[k].by = host[t]
          /\ w.from = out[1].to /\ w.id = out[k].id
    BY <1>3, <1>5, <1>14
  <2>8. \A k \in DOMAIN out : out[k].from = t /\ out[k].k # "leader"
    BY <1>14
  <2> QED
    BY <1>4, <2>1, <2>2, <2>3, <2>4, <2>5, <2>6, <2>7, <2>8 DEF TermStep
<1> QED
  BY <1>7, <1>8, <1>12, <1>13, <1>15, <1>16, StepKeeps

\* close: bye to everyone, and every call that waits or is out is rejected.
LEMMA ShutKeeps ==
  ASSUME BridgeTypeOK, BridgeInv, NEW t \in Tabs, Shut(t)
  PROVE  BridgeTypeOK' /\ BridgeInv'
<1> DEFINE out == <<Bye(t)>>
           ended == [id \in Calls |-> IF calls[t][id].st \in {"queued", "sent"}
                                      THEN [calls[t][id] EXCEPT !.st = "changed"] ELSE calls[t][id]]
           stale == {[w EXCEPT !.fresh = FALSE] : w \in work[t]}
<1>1. /\ Listens(t) /\ alive' = alive /\ closed' = [closed EXCEPT ![t] = TRUE] /\ terms' = terms
      /\ leader' = [leader EXCEPT ![t] = Nobody] /\ info' = [info EXCEPT ![t] = 0]
      /\ host' = [host EXCEPT ![t] = 0] /\ calls' = [calls EXCEPT ![t] = ended]
      /\ work' = [work EXCEPT ![t] = stale]
      /\ inbox' = [Post(inbox, t, out) EXCEPT ![t] = <<>>] /\ executed' = executed
  BY DEF Shut, Close, CloseKnowing
<1>2. /\ calls \in [Tabs -> [Calls -> CallRecord]] /\ work \in [Tabs -> SUBSET WorkRecord]
      /\ host \in [Tabs -> 0..MaxTerms] /\ leader \in [Tabs -> Tabs \cup {Nobody}]
      /\ info \in [Tabs -> 0..MaxTerms] /\ closed \in [Tabs -> BOOLEAN]
      /\ inbox \in [Tabs -> Seq(Message)] /\ alive \subseteq Tabs
  BY BridgeTypes
<1>3. ASSUME NEW id \in Calls
      PROVE  /\ ended[id] \in CallRecord
             /\ IF calls[t][id].st \in {"queued", "sent"} THEN ended[id].st = "changed"
                ELSE ended[id] = calls[t][id]
  <2>1. calls[t][id] \in CallRecord
    BY <1>2
  <2>2. /\ [calls[t][id] EXCEPT !.st = "changed"] \in CallRecord
        /\ [calls[t][id] EXCEPT !.st = "changed"].st = "changed"
    BY <2>1, CallChanged
  <2> QED
    BY <2>1, <2>2
<1>4. ended \in [Calls -> CallRecord]
  <2>1. ended = [id \in Calls |-> ended[id]]
    OBVIOUS
  <2> HIDE DEF ended
  <2> QED
    BY <1>3, <2>1
<1> HIDE DEF ended
<1>5. /\ calls' \in [Tabs -> [Calls -> CallRecord]]
      /\ calls'[t] = ended /\ \A u \in Tabs : u # t => calls'[u] = calls[u]
  BY <1>1, <1>2, <1>4
<1>6. /\ stale \in SUBSET WorkRecord
      /\ \A w \in stale : ~w.fresh /\ \E v \in work[t] : v.from = w.from /\ v.id = w.id
  <2>1. ASSUME NEW w \in stale
        PROVE  /\ w \in WorkRecord /\ ~w.fresh
               /\ \E v \in work[t] : v.from = w.from /\ v.id = w.id
    <3>1. PICK v \in work[t] : w = [v EXCEPT !.fresh = FALSE]
      OBVIOUS
    <3>2. v \in WorkRecord
      BY <1>2
    <3>3. w \in WorkRecord /\ ~w.fresh /\ w.from = v.from /\ w.id = v.id
      BY <3>1, <3>2, WorkServed
    <3> QED
      BY <3>3
  <2> HIDE DEF stale
  <2> QED
    BY <2>1
<1> HIDE DEF stale
<1>7. /\ work' \in [Tabs -> SUBSET WorkRecord]
      /\ work'[t] = stale /\ \A u \in Tabs : u # t => work'[u] = work[u]
  BY <1>1, <1>2, <1>6
<1>8. /\ host' \in [Tabs -> 0..MaxTerms] /\ leader' \in [Tabs -> Tabs \cup {Nobody}]
      /\ info' \in [Tabs -> 0..MaxTerms] /\ closed' \in [Tabs -> BOOLEAN]
      /\ host'[t] = 0 /\ leader'[t] = Nobody /\ info'[t] = 0 /\ closed'[t]
      /\ \A u \in Tabs : u # t => /\ host'[u] = host[u] /\ leader'[u] = leader[u]
                                  /\ info'[u] = info[u] /\ closed'[u] = closed[u]
  BY <1>1, <1>2, BridgeAssumption
<1>9. /\ ~Listens(t)' /\ \A r \in Tabs \ {t} : Listens(r)' <=> Listens(r)
  BY <1>1, <1>8 DEF Listens
<1>10. /\ out \in Seq(Message) /\ out # <<>> /\ 1 \in DOMAIN out /\ out[1] = Bye(t)
       /\ \A k \in DOMAIN out : out[k] = Bye(t)
  <2>1. Bye(t) \in Message
    BY MessagesMade
  <2> QED
    BY <2>1, OneMessage
<1> HIDE DEF out
<1>11. Flows(Message, t, 0, out)
  <2>1. 0 \in 0..Len(inbox[t])
    BY <1>2
  <2> QED
    BY <1>1, <1>2, <1>9, <1>10, <2>1, Flow DEF BridgeInv
<1>12. BridgeTypeOK'
  <2>1. inbox' \in [Tabs -> Seq(Message)]
    BY <1>11 DEF Flows
  <2> QED
    BY <1>1, <1>5, <1>7, <1>8, <2>1, BridgeTypes, BridgeTypesNext
<1>13. LeadersKnown'
  <2> SUFFICES ASSUME NEW u \in Tabs
               PROVE  /\ host'[u] # 0 => leader'[u] = u
                      /\ leader'[u] = u => host'[u] = info'[u]
                      /\ leader'[u] # Nobody => info'[u] # 0 /\ Listens(u)'
    BY DEF LeadersKnown
  <2>1. CASE u = t
    BY <1>8, <2>1, TabsAssumption
  <2>2. CASE u # t
    <3>1. host'[u] = host[u] /\ leader'[u] = leader[u] /\ info'[u] = info[u]
      BY <1>8, <2>2
    <3> QED
      BY <1>9, <2>2, <3>1 DEF BridgeInv, HostLeads
  <2> QED
    BY <2>1, <2>2
<1>14. NoStrandedCall'
  <2> SUFFICES ASSUME NEW u \in Tabs, NEW j \in Calls
               PROVE  /\ calls'[u][j].st = "queued" => leader'[u] = Nobody /\ Listens(u)'
                      /\ calls'[u][j].st = "sent" => leader'[u] = calls'[u][j].to /\ Listens(u)'
    BY DEF NoStrandedCall
  <2>1. CASE u = t
    BY <1>3, <1>5, <2>1
  <2>2. CASE u # t
    <3>1. /\ calls[u][j].st = "queued" => leader[u] = Nobody /\ Listens(u)
          /\ calls[u][j].st = "sent" => leader[u] = calls[u][j].to /\ Listens(u)
      BY DEF BridgeInv, NoStrandedCall
    <3> QED
      BY <1>5, <1>8, <1>9, <2>2, <3>1
  <2> QED
    BY <2>1, <2>2
<1>15. /\ \A k \in DOMAIN out : out[k].from = t /\ out[k].k = "bye"
       /\ out[1].to = Nobody /\ out[1].k = "bye"
  BY <1>10 DEF Bye
<1>16. TraceStep(t, 0, out)
  <2>1. \A a \in Tabs, b \in Calls : Pending(a, b)' => Pending(a, b)
    BY <1>3, <1>5 DEF Pending
  <2>2. alive' \subseteq alive /\ alive' \subseteq Tabs
    BY <1>1, <1>2
  <2>3. \A r \in Tabs : \A v \in work'[r] : \E o \in work[r] : o.from = v.from /\ o.id = v.id
    BY <1>6, <1>7
  <2>4. \A k \in DOMAIN out : out[k].k # "req" /\ out[k].k # "res"
    BY <1>15
  <2> QED
    BY <1>1, <2>1, <2>2, <2>3, <2>4 DEF TraceStep
<1>17. TermStep(t, 0, out)
  <2>1. \A r \in Tabs : Listens(r)' => Listens(r)
    BY <1>9
  <2>2. \A a \in Tabs : leader'[a] \notin {a, Nobody} =>
          leader'[a] = leader[a] /\ info'[a] = info[a] /\ ~Byes(t, 0, a, leader[a])
    BY <1>8 DEF Byes
  <2>3. \A a \in Tabs, b \in Calls : calls'[a][b].st = "sent" =>
          /\ calls'[a][b] = calls[a][b] /\ ~Byes(t, 0, a, calls[a][b].to)
          /\ host'[a] = host[a]
    BY <1>3, <1>5, <1>8 DEF Byes
  <2>4. \A a \in Tabs, b \in Calls : calls'[a][b].st = "ok" => calls'[a][b].by = calls'[a][b].info
    <3>1. \A a \in Tabs, b \in Calls : calls'[a][b].st = "ok" => calls'[a][b] = calls[a][b]
      BY <1>3, <1>5
    <3> QED
      BY <3>1 DEF BridgeInv, AnsweredByItsLeader
  <2>5. \A r \in Tabs : \A v \in work'[r] : v.fresh => v \in work[r] /\ host'[r] = host[r]
    BY <1>6, <1>7, <1>8
  <2>6. \A l \in Tabs : host'[l] = host[l] \/ l = t
    BY <1>8
  <2>7. \E k \in DOMAIN out : out[k].k = "bye"
    BY <1>10, <1>15
  <2>8. \A k \in DOMAIN out : out[k].from = t /\ out[k].k # "leader" /\ out[k].k # "res"
    BY <1>15
  <2> QED
    BY <1>1, <1>10, <1>15, <2>1, <2>2, <2>3, <2>4, <2>5, <2>6, <2>7, <2>8 DEF TermStep
<1> QED
  BY <1>10, <1>11, <1>12, <1>13, <1>14, <1>16, <1>17, StepKeeps

\* The tab is gone, with all it knew.
LEMMA VanishKeeps ==
  ASSUME BridgeTypeOK, BridgeInv, NEW t \in Tabs, Vanish(t)
  PROVE  BridgeTypeOK' /\ BridgeInv'
<1> DEFINE none == [id \in Calls |-> Idle]
<1>1. /\ alive' = alive \ {t} /\ closed' = closed /\ terms' = terms /\ executed' = executed
      /\ leader' = [leader EXCEPT ![t] = Nobody] /\ info' = [info EXCEPT ![t] = 0]
      /\ host' = [host EXCEPT ![t] = 0] /\ calls' = [calls EXCEPT ![t] = none]
      /\ work' = [work EXCEPT ![t] = {}] /\ inbox' = [inbox EXCEPT ![t] = <<>>]
  BY DEF Vanish, BridgeCrash
<1>2. /\ calls \in [Tabs -> [Calls -> CallRecord]] /\ work \in [Tabs -> SUBSET WorkRecord]
      /\ host \in [Tabs -> 0..MaxTerms] /\ leader \in [Tabs -> Tabs \cup {Nobody}]
      /\ info \in [Tabs -> 0..MaxTerms] /\ inbox \in [Tabs -> Seq(Message)] /\ alive \subseteq Tabs
  BY BridgeTypes
<1>3. none \in [Calls -> CallRecord] /\ \A id \in Calls : none[id].st = "none"
  <2>1. Idle \in CallRecord /\ Idle.st = "none"
    BY BridgeAssumption DEF Idle, CallRecord
  <2> QED
    BY <2>1
<1> HIDE DEF none
<1>4. /\ calls' \in [Tabs -> [Calls -> CallRecord]]
      /\ calls'[t] = none /\ \A u \in Tabs : u # t => calls'[u] = calls[u]
  BY <1>1, <1>2, <1>3
<1>5. /\ work' \in [Tabs -> SUBSET WorkRecord]
      /\ work'[t] = {} /\ \A u \in Tabs : u # t => work'[u] = work[u]
  BY <1>1, <1>2
<1>6. /\ host' \in [Tabs -> 0..MaxTerms] /\ leader' \in [Tabs -> Tabs \cup {Nobody}]
      /\ info' \in [Tabs -> 0..MaxTerms]
      /\ host'[t] = 0 /\ leader'[t] = Nobody /\ info'[t] = 0
      /\ \A u \in Tabs : u # t =>
           host'[u] = host[u] /\ leader'[u] = leader[u] /\ info'[u] = info[u]
  BY <1>1, <1>2, BridgeAssumption
<1>7. /\ ~Listens(t)' /\ \A r \in Tabs \ {t} : Listens(r)' <=> Listens(r)
  BY <1>1 DEF Listens
<1>8. Flows(Message, t, 0, <<>>)
  <2>1. 0 \in 0..Len(inbox[t])
    BY <1>2
  <2>2. Post(inbox, t, <<>>) = inbox
    BY DEF Post
  <2> QED
    BY <1>1, <1>2, <1>7, <2>1, <2>2, Flow, Nothing DEF BridgeInv
<1>9. BridgeTypeOK'
  <2>1. inbox' \in [Tabs -> Seq(Message)] /\ alive' \subseteq Tabs
    BY <1>1, <1>2, <1>8 DEF Flows
  <2> QED
    BY <1>1, <1>4, <1>5, <1>6, <2>1, BridgeTypes, BridgeTypesNext
<1>10. LeadersKnown'
  BY <1>6, <1>7, TabsAssumption DEF BridgeInv, HostLeads, LeadersKnown
<1>11. NoStrandedCall'
  <2> SUFFICES ASSUME NEW u \in Tabs, NEW j \in Calls
               PROVE  /\ calls'[u][j].st = "queued" => leader'[u] = Nobody /\ Listens(u)'
                      /\ calls'[u][j].st = "sent" => leader'[u] = calls'[u][j].to /\ Listens(u)'
    BY DEF NoStrandedCall
  <2>1. CASE u = t
    BY <1>3, <1>4, <2>1
  <2>2. CASE u # t
    BY <1>4, <1>6, <1>7, <2>2 DEF BridgeInv, NoStrandedCall
  <2> QED
    BY <2>1, <2>2
<1>12. \A k \in DOMAIN <<>> : FALSE
  BY Nothing
<1>13. TraceStep(t, 0, <<>>)
  <2>1. \A a \in alive', b \in Calls : Pending(a, b)' => Pending(a, b)
    BY <1>1, <1>2, <1>4 DEF Pending
  <2>2. alive' \subseteq alive
    BY <1>1
  <2>3. \A r \in Tabs : \A v \in work'[r] : \E o \in work[r] : o.from = v.from /\ o.id = v.id
    BY <1>5
  <2> QED
    BY <1>1, <1>12, <2>1, <2>2, <2>3 DEF TraceStep
<1>14. TermStep(t, 0, <<>>)
  <2>1. \A r \in Tabs : Listens(r)' => Listens(r)
    BY <1>7
  <2>2. \A a \in Tabs : leader'[a] \notin {a, Nobody} =>
          leader'[a] = leader[a] /\ info'[a] = info[a] /\ ~Byes(t, 0, a, leader[a])
    BY <1>6 DEF Byes
  <2>3. \A a \in Tabs, b \in Calls : calls'[a][b].st \in {"sent", "ok"} =>
          calls'[a][b] = calls[a][b] /\ host'[a] = host[a]
    BY <1>3, <1>4, <1>6
  <2>4. \A a \in Tabs, b \in Calls : calls'[a][b].st = "ok" => calls'[a][b].by = calls'[a][b].info
    BY <2>3 DEF BridgeInv, AnsweredByItsLeader
  <2>5. \A r \in Tabs : \A v \in work'[r] : v \in work[r] /\ host'[r] = host[r]
    BY <1>5, <1>6
  <2>6. \A l \in Tabs : host'[l] = host[l] \/ l \notin alive'
    BY <1>1, <1>6
  <2>7. \A a \in Tabs, b \in Calls : ~Byes(t, 0, a, calls[a][b].to)
    BY DEF Byes
  <2>8. alive' \subseteq alive
    BY <1>1
  <2> QED
    BY <1>12, <2>1, <2>2, <2>3, <2>4, <2>5, <2>6, <2>7, <2>8 DEF TermStep
<1> QED
  BY <1>8, <1>9, <1>10, <1>11, <1>13, <1>14, Nothing, StepKeeps

-----------------------------------------------------------------------------
(* The invariant.                                                          *)

\* A new channel has nothing on it.
LEMMA BridgeInitially ==
  BridgeInit => BridgeTypeOK /\ BridgeInv
<1> SUFFICES ASSUME BridgeInit PROVE BridgeTypeOK /\ BridgeInv
  OBVIOUS
<1>1. /\ alive = Tabs /\ host = [t \in Tabs |-> 0] /\ leader = [t \in Tabs |-> Nobody]
      /\ info = [t \in Tabs |-> 0] /\ closed = [t \in Tabs |-> FALSE]
      /\ calls = [t \in Tabs |-> [id \in Calls |-> Idle]] /\ work = [t \in Tabs |-> {}]
      /\ inbox = [t \in Tabs |-> <<>>] /\ terms = 0
      /\ executed = [t \in Tabs |-> [id \in Calls |-> 0]]
  BY DEF BridgeInit
<1>2. Idle \in CallRecord /\ Idle.st = "none"
  BY BridgeAssumption DEF Idle, CallRecord
<1>3. /\ calls \in [Tabs -> [Calls -> CallRecord]]
      /\ \A t \in Tabs, id \in Calls : calls[t][id].st = "none"
  BY <1>1, <1>2
<1>4. /\ \A t \in Tabs : host[t] = 0 /\ leader[t] = Nobody /\ work[t] = {} /\ inbox[t] = <<>>
      /\ \A t \in Tabs, id \in Calls : executed[t][id] = 0
  BY <1>1
<1>5. BridgeTypeOK
  <2>1. /\ inbox \in [Tabs -> Seq(Message)] /\ work \in [Tabs -> SUBSET WorkRecord]
        /\ executed \in [Tabs -> [Calls -> Nat]]
    BY <1>1
  <2>2. /\ host \in [Tabs -> 0..MaxTerms] /\ info \in [Tabs -> 0..MaxTerms] /\ terms \in 0..MaxTerms
        /\ leader \in [Tabs -> Tabs \cup {Nobody}] /\ closed \in [Tabs -> BOOLEAN]
        /\ alive \subseteq Tabs
    BY <1>1, BridgeAssumption
  <2> QED
    BY <1>3, <2>1, <2>2, BridgeTypes
<1>6. \A t \in Tabs : \A n \in DOMAIN inbox[t] : FALSE
  BY <1>4
<1>7. HostLeads /\ NoStrandedCall
  BY <1>3, <1>4, <1>6, TabsAssumption DEF HostLeads, NoStrandedCall
<1>8. WaitingLeftNoTrace
  BY <1>1, <1>4, <1>6 DEF WaitingLeftNoTrace
<1>9. RequestIsFresh /\ RunsAtMostOnce
  BY <1>4, <1>6 DEF RequestIsFresh, RunsAtMostOnce
<1>10. TermsEndWithBye
  BY <1>3, <1>4, <1>6 DEF TermsEndWithBye
<1>11. WorkIsOfTerm /\ AnswersAreOfTerm /\ AnsweredByItsLeader
  BY <1>3, <1>4, <1>6 DEF WorkIsOfTerm, AnswersAreOfTerm, AnsweredByItsLeader
<1> QED
  BY <1>5, <1>7, <1>8, <1>9, <1>10, <1>11 DEF BridgeInv

\* One case per action: the invariant is inductive.
LEMMA BridgeInvInductive ==
  BridgeTypeOK /\ BridgeInv /\ [BridgeNext]_bridgeVars => (BridgeTypeOK /\ BridgeInv)'
<1> SUFFICES ASSUME BridgeTypeOK, BridgeInv, [BridgeNext]_bridgeVars
             PROVE  BridgeTypeOK' /\ BridgeInv'
  OBVIOUS
<1>1. ASSUME NEW t \in Tabs, Lead(t) PROVE BridgeTypeOK' /\ BridgeInv'
  BY <1>1, LeadKeeps
<1>2. ASSUME NEW t \in Tabs, GiveUp(t) PROVE BridgeTypeOK' /\ BridgeInv'
  BY <1>2, GiveUpKeeps
<1>3. ASSUME NEW t \in Tabs, Ask(t) PROVE BridgeTypeOK' /\ BridgeInv'
  BY <1>3, AskKeeps
<1>4. ASSUME NEW t \in Tabs, GoAway(t) PROVE BridgeTypeOK' /\ BridgeInv'
  BY <1>4, GoAwayKeeps
<1>5. ASSUME NEW t \in Tabs, Shut(t) PROVE BridgeTypeOK' /\ BridgeInv'
  BY <1>5, ShutKeeps
<1>6. ASSUME NEW t \in Tabs, Vanish(t) PROVE BridgeTypeOK' /\ BridgeInv'
  BY <1>6, VanishKeeps
<1>7. ASSUME NEW t \in Tabs, NEW id \in Calls, Call(t, id) PROVE BridgeTypeOK' /\ BridgeInv'
  BY <1>7, CallKeeps
<1>8. ASSUME NEW t \in Tabs, Serve(t) PROVE BridgeTypeOK' /\ BridgeInv'
  BY <1>8, ServeKeeps DEF Serve
<1>9. ASSUME NEW t \in Tabs, NEW n \in 1..Len(inbox[t]), Receive(t, n)
      PROVE  BridgeTypeOK' /\ BridgeInv'
  BY <1>9, HelloKeeps, LeaderKeeps, ByeKeeps, ReqKeeps, ResKeeps DEF Receive
<1>10. CASE UNCHANGED bridgeVars
  <2>1. /\ alive' = alive /\ host' = host /\ leader' = leader /\ info' = info /\ closed' = closed
        /\ calls' = calls /\ work' = work /\ inbox' = inbox /\ terms' = terms /\ executed' = executed
    BY <1>10 DEF bridgeVars
  <2>2. BridgeTypeOK'
    BY <2>1, BridgeTypes, BridgeTypesNext
  <2>3. (HostLeads /\ NoStrandedCall)'
    BY <2>1 DEF BridgeInv, HostLeads, NoStrandedCall, Listens
  <2>4. (WaitingLeftNoTrace /\ RequestIsFresh /\ RunsAtMostOnce)'
    BY <2>1 DEF BridgeInv, WaitingLeftNoTrace, RequestIsFresh, RunsAtMostOnce, IsReq
  <2>5. (TermsEndWithBye /\ WorkIsOfTerm)'
    BY <2>1 DEF BridgeInv, TermsEndWithBye, WorkIsOfTerm, OverFor
  <2>6. (AnswersAreOfTerm /\ AnsweredByItsLeader)'
    BY <2>1 DEF BridgeInv, AnswersAreOfTerm, AnsweredByItsLeader
  <2> QED
    BY <2>2, <2>3, <2>4, <2>5, <2>6 DEF BridgeInv
<1> QED
  BY <1>1, <1>2, <1>3, <1>4, <1>5, <1>6, <1>7, <1>8, <1>9, <1>10 DEF BridgeNext

\* The invariant holds of every reachable state: what waits has left no trace,
\* a term that ends says so ahead of everything said later.
THEOREM BridgeInvariant == BridgeSpec => [](BridgeTypeOK /\ BridgeInv)
BY BridgeInitially, BridgeInvInductive, PTL DEF BridgeSpec

\* Every field of every tab, and every message, stays of its kind.
THEOREM BridgeTypeCorrect == BridgeSpec => []BridgeTypeOK
BY BridgeInvariant, PTL

\* No call waits beside a known leader, or is out to a tab that is not the known
\* leader: #setLeader fails or dispatches every one of them.
THEOREM BridgeStrandsNoCall == BridgeSpec => []NoStrandedCall
<1>1. BridgeInv => NoStrandedCall
  BY DEF BridgeInv
<1> QED
  BY <1>1, BridgeInvariant, PTL

\* No host runs a request a second time, whatever is announced again.
THEOREM BridgeRunsAtMostOnce == BridgeSpec => []RunsAtMostOnce
<1>1. BridgeInv => RunsAtMostOnce
  BY DEF BridgeInv
<1> QED
  BY <1>1, BridgeInvariant, PTL

\* A call that resolves was answered by the term it was sent to: the bye of a
\* term overtakes none of its answers, and none of the next term overtakes it.
THEOREM BridgeAnsweredByItsLeader == BridgeSpec => []AnsweredByItsLeader
<1>1. BridgeInv => AnsweredByItsLeader
  BY DEF BridgeInv
<1> QED
  BY <1>1, BridgeInvariant, PTL

-----------------------------------------------------------------------------
(* The ports of BridgePorts.  Each of its steps is again one of a tab t    *)
(* that takes message n and posts `out'; PortStep says what it may do to   *)
(* the rest, PortsKept that PortsInv is kept by it.                        *)

\* Behind what a tab's message ends.
Ends == {"bye", "port-close"}

\* t tells u, or everybody, one of `kinds'.
Tells(t, u, kinds, out) ==
  Listens(t) /\ \E k \in DOMAIN out : out[k].k \in kinds /\ out[1].to \in {u, Nobody}

\* What the step of a tab t does that takes message n and posts `out'.
PortStep(t, n, out) ==
  /\ \A u \in Tabs : u # t =>
       /\ host'[u] = host[u] /\ leader'[u] = leader[u] /\ info'[u] = info[u]
       /\ closed'[u] = closed[u] /\ (u \in alive' <=> u \in alive)
       /\ endpoint'[u] = endpoint[u] /\ served'[u] = served[u]
  /\ t \in alive
  /\ \A k \in DOMAIN out : out[k].from = t
  /\ n # 0 => \A k \in 1..(n - 1) : inbox[t][k].from # inbox[t][n].from
  /\ host'[t] # 0 => leader'[t] = t /\ (host[t] # 0 \/ NoHost)
  /\ leader'[t] = t => host'[t] = info'[t]
  /\ leader'[t] # Nobody => info'[t] # 0 /\ Listens(t)'
  /\ endpoint'[t].st = "none" => Waitless(endpoint'[t])
  /\ endpoint'[t].st = "open" =>
       /\ Listens(t)'
       /\ endpoint'[t].queued # <<>> => leader'[t] = Nobody
       /\ endpoint'[t].inFlight # {} => leader'[t] # Nobody
  /\ \A f \in Tabs :
       /\ served'[t][f].open => host'[t] # 0
       /\ ~served'[t][f].open => served'[t][f].todo = {}
  /\ \A f \in Tabs : f # t /\ served'[t][f].open =>
       \/ served[t][f].open /\ ~(n # 0 /\ inbox[t][n].from = f /\ inbox[t][n].k \in Ends)
       \/ n # 0 /\ inbox[t][n].from = f /\ inbox[t][n].k = "port" /\ host[t] # 0
  /\ host[t] # 0 =>
       host'[t] # 0 \/ t \notin alive' \/ \A u \in Tabs : Tells(t, u, {"bye"}, out)
  /\ \A u \in Tabs : u # t /\ HasPort(t, u) => HasPort(t, u)' \/ Tells(t, u, Ends, out)
  /\ \A k \in DOMAIN out : out[k].k = "port" =>
       IF out[k].answer THEN host'[t] # 0 ELSE endpoint'[t].st = "open"

\* An envelope's fields.
LEMMA EnvelopeRead ==
  ASSUME NEW m \in Envelope
  PROVE  /\ m.from \in Tabs
         /\ m.k = "leader" => m.info \in Terms
         /\ m.k = "port" => m.id \in Posts /\ m.answer \in BOOLEAN
BY DEF Envelope, Message

\* What a sender says behind one of its messages stays behind it.
LEMMA BehindKept ==
  ASSUME NEW t \in Tabs, NEW n, NEW out, Flows(Envelope, t, n, out),
         n # 0 => \A k \in 1..(n - 1) : inbox[t][k].from # inbox[t][n].from,
         inbox \in [Tabs -> Seq(Envelope)],
         NEW u \in Tabs, Listens(u)', NEW j \in DOMAIN inbox[u], NEW kinds, SaysBehind(u, j, kinds),
         ~(u = t /\ j = n)
  PROVE  SaysBehind(u, NowAt(u, j, t, n), kinds)'
<1>1. n \in Nat /\ inbox[u] \in Seq(Envelope) /\ j \in 1..Len(inbox[u]) /\ inbox'[u] \in Seq(Envelope)
  BY DEF Flows
<1>2. PICK p \in (j + 1)..Len(inbox[u]) : inbox[u][p].from = inbox[u][j].from /\ inbox[u][p].k \in kinds
  BY DEF SaysBehind
<1>3. ~(u = t /\ p = n)
  <2> SUFFICES ASSUME u = t, p = n
               PROVE  FALSE
    OBVIOUS
  <2>1. n # 0 /\ j \in 1..(n - 1)
    BY <1>1, <1>2
  <2> QED
    BY <1>2, <2>1
<1>4. p \in DOMAIN inbox[u]
  BY <1>1, <1>2
<1>5. /\ NowAt(u, p, t, n) \in DOMAIN inbox'[u] /\ inbox'[u][NowAt(u, p, t, n)] = inbox[u][p]
  BY <1>3, <1>4 DEF Flows
<1>6. /\ NowAt(u, j, t, n) \in DOMAIN inbox'[u] /\ inbox'[u][NowAt(u, j, t, n)] = inbox[u][j]
  BY DEF Flows
<1>7. NowAt(u, p, t, n) >= NowAt(u, j, t, n) + 1 /\ NowAt(u, j, t, n) \in Nat /\ NowAt(u, p, t, n) \in Nat
  BY <1>1, <1>2, <1>3 DEF NowAt
<1>8. NowAt(u, p, t, n) \in (NowAt(u, j, t, n) + 1)..Len(inbox'[u])
  BY <1>1, <1>5, <1>7
<1> DEFINE pp == NowAt(u, p, t, n)
           jj == NowAt(u, j, t, n)
<1>9. pp \in (jj + 1)..Len(inbox'[u]) /\ inbox'[u][pp].from = inbox'[u][jj].from /\ inbox'[u][pp].k \in kinds
  BY <1>2, <1>5, <1>6, <1>8
<1> HIDE DEF pp, jj
<1> SUFFICES SaysBehind(u, jj, kinds)'
  BY DEF jj
<1> QED
  BY <1>9 DEF SaysBehind

\* What t tells u arrives behind everything that is there.
LEMMA ToldBehind ==
  ASSUME NEW t \in Tabs, NEW n, NEW out \in Seq(Envelope), Flows(Envelope, t, n, out),
         \A k \in DOMAIN out : out[k].from = t,
         inbox \in [Tabs -> Seq(Envelope)],
         NEW u \in Tabs, u # t, Listens(u)', NEW kinds, Tells(t, u, kinds, out)
  PROVE  \E p \in DOMAIN inbox'[u] :
           p > Len(inbox[u]) /\ inbox'[u][p].from = t /\ inbox'[u][p].k \in kinds
<1>1. PICK k \in DOMAIN out : out[k].k \in kinds /\ out[1].to \in {u, Nobody}
  BY DEF Tells
<1>2. k \in 1..Len(out) /\ out # <<>>
  BY <1>1
<1>3. Listens(t)
  BY DEF Tells
<1>4. Kept(u, t, n) + k \in DOMAIN inbox'[u] /\ inbox'[u][Kept(u, t, n) + k] = out[k]
  BY <1>1, <1>2, <1>3 DEF Flows
<1>5. Kept(u, t, n) = Len(inbox[u]) /\ Len(inbox[u]) \in Nat
  BY DEF Kept
<1>6. Kept(u, t, n) + k > Len(inbox[u])
  BY <1>2, <1>5
<1> QED
  BY <1>1, <1>4, <1>6

\* Hosts lead, one of them hosts, and what listens is open, after such a step.
LEMMA HostsKept ==
  ASSUME NEW t \in Tabs, NEW n, NEW out \in Seq(Envelope), Flows(Envelope, t, n, out),
         PortStep(t, n, out), HostLeads, OneHostServes, OpenListens
  PROVE  HostLeads' /\ OneHostServes' /\ OpenListens'
<1>1. \A u \in Tabs : u # t =>
        /\ host'[u] = host[u] /\ leader'[u] = leader[u] /\ info'[u] = info[u]
        /\ closed'[u] = closed[u] /\ (u \in alive' <=> u \in alive)
        /\ endpoint'[u] = endpoint[u] /\ served'[u] = served[u]
  BY DEF PortStep
<1>2. \A u \in Tabs : u # t => (Listens(u)' <=> Listens(u))
  BY <1>1 DEF Listens
<1>3. ASSUME NEW u \in Tabs
      PROVE  /\ host'[u] # 0 => leader'[u] = u
             /\ leader'[u] = u => host'[u] = info'[u]
             /\ leader'[u] # Nobody => info'[u] # 0 /\ Listens(u)'
  <2>1. CASE u = t
    BY <2>1 DEF PortStep
  <2>2. CASE u # t
    <3>1. /\ host[u] # 0 => leader[u] = u
          /\ leader[u] = u => host[u] = info[u]
          /\ leader[u] # Nobody => info[u] # 0 /\ Listens(u)
      BY DEF HostLeads
    <3> QED
      BY <1>1, <1>2, <2>2, <3>1
  <2> QED
    BY <2>1, <2>2
<1>4. ASSUME NEW u \in Tabs, ~Listens(u)'
      PROVE  inbox'[u] = <<>>
  BY <1>4 DEF Flows
<1>5. ASSUME NEW u \in Tabs, NEW k \in DOMAIN inbox'[u]
      PROVE  inbox'[u][k].from # u
  <2>1. CASE /\ WasAt(u, k, t, n) \in DOMAIN inbox[u]
             /\ inbox'[u][k] = inbox[u][WasAt(u, k, t, n)]
    BY <2>1 DEF HostLeads
  <2>2. CASE /\ k - Kept(u, t, n) \in DOMAIN out
             /\ inbox'[u][k] = out[k - Kept(u, t, n)]
             /\ u # t
    BY <2>2 DEF PortStep
  <2> QED
    BY <2>1, <2>2 DEF Flows
<1>6. HostLeads'
  BY <1>3, <1>4, <1>5 DEF HostLeads
<1>7. ASSUME NEW u \in Tabs, NEW v \in Tabs, host'[u] # 0, host'[v] # 0
      PROVE  u = v
  <2>1. host[u] # 0 /\ host[v] # 0 => u = v
    BY DEF OneHostServes
  <2>2. host'[t] # 0 => host[t] # 0 \/ NoHost
    BY DEF PortStep
  <2>3. CASE u # t /\ v # t
    BY <1>1, <1>7, <2>1, <2>3
  <2>4. CASE u = t /\ v # t
    BY <1>1, <1>7, <2>1, <2>2, <2>4 DEF NoHost
  <2>5. CASE u # t /\ v = t
    BY <1>1, <1>7, <2>1, <2>2, <2>5 DEF NoHost
  <2> QED
    BY <2>3, <2>4, <2>5
<1>8. ASSUME NEW u \in Tabs, NEW f \in Tabs
      PROVE  /\ served'[u][f].open => host'[u] # 0
             /\ ~served'[u][f].open => served'[u][f].todo = {}
  <2>1. CASE u = t
    BY <2>1 DEF PortStep
  <2>2. CASE u # t
    <3>1. /\ served[u][f].open => host[u] # 0
          /\ ~served[u][f].open => served[u][f].todo = {}
      BY DEF OneHostServes
    <3>2. host'[u] = host[u] /\ served'[u] = served[u]
      BY <1>1, <2>2
    <3> QED
      BY <3>1, <3>2
  <2> QED
    BY <2>1, <2>2
<1>9. OneHostServes'
  BY <1>7, <1>8 DEF OneHostServes
<1>10. ASSUME NEW u \in Tabs
       PROVE  /\ endpoint'[u].st = "open" => Listens(u)'
              /\ endpoint'[u].st = "none" => Waitless(endpoint'[u])
  <2>1. CASE u = t
    BY <2>1 DEF PortStep
  <2>2. CASE u # t
    <3>1. /\ endpoint[u].st = "open" => Listens(u)
          /\ endpoint[u].st = "none" => Waitless(endpoint[u])
      BY DEF OpenListens
    <3> QED
      BY <1>1, <1>2, <2>2, <3>1
  <2> QED
    BY <2>1, <2>2
<1>11. OpenListens'
  BY <1>10 DEF OpenListens
<1> QED
  BY <1>6, <1>9, <1>11

\* A port that f has is still there after a step of another tab.
LEMMA PortStays ==
  ASSUME NEW t \in Tabs, NEW n, NEW out, PortStep(t, n, out), NEW f \in Tabs, f # t, NEW u
  PROVE  HasPort(f, u)' <=> HasPort(f, u)
<1>1. (f \in alive' <=> f \in alive) /\ endpoint'[f] = endpoint[f]
  BY DEF PortStep
<1> QED
  BY <1>1 DEF HasPort

\* Ports end with their last message, after such a step.
LEMMA MessagesKept ==
  ASSUME NEW t \in Tabs, NEW n, NEW out \in Seq(Envelope), Flows(Envelope, t, n, out),
         PortStep(t, n, out), inbox \in [Tabs -> Seq(Envelope)], MessagesEndWithPort, HostLeads
  PROVE  MessagesEndWithPort'
<1> SUFFICES ASSUME NEW u \in Tabs, NEW k \in DOMAIN inbox'[u], inbox'[u][k].k = "port",
                    NEW f, f = inbox'[u][k].from
             PROVE  IF inbox'[u][k].answer
                    THEN host'[f] # 0 \/ f \notin alive' \/ SaysBehind(u, k, {"bye"})'
                    ELSE HasPort(f, u)' \/ SaysBehind(u, k, Ends)'
  BY DEF MessagesEndWithPort, Ends, HasPort
<1> DEFINE m == inbox'[u][k]
<1>1. m \in Envelope /\ inbox'[u] \in Seq(Envelope) /\ inbox[u] \in Seq(Envelope) /\ k \in Nat /\ n \in Nat /\ k # 0
  BY DEF Flows
<1>2. Listens(u)'
  BY DEF Flows
<1>3. f \in Tabs
  BY <1>1, EnvelopeRead
<1>4. \A v \in Tabs : v # t => host'[v] = host[v] /\ (v \in alive' <=> v \in alive)
  BY DEF PortStep
<1>5. \A j \in DOMAIN out : out[j].from = t
  BY DEF PortStep
<1>6. n # 0 => \A j \in 1..(n - 1) : inbox[t][j].from # inbox[t][n].from
  BY DEF PortStep
\* What t tells u comes behind message k, if that is one of t's that was there.
<1>7. ASSUME NEW kinds, f = t, u # t, k <= Kept(u, t, n), Tells(t, u, kinds, out)
      PROVE  SaysBehind(u, k, kinds)'
  <2>1. PICK p \in DOMAIN inbox'[u] :
          p > Len(inbox[u]) /\ inbox'[u][p].from = t /\ inbox'[u][p].k \in kinds
    BY <1>2, <1>5, <1>7, ToldBehind
  <2>2. Kept(u, t, n) = Len(inbox[u]) /\ Len(inbox[u]) \in Nat /\ p \in Nat
    BY <1>1, <1>7 DEF Kept
  <2>3. p \in (k + 1)..Len(inbox'[u])
    BY <1>1, <1>7, <2>1, <2>2
  <2>4. inbox'[u][p].from = inbox'[u][k].from
    BY <1>7, <2>1
  <2> QED
    BY <2>1, <2>3, <2>4 DEF SaysBehind
<1>8. CASE k <= Kept(u, t, n) /\ WasAt(u, k, t, n) \in DOMAIN inbox[u]
           /\ inbox'[u][k] = inbox[u][WasAt(u, k, t, n)]
  <2> DEFINE was == WasAt(u, k, t, n)
  <2>1. NowAt(u, was, t, n) = k /\ ~(u = t /\ was = n)
    BY <1>1 DEF NowAt, WasAt
  <2>2. f # u
    BY <1>8 DEF HostLeads
  <2>3. ASSUME NEW kinds, SaysBehind(u, was, kinds)
        PROVE  SaysBehind(u, k, kinds)'
    <3>1. SaysBehind(u, NowAt(u, was, t, n), kinds)'
      BY <1>2, <1>6, <1>8, <2>1, <2>3, BehindKept
    <3>2. NowAt(u, was, t, n) = k
      BY <2>1
    <3> QED
      BY <3>1, <3>2 DEF SaysBehind
  <2>4. IF m.answer THEN host[f] # 0 \/ f \notin alive \/ SaysBehind(u, was, {"bye"})
        ELSE HasPort(f, u) \/ SaysBehind(u, was, Ends)
    BY <1>8 DEF MessagesEndWithPort, Ends
  <2>5. CASE m.answer
    <3>1. CASE host[f] # 0
      <4>1. CASE f # t
        BY <1>3, <1>4, <2>5, <3>1, <4>1
      <4>2. CASE f = t
        <5>1. host'[t] # 0 \/ t \notin alive' \/ Tells(t, u, {"bye"}, out)
          BY <3>1, <4>2 DEF PortStep
        <5>2. u # t
          BY <2>2, <4>2
        <5> QED
          BY <1>7, <1>8, <2>5, <4>2, <5>1, <5>2
      <4> QED
        BY <4>1, <4>2
    <3>2. CASE f \notin alive
      <4>1. f # t
        BY <3>2 DEF PortStep
      <4> QED
        BY <1>3, <1>4, <2>5, <3>2, <4>1
    <3> QED
      BY <2>3, <2>4, <2>5, <3>1, <3>2
  <2>6. CASE ~m.answer
    <3>1. CASE HasPort(f, u)
      <4>1. CASE f # t
        <5>1. HasPort(f, u)'
          BY <1>3, <3>1, <4>1, PortStays
        <5> QED
          BY <2>6, <5>1
      <4>2. CASE f = t
        <5>2. u # t
          BY <2>2, <4>2
        <5>1. HasPort(t, u)' \/ Tells(t, u, Ends, out)
          BY <3>1, <4>2, <5>2 DEF PortStep
        <5>3. CASE HasPort(t, u)'
          <6>1. HasPort(f, u)'
            BY <4>2, <5>3 DEF HasPort
          <6> QED
            BY <2>6, <6>1
        <5>4. CASE Tells(t, u, Ends, out)
          BY <1>7, <1>8, <2>6, <4>2, <5>2, <5>4
        <5> QED
          BY <5>1, <5>3, <5>4
      <4> QED
        BY <4>1, <4>2
    <3> QED
      BY <2>3, <2>4, <2>6, <3>1
  <2> QED
    BY <2>5, <2>6
<1>9. CASE /\ k - Kept(u, t, n) \in DOMAIN out /\ inbox'[u][k] = out[k - Kept(u, t, n)]
  <2> DEFINE j == k - Kept(u, t, n)
  <2>1. j \in DOMAIN out /\ out[j].k = "port" /\ m = out[j] /\ f = t
    BY <1>5, <1>9
  <2> HIDE DEF j, m
  <2>2. IF out[j].answer THEN host'[t] # 0 ELSE endpoint'[t].st = "open"
    BY <2>1 DEF PortStep
  <2>3. CASE out[j].answer
    <3>1. m.answer /\ host'[f] # 0
      BY <2>1, <2>2, <2>3
    <3> QED
      BY <3>1 DEF m
  <2>4. CASE ~out[j].answer
    <3>1. ~m.answer /\ HasPort(f, u)'
      BY <2>1, <2>2, <2>4 DEF HasPort
    <3> QED
      BY <3>1 DEF m
  <2> QED
    BY <2>3, <2>4
<1> QED
  BY <1>8, <1>9 DEF Flows

\* What the end of a port has said to u stays on its way unless t = u takes it.
LEMMA EndStays ==
  ASSUME NEW t \in Tabs, NEW n, NEW out, Flows(Envelope, t, n, out),
         NEW u \in Tabs, Listens(u)', NEW p \in DOMAIN inbox[u],
         NEW f, inbox[u][p].from = f, inbox[u][p].k \in Ends, ~(u = t /\ p = n)
  PROVE  EndsAt(u, f)'
<1>1. NowAt(u, p, t, n) \in DOMAIN inbox'[u] /\ inbox'[u][NowAt(u, p, t, n)] = inbox[u][p]
  BY DEF Flows
<1> QED
  BY <1>1 DEF EndsAt, Ends

\* No port is stranded after such a step.
LEMMA StrandKept ==
  ASSUME NEW t \in Tabs, NEW n, NEW out \in Seq(Envelope), Flows(Envelope, t, n, out),
         PortStep(t, n, out), inbox \in [Tabs -> Seq(Envelope)], PortsInv
  PROVE  NoStrandedPort'
<1>1. HostLeads' /\ OneHostServes' /\ OpenListens'
  BY HostsKept DEF PortsInv
<1>2. \A u \in Tabs : u # t =>
        /\ leader'[u] = leader[u] /\ host'[u] = host[u]
        /\ endpoint'[u] = endpoint[u] /\ served'[u] = served[u]
  BY DEF PortStep
<1>3. ASSUME NEW u \in Tabs, endpoint'[u].st = "open"
      PROVE  /\ endpoint'[u].queued # <<>> => leader'[u] = Nobody /\ Listens(u)'
             /\ endpoint'[u].inFlight # {} => leader'[u] # Nobody /\ Listens(u)'
  <2>1. Listens(u)'
    BY <1>1, <1>3 DEF OpenListens
  <2>2. CASE u = t
    BY <1>3, <2>1, <2>2 DEF PortStep
  <2>3. CASE u # t
    <3>1. endpoint[u].st = "open" =>
            /\ endpoint[u].queued # <<>> => leader[u] = Nobody
            /\ endpoint[u].inFlight # {} => leader[u] # Nobody
      BY DEF PortsInv, NoStrandedPort
    <3> QED
      BY <1>2, <1>3, <2>1, <2>3, <3>1
  <2> QED
    BY <2>2, <2>3
<1>4. ASSUME NEW u \in Tabs, NEW f \in Tabs, f # u, served'[u][f].open
      PROVE  host'[u] # 0 /\ (HasPort(f, u)' \/ EndsAt(u, f)')
  <2>1. host'[u] # 0
    BY <1>1, <1>4 DEF OneHostServes
  <2>2. Listens(u)'
    <3>1. (host'[u] # 0 => leader'[u] = u) /\ (leader'[u] # Nobody => Listens(u)')
      BY <1>1 DEF HostLeads
    <3> QED
      BY <2>1, <3>1, TabsAssumption
  <2>3. served[u][f].open => HasPort(f, u) \/ EndsAt(u, f)
    BY <1>4 DEF PortsInv, NoStrandedPort, HasPort
  <2>4. ASSUME NEW p \in DOMAIN inbox[u], inbox[u][p].from = f, inbox[u][p].k \in Ends, ~(u = t /\ p = n)
        PROVE  EndsAt(u, f)'
    BY <2>2, <2>4, EndStays
  <2>5. CASE u = t
    <3>1. f # t
      BY <1>4, <2>5
    <3>2. HasPort(f, u)' <=> HasPort(f, u)
      BY <3>1, PortStays
    <3>3. CASE served[u][f].open /\ ~(n # 0 /\ inbox[t][n].from = f /\ inbox[t][n].k \in Ends)
      <4>1. CASE EndsAt(u, f)
        <5>1. PICK p \in DOMAIN inbox[u] : inbox[u][p].from = f /\ inbox[u][p].k \in Ends
          BY <4>1 DEF EndsAt, Ends
        <5>2. p # 0
          OBVIOUS
        <5>3. ~(u = t /\ p = n)
          BY <3>3, <5>1, <5>2, <2>5
        <5> QED
          BY <2>1, <2>4, <5>1, <5>3
      <4> QED
        BY <2>1, <2>3, <3>2, <3>3, <4>1
    <3>4. CASE n # 0 /\ inbox[t][n].from = f /\ inbox[t][n].k = "port" /\ host[t] # 0
      <4> DEFINE m == inbox[t][n]
      <4>1. n \in DOMAIN inbox[t] /\ n \in Nat /\ inbox[t] \in Seq(Envelope)
        BY <3>4 DEF Flows
      <4>2. IF m.answer THEN host[f] # 0 \/ f \notin alive \/ SaysBehind(t, n, {"bye"})
            ELSE HasPort(f, t) \/ SaysBehind(t, n, Ends)
        BY <3>4, <4>1 DEF PortsInv, MessagesEndWithPort, Ends
      <4>3. host[f] = 0
        BY <3>1, <3>4 DEF PortsInv, OneHostServes
      <4>4. HasPort(f, t) \/ SaysBehind(t, n, Ends)
        <5>1. f \notin alive => HasPort(f, t)
          BY DEF HasPort
        <5>2. SaysBehind(t, n, {"bye"}) => SaysBehind(t, n, Ends)
          BY DEF SaysBehind, Ends
        <5> QED
          BY <4>2, <4>3, <5>1, <5>2
      <4>5. CASE SaysBehind(t, n, Ends)
        <5>1. PICK p \in (n + 1)..Len(inbox[t]) : inbox[t][p].from = inbox[t][n].from /\ inbox[t][p].k \in Ends
          BY <4>5 DEF SaysBehind
        <5>2. p \in DOMAIN inbox[u] /\ p # n /\ inbox[u][p].from = f /\ inbox[u][p].k \in Ends
          BY <2>5, <3>4, <4>1, <5>1
        <5> QED
          BY <2>1, <2>4, <5>2
      <4> QED
        BY <2>1, <2>5, <3>2, <4>4, <4>5
    <3> QED
      BY <1>4, <2>5, <3>1, <3>3, <3>4 DEF PortStep
  <2>6. CASE u # t
    <3>1. served[u][f].open
      BY <1>2, <1>4, <2>6
    <3>2. CASE EndsAt(u, f)
      <4>1. PICK p \in DOMAIN inbox[u] : inbox[u][p].from = f /\ inbox[u][p].k \in Ends
        BY <3>2 DEF EndsAt, Ends
      <4> QED
        BY <2>1, <2>4, <2>6, <4>1
    <3>3. CASE HasPort(f, u) /\ f # t
      BY <2>1, <3>3, PortStays
    <3>4. CASE HasPort(f, u) /\ f = t
      <4>1. HasPort(t, u)' \/ Tells(t, u, Ends, out)
        BY <2>6, <3>4 DEF PortStep
      <4>2. CASE HasPort(t, u)'
        BY <2>1, <3>4, <4>2 DEF HasPort
      <4>3. CASE Tells(t, u, Ends, out)
        <5>1. \A j \in DOMAIN out : out[j].from = t
          BY DEF PortStep
        <5>2. PICK p \in DOMAIN inbox'[u] :
                p > Len(inbox[u]) /\ inbox'[u][p].from = t /\ inbox'[u][p].k \in Ends
          BY <2>2, <2>6, <4>3, <5>1, ToldBehind
        <5>3. EndsAt(u, f)'
          BY <3>4, <5>2 DEF EndsAt, Ends
        <5> QED
          BY <2>1, <5>3
      <4> QED
        BY <4>1, <4>2, <4>3
    <3> QED
      BY <2>3, <3>1, <3>2, <3>3, <3>4
  <2> QED
    BY <2>5, <2>6
<1>5. ASSUME NEW u \in Tabs, NEW f \in Tabs, f # u, served'[u][f].open
      PROVE  /\ host'[u] # 0
             /\ \/ endpoint'[f].st = "open" \/ (endpoint'[f].st = "closed" /\ u \notin endpoint'[f].told)
                \/ EndsAt(u, f)' \/ f \notin alive'
  BY <1>4, <1>5 DEF HasPort
<1> QED
  BY <1>3, <1>5 DEF NoStrandedPort

\* PortsInv is kept by any step that PortStep describes.
LEMMA PortsKept ==
  ASSUME NEW t \in Tabs, NEW n, NEW out \in Seq(Envelope), Flows(Envelope, t, n, out),
         PortStep(t, n, out), inbox \in [Tabs -> Seq(Envelope)], PortsInv
  PROVE  PortsInv'
<1>1. HostLeads' /\ OneHostServes' /\ OpenListens'
  BY HostsKept DEF PortsInv
<1>2. MessagesEndWithPort'
  BY MessagesKept DEF PortsInv
<1>3. NoStrandedPort'
  BY StrandKept
<1> QED
  BY <1>1, <1>2, <1>3 DEF PortsInv

-----------------------------------------------------------------------------
(* The values of the ports' state, and what changes them.                  *)

EndpointRecord ==
  [st : {"none", "open", "closed"}, next : 1..(MaxPosts + 1), queued : Seq(Posts), inFlight : SUBSET Posts, told : SUBSET Tabs]

ServedRecord == [open : BOOLEAN, todo : SUBSET Posts]

MicroRecord(t) == [k : {"port"}, from : {t}, to : {t}, id : Posts, answer : BOOLEAN]

\* What they say, piece by piece.
LEMMA PortTypes ==
  ASSUME PortsTypeOK
  PROVE  /\ endpoint \in [Tabs -> EndpointRecord]
         /\ served \in [Tabs -> [Tabs -> ServedRecord]]
         /\ DOMAIN micro = Tabs /\ \A t \in Tabs : micro[t] \in Seq(MicroRecord(t))
BY DEF PortsTypeOK, EndpointRecord, ServedRecord, MicroRecord

\* The same of the next state.
LEMMA PortTypesNext ==
  ASSUME endpoint' \in [Tabs -> EndpointRecord], served' \in [Tabs -> [Tabs -> ServedRecord]],
         DOMAIN micro' = Tabs, \A t \in Tabs : micro'[t] \in Seq(MicroRecord(t))
  PROVE  PortsTypeOK'
BY DEF PortsTypeOK, EndpointRecord, ServedRecord, MicroRecord

\* The fields of an endpoint.
LEMMA EndpointRead ==
  ASSUME NEW e \in EndpointRecord
  PROVE  /\ e.st \in {"none", "open", "closed"} /\ e.next \in 1..(MaxPosts + 1)
         /\ e.queued \in Seq(Posts) /\ e.inFlight \in SUBSET Posts /\ e.told \in SUBSET Tabs
BY DEF EndpointRecord

\* With no calls, none waits and #setLeader dispatches nothing.
LEMMA NobodyCalls ==
  ASSUME ChannelTypeOK, NEW t \in Tabs
  PROVE  /\ \A l, i : CallsUnder(t, l, i) = [id \in Calls |-> Idle]
         /\ \A l : Dispatched(t, l) = <<>>
<1>1. \A id \in Calls : calls[t][id] = Idle
  BY DEF ChannelTypeOK
<1>2. Idle.st = "none"
  BY DEF Idle
<1>3. Waiting(t) = {}
  BY <1>1, <1>2 DEF Waiting
<1>4. Cardinality({}) = 0
  BY FS_EmptySet
<1>5. ASSUME NEW l
      PROVE  Dispatched(t, l) = <<>>
  BY <1>3, <1>4 DEF Dispatched
<1>6. ASSUME NEW l, NEW i
      PROVE  CallsUnder(t, l, i) = [id \in Calls |-> Idle]
  BY <1>1, <1>2 DEF CallsUnder
<1> QED
  BY <1>5, <1>6

\* #setLeader leaves the calls as they are, and the other tabs.
LEMMA LeaderTyped ==
  ASSUME ChannelTypeOK, NEW t \in Tabs, NEW l \in Tabs \cup {Nobody}, NEW i \in 0..MaxTerms,
         NEW h \in 0..MaxTerms, SetLeader(t, l, i, h)
  PROVE  /\ host' \in [Tabs -> 0..MaxTerms] /\ info' \in [Tabs -> 0..MaxTerms]
         /\ leader' \in [Tabs -> Tabs \cup {Nobody}]
         /\ calls' = calls
         /\ host'[t] = h /\ leader'[t] = l /\ info'[t] = i
         /\ \A u \in Tabs : u # t => host'[u] = host[u] /\ leader'[u] = leader[u] /\ info'[u] = info[u]
<1>1. /\ host' = [host EXCEPT ![t] = h] /\ leader' = [leader EXCEPT ![t] = l]
      /\ info' = [info EXCEPT ![t] = i] /\ calls' = [calls EXCEPT ![t] = CallsUnder(t, l, i)]
  BY DEF SetLeader
<1>2. /\ host \in [Tabs -> 0..MaxTerms] /\ info \in [Tabs -> 0..MaxTerms]
      /\ leader \in [Tabs -> Tabs \cup {Nobody}]
      /\ calls = [u \in Tabs |-> [id \in Calls |-> Idle]]
  BY DEF ChannelTypeOK
<1>3. CallsUnder(t, l, i) = calls[t]
  BY <1>2, NobodyCalls
<1>4. calls' = calls
  BY <1>1, <1>2, <1>3
<1> QED
  BY <1>1, <1>2, <1>4

\* What a tab's fields are once it knows no leader.
LEMMA LeaderLeft ==
  ASSUME ChannelTypeOK, NEW t \in Tabs, SetLeader(t, Nobody, 0, 0)
  PROVE  /\ host' \in [Tabs -> 0..MaxTerms] /\ info' \in [Tabs -> 0..MaxTerms]
         /\ leader' \in [Tabs -> Tabs \cup {Nobody}]
         /\ calls' = calls
         /\ host'[t] = 0 /\ leader'[t] = Nobody /\ info'[t] = 0
         /\ \A u \in Tabs : u # t => host'[u] = host[u] /\ leader'[u] = leader[u] /\ info'[u] = info[u]
<1>1. 0 \in 0..MaxTerms /\ Nobody \in Tabs \cup {Nobody}
  BY BridgeAssumption
<1> QED
  BY <1>1, LeaderTyped

\* A list of members of a set.
LEMMA Listed ==
  ASSUME NEW S, NEW len \in Nat, NEW s \in [1..len -> S]
  PROVE  s \in Seq(S)
OBVIOUS

\* The requests that wait are messages to the new leader.
LEMMA Flushed ==
  ASSUME PortsTypeOK, NEW t \in Tabs, NEW to \in Tabs
  PROVE  /\ Flush(t, to) \in Seq(Envelope)
         /\ \A k \in DOMAIN Flush(t, to) :
              /\ Flush(t, to)[k].k = "port" /\ Flush(t, to)[k].from = t /\ Flush(t, to)[k].to = to
              /\ ~Flush(t, to)[k].answer /\ endpoint[t].st = "open"
         /\ to = t => Flush(t, to) \in Seq(MicroRecord(t))
<1>1. endpoint[t].queued \in Seq(Posts)
  BY PortTypes, EndpointRead
<1>2. CASE endpoint[t].st # "open"
  BY <1>2 DEF Flush
<1>3. CASE endpoint[t].st = "open"
  <2> DEFINE q == endpoint[t].queued
             s == [n \in DOMAIN q |-> PortMessage(t, to, q[n], FALSE)]
  <2>1. Flush(t, to) = s
    BY <1>3 DEF Flush
  <2>2. \A x \in Posts :
          /\ PortMessage(t, to, x, FALSE) \in Envelope
          /\ to = t => PortMessage(t, to, x, FALSE) \in MicroRecord(t)
          /\ PortMessage(t, to, x, FALSE).k = "port" /\ PortMessage(t, to, x, FALSE).from = t
          /\ PortMessage(t, to, x, FALSE).to = to /\ ~PortMessage(t, to, x, FALSE).answer
    BY DEF PortMessage, Envelope, MicroRecord
  <2>3. q \in Seq(Posts)
    BY <1>1
  <2> HIDE DEF q
  <2>4. Len(q) \in Nat /\ DOMAIN q = 1..Len(q) /\ \A n \in 1..Len(q) : q[n] \in Posts
    BY <2>3
  <2>5. DOMAIN s = 1..Len(q) /\ \A k \in DOMAIN s : s[k] = PortMessage(t, to, q[k], FALSE) /\ q[k] \in Posts
    BY <2>4
  <2>6. s = [k \in 1..Len(q) |-> s[k]]
    BY <2>4
  <2> HIDE DEF s
  <2>7. s \in Seq(Envelope)
    <3>1. s \in [1..Len(q) -> Envelope]
      BY <2>2, <2>5, <2>6
    <3> QED
      BY <2>4, <3>1, Listed
  <2>8. to = t => s \in Seq(MicroRecord(t))
    <3>1. to = t => s \in [1..Len(q) -> MicroRecord(t)]
      BY <2>2, <2>5, <2>6
    <3> QED
      BY <2>4, <3>1, Listed
  <2>9. \A k \in DOMAIN s : s[k].k = "port" /\ s[k].from = t /\ s[k].to = to /\ ~s[k].answer
    <3>1. ASSUME NEW k \in DOMAIN s
          PROVE  s[k] = PortMessage(t, to, q[k], FALSE) /\ q[k] \in Posts
      BY <2>5
    <3> QED
      BY <2>2, <3>1
  <2> QED
    BY <1>3, <2>1, <2>7, <2>8, <2>9
<1> QED
  BY <1>2, <1>3

\* The endpoint of a tab under its new leader.
LEMMA UnderLeader ==
  ASSUME NEW e \in EndpointRecord, NEW from, NEW to,
         e.st = "open" /\ e.inFlight # {} => from # Nobody
  PROVE  /\ EndpointUnder(e, from, to) \in EndpointRecord
         /\ EndpointUnder(e, from, to).st = e.st /\ EndpointUnder(e, from, to).told = e.told
         /\ e.st # "open" => EndpointUnder(e, from, to) = e
         /\ e.st = "open" =>
              /\ EndpointUnder(e, from, to).queued # <<>> => to = Nobody
              /\ EndpointUnder(e, from, to).inFlight # {} => to # Nobody
<1> DEFINE left == IF from = to THEN e.inFlight ELSE {}
           sent == left \cup {e.queued[n] : n \in DOMAIN e.queued}
<1>1. left \in SUBSET Posts /\ sent \in SUBSET Posts
  BY EndpointRead
<1>2. CASE e.st # "open"
  BY <1>2 DEF EndpointUnder
<1>3. CASE e.st = "open" /\ to = Nobody
  <2>1. EndpointUnder(e, from, to) = [e EXCEPT !.inFlight = left]
    BY <1>3 DEF EndpointUnder
  <2>2. left = {}
    BY <1>3
  <2> HIDE DEF left
  <2> QED
    BY <1>1, <1>3, <2>1, <2>2 DEF EndpointRecord
<1>4. CASE e.st = "open" /\ to # Nobody
  <2>1. EndpointUnder(e, from, to) = [e EXCEPT !.inFlight = sent, !.queued = <<>>]
    BY <1>4 DEF EndpointUnder
  <2> HIDE DEF left, sent
  <2>2. <<>> \in Seq(Posts)
    OBVIOUS
  <2> QED
    BY <1>1, <1>4, <2>1, <2>2 DEF EndpointRecord
<1> QED
  BY <1>2, <1>3, <1>4

\* What #setLeader does to t's endpoint and microtasks.
LEMMA Followed ==
  ASSUME PortsTypeOK, PortsInv, NEW t \in Tabs, FollowLeader(t)
  PROVE  /\ endpoint' \in [Tabs -> EndpointRecord]
         /\ DOMAIN micro' = Tabs /\ \A u \in Tabs : micro'[u] \in Seq(MicroRecord(u))
         /\ \A u \in Tabs : u # t => endpoint'[u] = endpoint[u]
         /\ endpoint'[t].st = endpoint[t].st /\ endpoint'[t].told = endpoint[t].told
         /\ endpoint'[t].st = "none" => Waitless(endpoint'[t])
         /\ endpoint[t].st = "open" =>
              /\ endpoint'[t].queued # <<>> => leader'[t] = Nobody
              /\ endpoint'[t].inFlight # {} => leader'[t] # Nobody
<1>1. endpoint \in [Tabs -> EndpointRecord] /\ DOMAIN micro = Tabs /\ \A u \in Tabs : micro[u] \in Seq(MicroRecord(u))
  BY PortTypes
<1>2. endpoint' = [endpoint EXCEPT ![t] = EndpointUnder(endpoint[t], leader[t], leader'[t])]
  BY DEF FollowLeader
<1>3. /\ endpoint[t].st = "open" /\ endpoint[t].inFlight # {} => leader[t] # Nobody
      /\ endpoint[t].st = "none" => Waitless(endpoint[t])
  BY DEF PortsInv, NoStrandedPort, OpenListens
<1> DEFINE e == EndpointUnder(endpoint[t], leader[t], leader'[t])
<1>4. /\ e \in EndpointRecord /\ e.st = endpoint[t].st /\ e.told = endpoint[t].told
      /\ e.st = "none" => Waitless(e)
      /\ endpoint[t].st = "open" =>
           /\ e.queued # <<>> => leader'[t] = Nobody
           /\ e.inFlight # {} => leader'[t] # Nobody
  BY <1>1, <1>3, UnderLeader
<1> HIDE DEF e
<1>5. endpoint' = [endpoint EXCEPT ![t] = e]
  BY <1>2 DEF e
<1>6. DOMAIN micro' = Tabs /\ \A u \in Tabs : micro'[u] \in Seq(MicroRecord(u))
  <2>1. CASE leader'[t] = t
    <3>1. micro' = [micro EXCEPT ![t] = micro[t] \o Flush(t, t)]
      BY <2>1 DEF FollowLeader
    <3>2. Flush(t, t) \in Seq(MicroRecord(t)) /\ micro[t] \in Seq(MicroRecord(t))
      BY <1>1, Flushed
    <3>3. micro[t] \o Flush(t, t) \in Seq(MicroRecord(t))
      BY <3>2
    <3>4. ASSUME NEW u \in Tabs
          PROVE  micro'[u] \in Seq(MicroRecord(u))
      BY <1>1, <3>1, <3>3, <3>4
    <3>5. DOMAIN micro' = Tabs
      BY <1>1, <3>1
    <3> QED
      BY <3>4, <3>5
  <2>2. CASE leader'[t] # t
    BY <1>1, <2>2 DEF FollowLeader
  <2> QED
    BY <2>1, <2>2
<1> QED
  BY <1>1, <1>4, <1>5, <1>6

\* The ports that a host that stops leaves behind.
LEMMA Stopped ==
  ASSUME PortsTypeOK, NEW t \in Tabs, StopServing(t)
  PROVE  /\ served' \in [Tabs -> [Tabs -> ServedRecord]]
         /\ \A u \in Tabs : u # t => served'[u] = served[u]
         /\ \A f \in Tabs : ~served'[t][f].open /\ served'[t][f].todo = {}
<1>1. served \in [Tabs -> [Tabs -> ServedRecord]]
  BY PortTypes
<1>2. Free \in ServedRecord /\ ~Free.open /\ Free.todo = {}
  BY DEF Free, ServedRecord
<1> QED
  BY <1>1, <1>2 DEF StopServing

-----------------------------------------------------------------------------
(* The steps of BridgePorts.                                               *)

\* A step that posts is one of the channel.
LEMMA PortsSent ==
  ASSUME ChannelTypeOK, HostLeads, UNCHANGED <<alive, closed>>, NEW t \in Tabs,
         NEW out \in Seq(Envelope), inbox' = Post(inbox, t, out)
  PROVE  Flows(Envelope, t, 0, out)
<1>1. inbox \in [Tabs -> Seq(Envelope)] /\ 0 \in 0..Len(inbox[t])
  BY DEF ChannelTypeOK
<1>2. \A r \in Tabs : Listens(r)' <=> Listens(r)
  BY DEF Listens
<1> QED
  BY <1>1, <1>2, Flow

\* So is one that takes a message and posts.
LEMMA PortsTaken ==
  ASSUME ChannelTypeOK, HostLeads, UNCHANGED <<alive, closed>>, NEW t \in Tabs,
         NEW n \in 1..Len(inbox[t]), NEW out \in Seq(Envelope), TakeAndPost(t, n, out)
  PROVE  Flows(Envelope, t, n, out)
<1>1. inbox \in [Tabs -> Seq(Envelope)] /\ n \in 0..Len(inbox[t]) /\ n # 0
  BY DEF ChannelTypeOK
<1>2. \A r \in Tabs : Listens(r)' <=> Listens(r)
  BY DEF Listens
<1>3. inbox' = Post([inbox EXCEPT ![t] = Without(@, n)], t, out)
  BY DEF TakeAndPost
<1> QED
  BY <1>1, <1>2, <1>3, Flow

\* Envelopes that are posted alone.
LEMMA OneEnvelope ==
  ASSUME NEW m \in Envelope
  PROVE  /\ <<m>> \in Seq(Envelope) /\ <<m>> # <<>>
         /\ \A k \in DOMAIN <<m>> : k = 1 /\ <<m>>[k] = m
         /\ <<m>>[1] = m /\ 1 \in DOMAIN <<m>>
OBVIOUS

\* No envelope is posted.
LEMMA NoEnvelope == <<>> \in Seq(Envelope) /\ DOMAIN <<>> = {}
OBVIOUS

\* The envelopes of the ports' steps.
LEMMA EnvelopesMade ==
  ASSUME NEW t \in Tabs
  PROVE  /\ Hello(t) \in Envelope /\ Bye(t) \in Envelope
         /\ \A i \in Terms : Leader(t, i) \in Envelope
         /\ \A to \in Tabs, id \in Posts, answer \in BOOLEAN : PortMessage(t, to, id, answer) \in Envelope
         /\ \A to \in Tabs : PortClose(t, to) \in Envelope
BY MessagesMade DEF Envelope, PortMessage, PortClose

\* What t tells everybody when it leaves.
LEMMA ByeTells ==
  ASSUME NEW t \in Tabs, Listens(t), NEW u, NEW kinds, "bye" \in kinds
  PROVE  Tells(t, u, kinds, <<Bye(t)>>)
BY DEF Tells, Bye

\* Types of the channel in a state with the same alive, closed and terms.
LEMMA ChannelNext ==
  ASSUME ChannelTypeOK, UNCHANGED <<alive, closed, calls>>, NEW t \in Tabs, NEW n, NEW out,
         Flows(Envelope, t, n, out),
         host' \in [Tabs -> 0..MaxTerms], info' \in [Tabs -> 0..MaxTerms],
         leader' \in [Tabs -> Tabs \cup {Nobody}], terms' \in 0..MaxTerms
  PROVE  ChannelTypeOK'
BY DEF ChannelTypeOK, Flows

\* becomeLeader, with the ports that waited for a leader.
LEMMA PortsLeadKeeps ==
  ASSUME PortsTypeOK, ChannelTypeOK, PortsInv, NEW t \in Tabs, PortsLead(t)
  PROVE  PortsTypeOK' /\ ChannelTypeOK' /\ PortsInv'
<1> DEFINE new == terms + 1
           out == <<Leader(t, new)>>
<1>1. /\ Listens(t) /\ NoHost /\ terms < MaxTerms /\ terms' = new
      /\ SetLeader(t, t, new, new) /\ inbox' = Post(inbox, t, out)
      /\ UNCHANGED <<alive, closed>> /\ FollowLeader(t) /\ served' = served
  BY DEF PortsLead, Lead, BecomeLeader
<1>2. new \in Terms /\ new \in 0..MaxTerms /\ new # 0
  BY <1>1, BridgeAssumption DEF ChannelTypeOK, Terms
<1>3. Leader(t, new) \in Envelope /\ Leader(t, new).from = t /\ Leader(t, new).k = "leader"
  BY <1>2, EnvelopesMade DEF Leader
<1> HIDE DEF new
<1>4. /\ out \in Seq(Envelope) /\ \A k \in DOMAIN out : out[k] = Leader(t, new)
  BY <1>3, OneEnvelope
<1> HIDE DEF out
<1>5. Flows(Envelope, t, 0, out)
  BY <1>1, <1>4, PortsSent DEF PortsInv
<1>6. /\ host' \in [Tabs -> 0..MaxTerms] /\ info' \in [Tabs -> 0..MaxTerms]
      /\ leader' \in [Tabs -> Tabs \cup {Nobody}] /\ calls' = calls
      /\ host'[t] = new /\ leader'[t] = t /\ info'[t] = new
      /\ \A u \in Tabs : u # t => host'[u] = host[u] /\ leader'[u] = leader[u] /\ info'[u] = info[u]
  BY <1>1, <1>2, LeaderTyped
<1>7. ChannelTypeOK'
  BY <1>1, <1>2, <1>5, <1>6, ChannelNext
<1>8. /\ endpoint' \in [Tabs -> EndpointRecord]
      /\ DOMAIN micro' = Tabs /\ \A u \in Tabs : micro'[u] \in Seq(MicroRecord(u))
      /\ \A u \in Tabs : u # t => endpoint'[u] = endpoint[u]
      /\ endpoint'[t].st = endpoint[t].st /\ endpoint'[t].told = endpoint[t].told
      /\ endpoint'[t].st = "none" => Waitless(endpoint'[t])
      /\ endpoint[t].st = "open" =>
           /\ endpoint'[t].queued # <<>> => leader'[t] = Nobody
           /\ endpoint'[t].inFlight # {} => leader'[t] # Nobody
  BY <1>1, Followed
<1>9. PortsTypeOK'
  BY <1>1, <1>8, PortTypes, PortTypesNext
<1>10. Listens(t)' /\ t \in alive
  BY <1>1 DEF Listens
<1>11. /\ \A f \in Tabs : ~served[t][f].open /\ served[t][f].todo = {}
       /\ host[t] = 0
  BY <1>1 DEF NoHost, PortsInv, OneHostServes
<1>12. \A u \in Tabs : HasPort(t, u) => HasPort(t, u)'
  BY <1>1, <1>8 DEF HasPort
<1>13. PortStep(t, 0, out)
  BY <1>1, <1>2, <1>3, <1>4, <1>6, <1>8, <1>10, <1>11, <1>12 DEF PortStep
<1>14. inbox \in [Tabs -> Seq(Envelope)]
  BY DEF ChannelTypeOK
<1> QED
  BY <1>4, <1>5, <1>7, <1>9, <1>13, <1>14, PortsKept

\* stepDown and leave, with their ports: a bye ends what t serves.
LEMMA PortsLeavingKeeps ==
  ASSUME PortsTypeOK, ChannelTypeOK, PortsInv, NEW t \in Tabs, Listens(t),
         SetLeader(t, Nobody, 0, 0), inbox' = Post(inbox, t, <<Bye(t)>>),
         UNCHANGED <<alive, closed, terms>>, FollowLeader(t), StopServing(t)
  PROVE  PortsTypeOK' /\ ChannelTypeOK' /\ PortsInv'
<1>1. Bye(t) \in Envelope /\ Bye(t).from = t /\ Bye(t).k = "bye"
  BY EnvelopesMade DEF Bye
<1>2. /\ <<Bye(t)>> \in Seq(Envelope) /\ \A k \in DOMAIN <<Bye(t)>> : <<Bye(t)>>[k] = Bye(t)
  BY <1>1, OneEnvelope
<1>3. \A u \in Tabs : Tells(t, u, {"bye"}, <<Bye(t)>>)
  BY ByeTells
<1> DEFINE out == <<Bye(t)>>
<1> HIDE DEF out
<1>4. Flows(Envelope, t, 0, out)
  BY <1>2, PortsSent DEF PortsInv, out
<1>5. 0 \in 0..MaxTerms
  BY BridgeAssumption
<1>6. /\ host' \in [Tabs -> 0..MaxTerms] /\ info' \in [Tabs -> 0..MaxTerms]
      /\ leader' \in [Tabs -> Tabs \cup {Nobody}] /\ calls' = calls
      /\ host'[t] = 0 /\ leader'[t] = Nobody /\ info'[t] = 0
      /\ \A u \in Tabs : u # t => host'[u] = host[u] /\ leader'[u] = leader[u] /\ info'[u] = info[u]
  BY <1>5, LeaderTyped
<1>7. terms' \in 0..MaxTerms
  BY DEF ChannelTypeOK
<1>8. ChannelTypeOK'
  BY <1>4, <1>6, <1>7, ChannelNext
<1>9. /\ endpoint' \in [Tabs -> EndpointRecord]
      /\ DOMAIN micro' = Tabs /\ \A u \in Tabs : micro'[u] \in Seq(MicroRecord(u))
      /\ \A u \in Tabs : u # t => endpoint'[u] = endpoint[u]
      /\ endpoint'[t].st = endpoint[t].st /\ endpoint'[t].told = endpoint[t].told
      /\ endpoint'[t].st = "none" => Waitless(endpoint'[t])
      /\ endpoint[t].st = "open" =>
           /\ endpoint'[t].queued # <<>> => leader'[t] = Nobody
           /\ endpoint'[t].inFlight # {} => leader'[t] # Nobody
  BY Followed
<1>10. /\ served' \in [Tabs -> [Tabs -> ServedRecord]]
       /\ \A u \in Tabs : u # t => served'[u] = served[u]
       /\ \A f \in Tabs : ~served'[t][f].open /\ served'[t][f].todo = {}
  BY Stopped
<1>11. PortsTypeOK'
  BY <1>9, <1>10, PortTypesNext
<1>12. Listens(t)' /\ t \in alive
  BY DEF Listens
<1>13. \A u \in Tabs : HasPort(t, u) => HasPort(t, u)'
  BY <1>9 DEF HasPort
<1>14. Nobody # t
  BY TabsAssumption
<1>15. PortStep(t, 0, out)
  BY <1>1, <1>2, <1>3, <1>6, <1>9, <1>10, <1>12, <1>13, <1>14 DEF PortStep, out
<1>16. inbox \in [Tabs -> Seq(Envelope)]
  BY DEF ChannelTypeOK
<1> QED
  BY <1>2, <1>4, <1>8, <1>11, <1>15, <1>16, PortsKept DEF out

\* stepDown: a host leads, so that it forgets its leader, itself.
LEMMA PortsGiveUpKeeps ==
  ASSUME PortsTypeOK, ChannelTypeOK, PortsInv, NEW t \in Tabs, PortsGiveUp(t)
  PROVE  PortsTypeOK' /\ ChannelTypeOK' /\ PortsInv'
<1>1. leader[t] = t
  BY DEF PortsGiveUp, GiveUp, PortsInv, HostLeads
<1>2. /\ SetLeader(t, Nobody, 0, 0) /\ inbox' = Post(inbox, t, <<Bye(t)>>)
      /\ Listens(t) /\ UNCHANGED <<alive, closed, terms>> /\ FollowLeader(t) /\ StopServing(t)
  BY <1>1 DEF PortsGiveUp, GiveUp, StepDown
<1> QED
  BY <1>2, PortsLeavingKeeps

\* leave
LEMMA PortsGoAwayKeeps ==
  ASSUME PortsTypeOK, ChannelTypeOK, PortsInv, NEW t \in Tabs, PortsGoAway(t)
  PROVE  PortsTypeOK' /\ ChannelTypeOK' /\ PortsInv'
<1>1. /\ SetLeader(t, Nobody, 0, 0) /\ inbox' = Post(inbox, t, <<Bye(t)>>)
      /\ Listens(t) /\ UNCHANGED <<alive, closed, terms>> /\ FollowLeader(t) /\ StopServing(t)
  BY DEF PortsGoAway, GoAway, Leave
<1> QED
  BY <1>1, PortsLeavingKeeps

\* A step of t that keeps what it knows of leaders.
QuietStep(t, n, out) ==
  /\ t \in alive
  /\ UNCHANGED <<alive, closed, terms, calls, host, leader, info>>
  /\ n # 0 => \A k \in 1..(n - 1) : inbox[t][k].from # inbox[t][n].from
  /\ \A k \in DOMAIN out : out[k].from = t
  /\ \A u \in Tabs : u # t => endpoint'[u] = endpoint[u] /\ served'[u] = served[u]
  /\ endpoint'[t].st = "none" => Waitless(endpoint'[t])
  /\ endpoint'[t].st = "open" =>
       /\ Listens(t)
       /\ endpoint'[t].queued # <<>> => leader[t] = Nobody
       /\ endpoint'[t].inFlight # {} => leader[t] # Nobody
  /\ \A f \in Tabs :
       /\ served'[t][f].open => host[t] # 0
       /\ ~served'[t][f].open => served'[t][f].todo = {}
  /\ \A f \in Tabs : f # t /\ served'[t][f].open =>
       \/ served[t][f].open /\ ~(n # 0 /\ inbox[t][n].from = f /\ inbox[t][n].k \in Ends)
       \/ n # 0 /\ inbox[t][n].from = f /\ inbox[t][n].k = "port" /\ host[t] # 0
  /\ \A u \in Tabs : u # t /\ HasPort(t, u) => HasPort(t, u)' \/ Tells(t, u, Ends, out)
  /\ \A k \in DOMAIN out : out[k].k = "port" =>
       IF out[k].answer THEN host[t] # 0 ELSE endpoint'[t].st = "open"

\* Such a step keeps PortsInv, and the types when the ports' own are kept.
LEMMA PortsQuietKeeps ==
  ASSUME PortsTypeOK', ChannelTypeOK, PortsInv, NEW t \in Tabs,
         NEW n, NEW out \in Seq(Envelope), Flows(Envelope, t, n, out), QuietStep(t, n, out)
  PROVE  PortsTypeOK' /\ ChannelTypeOK' /\ PortsInv'
<1>1. UNCHANGED <<alive, closed, terms, calls, host, leader, info>>
  BY DEF QuietStep
<1>2. /\ host \in [Tabs -> 0..MaxTerms] /\ info \in [Tabs -> 0..MaxTerms]
      /\ leader \in [Tabs -> Tabs \cup {Nobody}] /\ terms \in 0..MaxTerms
      /\ inbox \in [Tabs -> Seq(Envelope)]
  BY DEF ChannelTypeOK
<1>3. ChannelTypeOK'
  BY <1>1, <1>2, ChannelNext
<1>4. Listens(t)' <=> Listens(t)
  BY <1>1 DEF Listens
<1>5. /\ host[t] # 0 => leader[t] = t
      /\ leader[t] = t => host[t] = info[t]
      /\ leader[t] # Nobody => info[t] # 0 /\ Listens(t)
  BY DEF PortsInv, HostLeads
<1>6. PortStep(t, n, out)
  BY <1>1, <1>4, <1>5 DEF PortStep, QuietStep
<1> QED
  BY <1>2, <1>3, <1>6, PortsKept

\* What PortsInv says of a tab's own endpoint and of the ports it serves.
LEMMA OwnPorts ==
  ASSUME PortsInv, NEW t \in Tabs
  PROVE  /\ endpoint[t].st = "none" => Waitless(endpoint[t])
         /\ endpoint[t].st = "open" =>
              /\ Listens(t)
              /\ endpoint[t].queued # <<>> => leader[t] = Nobody
              /\ endpoint[t].inFlight # {} => leader[t] # Nobody
         /\ \A f \in Tabs :
              /\ served[t][f].open => host[t] # 0
              /\ ~served[t][f].open => served[t][f].todo = {}
BY DEF PortsInv, NoStrandedPort, OneHostServes, OpenListens

\* hello
LEMMA PortsAskKeeps ==
  ASSUME PortsTypeOK, ChannelTypeOK, PortsInv, NEW t \in Tabs, PortsAsk(t)
  PROVE  PortsTypeOK' /\ ChannelTypeOK' /\ PortsInv'
<1> DEFINE out == <<Hello(t)>>
<1>1. /\ Listens(t) /\ inbox' = Post(inbox, t, out) /\ UNCHANGED <<alive, closed, terms>>
      /\ UNCHANGED <<leader, info, host, calls, endpoint, served, micro>>
  BY DEF PortsAsk, Ask, SayHello, KeepLeader, portVars
<1>2. Hello(t) \in Envelope /\ Hello(t).from = t /\ Hello(t).k = "hello"
  BY EnvelopesMade DEF Hello
<1>3. out \in Seq(Envelope) /\ \A k \in DOMAIN out : out[k] = Hello(t)
  BY <1>2, OneEnvelope
<1> HIDE DEF out
<1>4. Flows(Envelope, t, 0, out)
  BY <1>1, <1>3, PortsSent DEF PortsInv
<1>5. t \in alive
  BY <1>1 DEF Listens
<1>6. \A u \in Tabs : HasPort(t, u) => HasPort(t, u)'
  BY <1>1 DEF HasPort
<1>7. \A k \in DOMAIN out : out[k].from = t /\ out[k].k # "port"
  BY <1>2, <1>3
<1>8. QuietStep(t, 0, out)
  BY <1>1, <1>5, <1>6, <1>7, OwnPorts DEF QuietStep
<1>9. PortsTypeOK'
  BY <1>1 DEF PortsTypeOK
<1> QED
  BY <1>3, <1>4, <1>8, <1>9, PortsQuietKeeps

\* An endpoint whose tab posts, and one that is opened or closed.
Posting(e, next, queued, inFlight) == [e EXCEPT !.next = next, !.queued = queued, !.inFlight = inFlight]

Opening(e, st) == [e EXCEPT !.st = st]

Becoming(e, st, told) == [e EXCEPT !.st = st, !.told = told]

\* They are endpoints, and keep their other fields.
LEMMA EndpointChanged ==
  ASSUME NEW e \in EndpointRecord
  PROVE  /\ \A st \in {"none", "open", "closed"} :
              /\ Opening(e, st) \in EndpointRecord /\ Opening(e, st).st = st
              /\ Opening(e, st).queued = e.queued /\ Opening(e, st).inFlight = e.inFlight
              /\ Opening(e, st).told = e.told
BY DEF Opening, EndpointRecord

\* So is one that is closed, for the tabs that are told.
LEMMA EndpointClosed ==
  ASSUME NEW e \in EndpointRecord, NEW st \in {"none", "open", "closed"}, NEW told \in SUBSET Tabs
  PROVE  /\ Becoming(e, st, told) \in EndpointRecord
         /\ Becoming(e, st, told).st = st /\ Becoming(e, st, told).told = told
         /\ Becoming(e, st, told).queued = e.queued /\ Becoming(e, st, told).inFlight = e.inFlight
BY DEF Becoming, EndpointRecord

\* So is one that has posted.
LEMMA EndpointPosted ==
  ASSUME NEW e \in EndpointRecord, NEW next \in 1..(MaxPosts + 1), NEW queued \in Seq(Posts),
         NEW inFlight \in SUBSET Posts
  PROVE  /\ Posting(e, next, queued, inFlight) \in EndpointRecord
         /\ Posting(e, next, queued, inFlight).queued = queued
         /\ Posting(e, next, queued, inFlight).inFlight = inFlight
         /\ Posting(e, next, queued, inFlight).st = e.st
BY DEF Posting, EndpointRecord

\* connect: an endpoint that was not opened waits for nothing.
LEMMA ConnectKeeps ==
  ASSUME PortsTypeOK, ChannelTypeOK, PortsInv, NEW t \in Tabs, Connect(t)
  PROVE  PortsTypeOK' /\ ChannelTypeOK' /\ PortsInv'
<1> DEFINE st == IF closed[t] THEN "closed" ELSE "open"
           e == Opening(endpoint[t], st)
<1>1. /\ t \in alive /\ endpoint[t].st = "none"
      /\ endpoint' = [endpoint EXCEPT ![t].st = st]
      /\ UNCHANGED <<alive, host, leader, info, closed, calls, inbox, terms, served, micro>>
  BY DEF Connect, bridgeVars
<1>2. endpoint \in [Tabs -> EndpointRecord]
  BY PortTypes
<1>3. endpoint[t] \in EndpointRecord /\ Waitless(endpoint[t])
  BY <1>1, <1>2, OwnPorts
<1>4. endpoint' = [endpoint EXCEPT ![t] = e]
  BY <1>1 DEF Opening
<1>6. e \in EndpointRecord /\ e.st = st /\ Waitless(e)
  <2>1. st \in {"none", "open", "closed"}
    OBVIOUS
  <2> QED
    BY <1>3, <2>1, EndpointChanged DEF Waitless
<1>7. st = "open" \/ st = "closed"
  OBVIOUS
<1>8. st = "open" => Listens(t)
  BY <1>1 DEF Listens
<1> HIDE DEF st, e
<1>9. /\ endpoint' \in [Tabs -> EndpointRecord] /\ endpoint'[t] = e
      /\ \A u \in Tabs : u # t => endpoint'[u] = endpoint[u]
  BY <1>2, <1>4, <1>6
<1>10. PortsTypeOK'
  BY <1>1, <1>9, PortTypes, PortTypesNext
<1>11. Post(inbox, t, <<>>) = inbox
  BY DEF Post
<1>12. Flows(Envelope, t, 0, <<>>)
  BY <1>1, <1>11, NoEnvelope, PortsSent DEF PortsInv
<1>13. \A u \in Tabs : HasPort(t, u) => HasPort(t, u)'
  BY <1>1, <1>6, <1>7, <1>9 DEF HasPort, Waitless
<1>14. QuietStep(t, 0, <<>>)
  BY <1>1, <1>6, <1>7, <1>8, <1>9, <1>13, OwnPorts, NoEnvelope DEF QuietStep, Waitless
<1> QED
  BY <1>10, <1>12, <1>14, NoEnvelope, PortsQuietKeeps

\* postMessage: it waits while no leader is known, and is out otherwise.
LEMMA PostMessageKeeps ==
  ASSUME PortsTypeOK, ChannelTypeOK, PortsInv, NEW t \in Tabs, PostMessage(t)
  PROVE  PortsTypeOK' /\ ChannelTypeOK' /\ PortsInv'
<1> DEFINE id == endpoint[t].next
           m == PortMessage(t, leader[t], id, FALSE)
           out == IF leader[t] \in {t, Nobody} THEN <<>> ELSE <<m>>
           queued == IF leader[t] = Nobody THEN Append(endpoint[t].queued, id) ELSE endpoint[t].queued
           inFlight == IF leader[t] = Nobody THEN endpoint[t].inFlight ELSE endpoint[t].inFlight \cup {id}
           e == Posting(endpoint[t], id + 1, queued, inFlight)
<1>1. /\ t \in alive /\ endpoint[t].st = "open" /\ id <= MaxPosts
      /\ endpoint' = [endpoint EXCEPT ![t] = e]
      /\ micro' = IF leader[t] = t THEN [micro EXCEPT ![t] = Append(micro[t], m)] ELSE micro
      /\ inbox' = IF leader[t] \in {t, Nobody} THEN inbox ELSE Post(inbox, t, <<m>>)
      /\ UNCHANGED <<alive, host, leader, info, closed, calls, terms, served>>
  <2>1. endpoint' = [endpoint EXCEPT ![t].next = id + 1, ![t].queued = queued, ![t].inFlight = inFlight]
    BY DEF PostMessage
  <2>2. endpoint' = [endpoint EXCEPT ![t] = e]
    BY <2>1 DEF Posting
  <2> QED
    BY <2>2 DEF PostMessage
<1>2. /\ endpoint \in [Tabs -> EndpointRecord] /\ DOMAIN micro = Tabs
      /\ \A u \in Tabs : micro[u] \in Seq(MicroRecord(u))
  BY PortTypes
<1>3. /\ endpoint[t].queued \in Seq(Posts) /\ endpoint[t].inFlight \in SUBSET Posts
      /\ id \in 1..(MaxPosts + 1)
  BY <1>2, EndpointRead
<1>4. id \in Posts /\ id + 1 \in 1..(MaxPosts + 1)
  BY <1>1, <1>3, PortsAssumption DEF Posts
<1>5. leader[t] \in Tabs \cup {Nobody}
  BY DEF ChannelTypeOK
<1>6. /\ leader[t] # Nobody => m \in Envelope
      /\ leader[t] = t => m \in MicroRecord(t)
      /\ m.from = t /\ m.k = "port" /\ ~m.answer
  BY <1>4, <1>5, EnvelopesMade DEF PortMessage, MicroRecord
<1> HIDE DEF id, m
<1>7. /\ queued \in Seq(Posts) /\ inFlight \in SUBSET Posts
      /\ leader[t] # Nobody => queued = endpoint[t].queued
      /\ leader[t] = Nobody => inFlight = endpoint[t].inFlight
  BY <1>3, <1>4
<1> HIDE DEF queued, inFlight
<1>8. e \in EndpointRecord /\ e.st = endpoint[t].st /\ e.queued = queued /\ e.inFlight = inFlight
  <2>1. endpoint[t] \in EndpointRecord
    BY <1>2
  <2>2. id + 1 \in 1..(MaxPosts + 1) /\ queued \in Seq(Posts) /\ inFlight \in SUBSET Posts
    BY <1>4, <1>7
  <2> QED
    BY <2>1, <2>2, EndpointPosted
<1>9. e.st = "open" /\ e.queued = queued /\ e.inFlight = inFlight
  BY <1>1, <1>8
<1> HIDE DEF e
<1>10. /\ endpoint' \in [Tabs -> EndpointRecord] /\ endpoint'[t] = e
       /\ \A u \in Tabs : u # t => endpoint'[u] = endpoint[u]
  BY <1>1, <1>2, <1>8
<1>11. DOMAIN micro' = Tabs /\ \A u \in Tabs : micro'[u] \in Seq(MicroRecord(u))
  <2>1. CASE leader[t] = t
    <3>1. Append(micro[t], m) \in Seq(MicroRecord(t))
      BY <1>2, <1>6, <2>1
    <3>2. micro' = [micro EXCEPT ![t] = Append(micro[t], m)]
      BY <1>1, <2>1
    <3> QED
      BY <1>2, <3>1, <3>2
  <2>2. CASE leader[t] # t
    BY <1>1, <1>2, <2>2
  <2> QED
    BY <2>1, <2>2
<1>12. PortsTypeOK'
  BY <1>1, <1>10, <1>11, PortTypes, PortTypesNext
<1>13. out \in Seq(Envelope) /\ \A k \in DOMAIN out : out[k] = m
  <2>1. CASE leader[t] \in {t, Nobody}
    BY <2>1, NoEnvelope
  <2>2. CASE leader[t] \notin {t, Nobody}
    BY <1>6, <2>2, OneEnvelope
  <2> QED
    BY <2>1, <2>2
<1>14. inbox' = Post(inbox, t, out)
  <2>1. Post(inbox, t, <<>>) = inbox
    BY DEF Post
  <2> QED
    BY <1>1, <2>1
<1> HIDE DEF out
<1>15. Flows(Envelope, t, 0, out)
  BY <1>1, <1>13, <1>14, PortsSent DEF PortsInv
<1>16. \A u \in Tabs : HasPort(t, u)'
  BY <1>9, <1>10 DEF HasPort
<1>17. \A k \in DOMAIN out : out[k].from = t /\ ~out[k].answer
  BY <1>6, <1>13
<1>18. /\ Listens(t)
       /\ endpoint'[t].queued # <<>> => leader[t] = Nobody
       /\ endpoint'[t].inFlight # {} => leader[t] # Nobody
  BY <1>1, <1>7, <1>9, <1>10, OwnPorts
<1>19. endpoint'[t].st = "open"
  BY <1>9, <1>10
<1>20. QuietStep(t, 0, out)
  BY <1>1, <1>10, <1>16, <1>17, <1>18, <1>19, OwnPorts DEF QuietStep
<1> QED
  BY <1>12, <1>13, <1>15, <1>20, PortsQuietKeeps

\* close and closePort: the leader that is known is told.
LEMMA ClosePortKeeps ==
  ASSUME PortsTypeOK, ChannelTypeOK, PortsInv, NEW t \in Tabs, ClosePort(t)
  PROVE  PortsTypeOK' /\ ChannelTypeOK' /\ PortsInv'
<1> DEFINE m == PortClose(t, leader[t])
           out == IF leader[t] \in {t, Nobody} THEN <<>> ELSE <<m>>
           told == {leader[t]} \ {Nobody}
           e == Becoming(endpoint[t], "closed", told)
<1>1. /\ t \in alive /\ endpoint[t].st = "open"
      /\ endpoint' = [endpoint EXCEPT ![t] = e]
      /\ served' = IF leader[t] = t THEN [served EXCEPT ![t][t] = Free] ELSE served
      /\ inbox' = IF leader[t] \in {t, Nobody} THEN inbox ELSE Post(inbox, t, <<m>>)
      /\ UNCHANGED <<alive, host, leader, info, closed, calls, terms, micro>>
  BY DEF ClosePort, Becoming
<1>2. endpoint \in [Tabs -> EndpointRecord] /\ served \in [Tabs -> [Tabs -> ServedRecord]]
  BY PortTypes
<1>3. leader[t] \in Tabs \cup {Nobody}
  BY DEF ChannelTypeOK
<1>4. /\ leader[t] # Nobody => m \in Envelope
      /\ m.from = t /\ m.k = "port-close" /\ m.to = leader[t]
  BY <1>3, EnvelopesMade DEF PortClose
<1> HIDE DEF m
<1>5. told \in SUBSET Tabs /\ \A u \in Tabs : u \in told => u = leader[t]
  BY <1>3
<1> HIDE DEF told
<1>6. e \in EndpointRecord /\ e.st = "closed" /\ e.told = told
  <2>1. endpoint[t] \in EndpointRecord
    BY <1>2
  <2> QED
    BY <1>5, <2>1, EndpointClosed
<1> HIDE DEF e
<1>7. /\ endpoint' \in [Tabs -> EndpointRecord] /\ endpoint'[t] = e
      /\ \A u \in Tabs : u # t => endpoint'[u] = endpoint[u]
  BY <1>1, <1>2, <1>6
<1>8. /\ served' \in [Tabs -> [Tabs -> ServedRecord]]
      /\ \A u \in Tabs : u # t => served'[u] = served[u]
      /\ \A f \in Tabs : f # t => served'[t][f] = served[t][f]
      /\ served'[t][t] = served[t][t] \/ (~served'[t][t].open /\ served'[t][t].todo = {})
  <2>1. Free \in ServedRecord /\ ~Free.open /\ Free.todo = {}
    BY DEF Free, ServedRecord
  <2>2. CASE leader[t] = t
    BY <1>1, <1>2, <2>1, <2>2
  <2>3. CASE leader[t] # t
    BY <1>1, <1>2, <2>3
  <2> QED
    BY <2>2, <2>3
<1>9. PortsTypeOK'
  BY <1>1, <1>7, <1>8, PortTypes, PortTypesNext
<1>10. out \in Seq(Envelope) /\ \A k \in DOMAIN out : out[k] = m
  <2>1. CASE leader[t] \in {t, Nobody}
    BY <2>1, NoEnvelope
  <2>2. CASE leader[t] \notin {t, Nobody}
    BY <1>4, <2>2, OneEnvelope
  <2> QED
    BY <2>1, <2>2
<1>11. inbox' = Post(inbox, t, out)
  <2>1. Post(inbox, t, <<>>) = inbox
    BY DEF Post
  <2> QED
    BY <1>1, <2>1
<1>12. leader[t] \notin {t, Nobody} => Tells(t, leader[t], Ends, out)
  <2>1. Listens(t)
    BY <1>1, OwnPorts
  <2> QED
    BY <1>4, <2>1 DEF Tells, Ends
<1> HIDE DEF out
<1>13. Flows(Envelope, t, 0, out)
  BY <1>1, <1>10, <1>11, PortsSent DEF PortsInv
<1>14. \A k \in DOMAIN out : out[k].from = t /\ out[k].k # "port"
  BY <1>4, <1>10
<1>15. ASSUME NEW u \in Tabs, HasPort(t, u)
       PROVE  HasPort(t, u)' \/ Tells(t, u, Ends, out) \/ u = t
  <2>1. CASE u = leader[t]
    BY <1>3, <1>12, <2>1, TabsAssumption
  <2>2. CASE u # leader[t]
    BY <1>5, <1>6, <1>7, <2>2 DEF HasPort
  <2> QED
    BY <2>1, <2>2
<1>16. QuietStep(t, 0, out)
  BY <1>1, <1>6, <1>7, <1>8, <1>14, <1>15, OwnPorts DEF QuietStep
<1> QED
  BY <1>9, <1>10, <1>13, <1>16, PortsQuietKeeps

\* #servedPort: a host serves the port that a message is of.
LEMMA ServedMore ==
  ASSUME PortsTypeOK, NEW t \in Tabs, NEW m, m.from \in Tabs, m.id \in Posts
  PROVE  /\ ServedWith(t, m) \in [Tabs -> [Tabs -> ServedRecord]]
         /\ \A u \in Tabs : u # t => ServedWith(t, m)[u] = served[u]
         /\ \A f \in Tabs : f # m.from \/ host[t] = 0 => ServedWith(t, m)[t][f] = served[t][f]
         /\ host[t] # 0 => ServedWith(t, m)[t][m.from].open
<1>1. served \in [Tabs -> [Tabs -> ServedRecord]]
  BY PortTypes
<1>2. CASE host[t] = 0
  BY <1>1, <1>2 DEF ServedWith
<1>3. CASE host[t] # 0
  <2> DEFINE old == served[t][m.from]
             todo == IF m.answer THEN old.todo ELSE old.todo \cup {m.id}
             p == [open |-> TRUE, todo |-> todo]
  <2>1. old.todo \in SUBSET Posts
    BY <1>1 DEF ServedRecord
  <2>2. p \in ServedRecord /\ p.open
    BY <2>1 DEF ServedRecord
  <2>3. ServedWith(t, m) = [served EXCEPT ![t][m.from] = p]
    BY <1>3 DEF ServedWith
  <2> HIDE DEF p
  <2> QED
    BY <1>1, <1>3, <2>2, <2>3
<1> QED
  BY <1>2, <1>3

\* An endpoint with fewer requests that are out.
Awaiting(e, inFlight) == [e EXCEPT !.inFlight = inFlight]

\* It is one, and keeps its other fields.
LEMMA EndpointGot ==
  ASSUME NEW e \in EndpointRecord, NEW inFlight \in SUBSET Posts
  PROVE  /\ Awaiting(e, inFlight) \in EndpointRecord
         /\ Awaiting(e, inFlight).queued = e.queued /\ Awaiting(e, inFlight).inFlight = inFlight
         /\ Awaiting(e, inFlight).st = e.st /\ Awaiting(e, inFlight).told = e.told
BY DEF Awaiting, EndpointRecord

\* deliver: an endpoint gets an answer; one that is not open ignores it.
LEMMA DeliveredTo ==
  ASSUME PortsTypeOK, PortsInv, NEW t \in Tabs, NEW id, endpoint' = Delivered(t, id)
  PROVE  /\ endpoint' \in [Tabs -> EndpointRecord]
         /\ \A u \in Tabs : u # t => endpoint'[u] = endpoint[u]
         /\ endpoint'[t].st = endpoint[t].st /\ endpoint'[t].told = endpoint[t].told
         /\ endpoint'[t].st = "none" => Waitless(endpoint'[t])
         /\ endpoint'[t].st = "open" =>
              /\ Listens(t)
              /\ endpoint'[t].queued # <<>> => leader[t] = Nobody
              /\ endpoint'[t].inFlight # {} => leader[t] # Nobody
<1> DEFINE left == IF endpoint[t].st = "open" THEN endpoint[t].inFlight \ {id} ELSE endpoint[t].inFlight
           e == Awaiting(endpoint[t], left)
<1>1. endpoint \in [Tabs -> EndpointRecord]
  BY PortTypes
<1>2. endpoint' = [endpoint EXCEPT ![t] = e]
  BY DEF Delivered, Awaiting
<1>3. endpoint[t] \in EndpointRecord /\ endpoint[t].inFlight \in SUBSET Posts
  BY <1>1, EndpointRead
<1>4. left \in SUBSET Posts /\ left \subseteq endpoint[t].inFlight
  BY <1>3
<1> HIDE DEF left
<1>5. /\ e \in EndpointRecord /\ e.queued = endpoint[t].queued /\ e.inFlight = left
      /\ e.st = endpoint[t].st /\ e.told = endpoint[t].told
  BY <1>3, <1>4, EndpointGot
<1> HIDE DEF e
<1>6. endpoint' \in [Tabs -> EndpointRecord] /\ endpoint'[t] = e /\ \A u \in Tabs : u # t => endpoint'[u] = endpoint[u]
  BY <1>1, <1>2, <1>5
<1>7. endpoint'[t].st = "none" => Waitless(endpoint'[t])
  BY <1>4, <1>5, <1>6, OwnPorts DEF Waitless
<1>8. endpoint'[t].st = "open" =>
        /\ Listens(t)
        /\ endpoint'[t].queued # <<>> => leader[t] = Nobody
        /\ endpoint'[t].inFlight # {} => leader[t] # Nobody
  BY <1>4, <1>5, <1>6, OwnPorts
<1> QED
  BY <1>5, <1>6, <1>7, <1>8

\* queueMicrotask: the leader's own tab talks to the port it serves itself.
LEMMA MicrotaskKeeps ==
  ASSUME PortsTypeOK, ChannelTypeOK, PortsInv, NEW t \in Tabs, Microtask(t)
  PROVE  PortsTypeOK' /\ ChannelTypeOK' /\ PortsInv'
<1> DEFINE m == Head(micro[t])
<1>1. /\ t \in alive /\ micro[t] # <<>>
      /\ \/ m.answer /\ endpoint' = Delivered(t, m.id) /\ UNCHANGED served
         \/ ~m.answer /\ served' = ServedWith(t, m) /\ UNCHANGED endpoint
      /\ micro' = [micro EXCEPT ![t] = Tail(micro[t])]
      /\ UNCHANGED <<alive, host, leader, info, closed, calls, inbox, terms>>
  BY DEF Microtask, bridgeVars
<1>2. /\ endpoint \in [Tabs -> EndpointRecord] /\ served \in [Tabs -> [Tabs -> ServedRecord]]
      /\ DOMAIN micro = Tabs /\ \A u \in Tabs : micro[u] \in Seq(MicroRecord(u))
  BY PortTypes
<1>3. m \in MicroRecord(t) /\ Tail(micro[t]) \in Seq(MicroRecord(t))
  BY <1>1, <1>2
<1> HIDE DEF m
<1>4. m.from = t /\ m.id \in Posts
  BY <1>3 DEF MicroRecord
<1>5. DOMAIN micro' = Tabs /\ \A u \in Tabs : micro'[u] \in Seq(MicroRecord(u))
  BY <1>1, <1>2, <1>3
<1>6. /\ endpoint' \in [Tabs -> EndpointRecord]
      /\ \A u \in Tabs : u # t => endpoint'[u] = endpoint[u]
      /\ endpoint'[t].st = endpoint[t].st /\ endpoint'[t].told = endpoint[t].told
      /\ endpoint'[t].st = "none" => Waitless(endpoint'[t])
      /\ endpoint'[t].st = "open" =>
           /\ Listens(t)
           /\ endpoint'[t].queued # <<>> => leader[t] = Nobody
           /\ endpoint'[t].inFlight # {} => leader[t] # Nobody
  <2>1. CASE endpoint' = endpoint
    BY <1>2, <2>1, OwnPorts
  <2>2. CASE endpoint' = Delivered(t, m.id)
    BY <2>2, DeliveredTo
  <2> QED
    BY <1>1, <2>1, <2>2
<1>7. /\ served' \in [Tabs -> [Tabs -> ServedRecord]]
      /\ \A u \in Tabs : u # t => served'[u] = served[u]
      /\ \A f \in Tabs : f # t \/ host[t] = 0 => served'[t][f] = served[t][f]
      /\ host[t] # 0 => served'[t] = served[t] \/ served'[t][t].open
  <2>1. CASE served' = served
    BY <1>2, <2>1
  <2>2. CASE served' = ServedWith(t, m)
    BY <1>4, <2>2, ServedMore
  <2> QED
    BY <1>1, <2>1, <2>2
<1>8. PortsTypeOK'
  BY <1>5, <1>6, <1>7, PortTypesNext
<1>9. Post(inbox, t, <<>>) = inbox
  BY DEF Post
<1>10. Flows(Envelope, t, 0, <<>>)
  BY <1>1, <1>9, NoEnvelope, PortsSent DEF PortsInv
<1>11. \A u \in Tabs : HasPort(t, u) => HasPort(t, u)'
  BY <1>1, <1>6 DEF HasPort
<1>12. \A f \in Tabs :
         /\ served'[t][f].open => host[t] # 0
         /\ ~served'[t][f].open => served'[t][f].todo = {}
  BY <1>7, OwnPorts
<1>13. QuietStep(t, 0, <<>>)
  BY <1>1, <1>6, <1>7, <1>11, <1>12, NoEnvelope DEF QuietStep
<1> QED
  BY <1>8, <1>10, <1>13, NoEnvelope, PortsQuietKeeps

\* A served port with fewer requests to answer.
Answering(p, todo) == [p EXCEPT !.todo = todo]

\* It is one, and still open or not.
LEMMA PortAnswered ==
  ASSUME NEW p \in ServedRecord, NEW todo \in SUBSET Posts
  PROVE  /\ Answering(p, todo) \in ServedRecord
         /\ Answering(p, todo).open = p.open /\ Answering(p, todo).todo = todo
BY DEF Answering, ServedRecord

\* The host answers: it serves, so that it hosts.
LEMMA AnswerPortKeeps ==
  ASSUME PortsTypeOK, ChannelTypeOK, PortsInv, NEW t \in Tabs, NEW f \in Tabs, AnswerPort(t, f)
  PROVE  PortsTypeOK' /\ ChannelTypeOK' /\ PortsInv'
<1>1. PICK id \in served[t][f].todo :
        LET m == PortMessage(t, f, id, TRUE) IN
        /\ served' = [served EXCEPT ![t][f].todo = @ \ {id}]
        /\ micro' = IF f = t THEN [micro EXCEPT ![t] = Append(@, m)] ELSE micro
        /\ inbox' = IF f = t THEN inbox ELSE Post(inbox, t, <<m>>)
  BY DEF AnswerPort
<1>2. /\ t \in alive
      /\ UNCHANGED <<alive, host, leader, info, closed, calls, terms, endpoint>>
  BY DEF AnswerPort
<1> DEFINE m == PortMessage(t, f, id, TRUE)
           out == IF f = t THEN <<>> ELSE <<m>>
           todo == served[t][f].todo \ {id}
           p == Answering(served[t][f], todo)
<1>3. /\ endpoint \in [Tabs -> EndpointRecord] /\ served \in [Tabs -> [Tabs -> ServedRecord]]
      /\ DOMAIN micro = Tabs /\ \A u \in Tabs : micro[u] \in Seq(MicroRecord(u))
  BY PortTypes
<1>4. served[t][f] \in ServedRecord /\ served[t][f].todo \in SUBSET Posts
  BY <1>3 DEF ServedRecord
<1>5. id \in Posts /\ todo \in SUBSET Posts
  BY <1>1, <1>4
<1>6. served[t][f].open /\ host[t] # 0
  BY <1>1, OwnPorts
<1>7. f = t => m \in MicroRecord(t)
  BY <1>5, EnvelopesMade DEF PortMessage, MicroRecord
<1>8. m \in Envelope /\ m.from = t /\ m.answer
  BY <1>5, EnvelopesMade DEF PortMessage
<1>9. served' = [served EXCEPT ![t][f] = p]
  BY <1>1 DEF Answering
<1> HIDE DEF todo
<1>10. p \in ServedRecord /\ p.open
  BY <1>4, <1>5, <1>6, PortAnswered
<1> HIDE DEF p, m
<1>11. /\ served' \in [Tabs -> [Tabs -> ServedRecord]]
       /\ \A u \in Tabs : u # t => served'[u] = served[u]
       /\ \A g \in Tabs : g # f => served'[t][g] = served[t][g]
       /\ served'[t][f].open
  BY <1>3, <1>9, <1>10
<1>12. DOMAIN micro' = Tabs /\ \A u \in Tabs : micro'[u] \in Seq(MicroRecord(u))
  <2>1. CASE f = t
    <3>1. Append(micro[t], m) \in Seq(MicroRecord(t))
      BY <1>3, <1>7, <2>1
    <3>2. micro' = [micro EXCEPT ![t] = Append(micro[t], m)]
      BY <1>1, <2>1 DEF m
    <3> QED
      BY <1>3, <3>1, <3>2
  <2>2. CASE f # t
    BY <1>1, <1>3, <2>2
  <2> QED
    BY <2>1, <2>2
<1>13. PortsTypeOK'
  BY <1>2, <1>3, <1>11, <1>12, PortTypesNext
<1>14. out \in Seq(Envelope) /\ \A k \in DOMAIN out : out[k] = m
  <2>1. CASE f = t
    BY <2>1, NoEnvelope
  <2>2. CASE f # t
    BY <1>8, <2>2, OneEnvelope
  <2> QED
    BY <2>1, <2>2
<1>15. inbox' = Post(inbox, t, out)
  <2>1. Post(inbox, t, <<>>) = inbox
    BY DEF Post
  <2> QED
    BY <1>1, <2>1 DEF m
<1> HIDE DEF out
<1>16. Flows(Envelope, t, 0, out)
  BY <1>2, <1>14, <1>15, PortsSent DEF PortsInv
<1>17. \A u \in Tabs : HasPort(t, u) => HasPort(t, u)'
  BY <1>2 DEF HasPort
<1>18. \A k \in DOMAIN out : out[k].from = t /\ out[k].answer
  BY <1>8, <1>14
<1>19. \A g \in Tabs :
         /\ served'[t][g].open => host[t] # 0
         /\ ~served'[t][g].open => served'[t][g].todo = {}
         /\ served'[t][g].open => served[t][g].open
  BY <1>6, <1>11, OwnPorts
<1>20. QuietStep(t, 0, out)
  BY <1>2, <1>6, <1>11, <1>17, <1>18, <1>19, OwnPorts DEF QuietStep
<1> QED
  BY <1>13, <1>14, <1>16, <1>20, PortsQuietKeeps

\* A message that is read is the first of its sender.
LEMMA PortsReadsFirst ==
  ASSUME ChannelTypeOK, NEW t \in Tabs, NEW n \in 1..Len(inbox[t]), NEW kind, Reads(t, n, kind)
  PROVE  /\ t \in alive /\ Listens(t) /\ inbox[t][n] \in Envelope /\ n # 0
         /\ inbox[t][n].k = kind /\ inbox[t][n].from \in Tabs /\ inbox[t][n].from # t
         /\ \A k \in 1..(n - 1) : inbox[t][k].from # inbox[t][n].from
<1>1. inbox[t] \in Seq(Envelope)
  BY DEF ChannelTypeOK
<1>2. inbox[t][n] \in Envelope
  BY <1>1
<1>3. inbox[t][n].from \in Tabs
  BY <1>2, EnvelopeRead
<1> QED
  BY <1>2, <1>3 DEF Reads, Readable, Listens

\* A message of a port: a host serves it, another tab may have its answer.
LEMMA ReceivePortKeeps ==
  ASSUME PortsTypeOK, ChannelTypeOK, PortsInv, NEW t \in Tabs, NEW n \in 1..Len(inbox[t]), ReceivePort(t, n)
  PROVE  PortsTypeOK' /\ ChannelTypeOK' /\ PortsInv'
<1> DEFINE m == inbox[t][n]
<1>1. /\ Reads(t, n, "port") /\ served' = ServedWith(t, m)
      /\ endpoint' = IF host[t] = 0 /\ leader[t] = m.from /\ m.answer THEN Delivered(t, m.id) ELSE endpoint
      /\ TakeAndPost(t, n, <<>>)
      /\ UNCHANGED <<leader, info, host, calls, alive, closed, terms, micro>>
  BY DEF ReceivePort, KeepLeader
<1>2. /\ t \in alive /\ Listens(t) /\ m \in Envelope /\ n # 0
      /\ m.k = "port" /\ m.from \in Tabs /\ m.from # t
      /\ \A k \in 1..(n - 1) : inbox[t][k].from # m.from
  BY <1>1, PortsReadsFirst
<1>3. m.id \in Posts
  BY <1>2, EnvelopeRead
<1>4. endpoint \in [Tabs -> EndpointRecord] /\ DOMAIN micro = Tabs /\ \A u \in Tabs : micro[u] \in Seq(MicroRecord(u))
  BY PortTypes
<1>5. /\ endpoint' \in [Tabs -> EndpointRecord]
      /\ \A u \in Tabs : u # t => endpoint'[u] = endpoint[u]
      /\ endpoint'[t].st = endpoint[t].st /\ endpoint'[t].told = endpoint[t].told
      /\ endpoint'[t].st = "none" => Waitless(endpoint'[t])
      /\ endpoint'[t].st = "open" =>
           /\ Listens(t)
           /\ endpoint'[t].queued # <<>> => leader[t] = Nobody
           /\ endpoint'[t].inFlight # {} => leader[t] # Nobody
  <2>1. CASE endpoint' = endpoint
    BY <1>4, <2>1, OwnPorts
  <2>2. CASE endpoint' = Delivered(t, m.id)
    BY <2>2, DeliveredTo
  <2> QED
    BY <1>1, <2>1, <2>2
<1>6. /\ served' \in [Tabs -> [Tabs -> ServedRecord]]
      /\ \A u \in Tabs : u # t => served'[u] = served[u]
      /\ \A f \in Tabs : f # m.from \/ host[t] = 0 => served'[t][f] = served[t][f]
      /\ host[t] # 0 => served'[t][m.from].open
  BY <1>1, <1>2, <1>3, ServedMore
<1>7. PortsTypeOK'
  BY <1>1, <1>4, <1>5, <1>6, PortTypesNext
<1>8. Flows(Envelope, t, n, <<>>)
  BY <1>1, NoEnvelope, PortsTaken DEF PortsInv
<1>9. \A u \in Tabs : HasPort(t, u) => HasPort(t, u)'
  BY <1>1, <1>5 DEF HasPort
<1>10. \A f \in Tabs :
         /\ served'[t][f].open => host[t] # 0
         /\ ~served'[t][f].open => served'[t][f].todo = {}
  BY <1>6, OwnPorts
<1>11. \A f \in Tabs : f # t /\ served'[t][f].open =>
         \/ served[t][f].open /\ ~(n # 0 /\ m.from = f /\ m.k \in Ends)
         \/ n # 0 /\ m.from = f /\ m.k = "port" /\ host[t] # 0
  BY <1>2, <1>6, <1>10 DEF Ends
<1>12. QuietStep(t, n, <<>>)
  BY <1>1, <1>2, <1>5, <1>6, <1>9, <1>10, <1>11, NoEnvelope DEF QuietStep
<1> QED
  BY <1>7, <1>8, <1>12, NoEnvelope, PortsQuietKeeps

\* A port that is not served any more.
LEMMA Freed ==
  ASSUME PortsTypeOK, NEW t \in Tabs, NEW f \in Tabs, served' = [served EXCEPT ![t][f] = Free]
  PROVE  /\ served' \in [Tabs -> [Tabs -> ServedRecord]]
         /\ \A u \in Tabs : u # t => served'[u] = served[u]
         /\ \A g \in Tabs : g # f => served'[t][g] = served[t][g]
         /\ ~served'[t][f].open /\ served'[t][f].todo = {}
<1>1. served \in [Tabs -> [Tabs -> ServedRecord]]
  BY PortTypes
<1>2. Free \in ServedRecord /\ ~Free.open /\ Free.todo = {}
  BY DEF Free, ServedRecord
<1> QED
  BY <1>1, <1>2

\* The end of a port: it is not served any more.
LEMMA ReceivePortCloseKeeps ==
  ASSUME PortsTypeOK, ChannelTypeOK, PortsInv, NEW t \in Tabs, NEW n \in 1..Len(inbox[t]), ReceivePortClose(t, n)
  PROVE  PortsTypeOK' /\ ChannelTypeOK' /\ PortsInv'
<1> DEFINE m == inbox[t][n]
<1>1. /\ Reads(t, n, "port-close") /\ served' = [served EXCEPT ![t][m.from] = Free]
      /\ TakeAndPost(t, n, <<>>)
      /\ UNCHANGED <<leader, info, host, calls, alive, closed, terms, endpoint, micro>>
  BY DEF ReceivePortClose, KeepLeader
<1>2. /\ t \in alive /\ Listens(t) /\ n # 0
      /\ m.k = "port-close" /\ m.from \in Tabs /\ m.from # t
      /\ \A k \in 1..(n - 1) : inbox[t][k].from # m.from
  BY <1>1, PortsReadsFirst
<1>3. /\ served' \in [Tabs -> [Tabs -> ServedRecord]]
      /\ \A u \in Tabs : u # t => served'[u] = served[u]
      /\ \A g \in Tabs : g # m.from => served'[t][g] = served[t][g]
      /\ ~served'[t][m.from].open /\ served'[t][m.from].todo = {}
  BY <1>1, <1>2, Freed
<1>4. PortsTypeOK'
  BY <1>1, <1>3, PortTypes, PortTypesNext
<1>5. Flows(Envelope, t, n, <<>>)
  BY <1>1, NoEnvelope, PortsTaken DEF PortsInv
<1>6. \A u \in Tabs : HasPort(t, u) => HasPort(t, u)'
  BY <1>1 DEF HasPort
<1>7. \A f \in Tabs :
         /\ served'[t][f].open => host[t] # 0
         /\ ~served'[t][f].open => served'[t][f].todo = {}
         /\ served'[t][f].open => served[t][f].open /\ f # m.from
  BY <1>3, OwnPorts
<1>8. QuietStep(t, n, <<>>)
  BY <1>1, <1>2, <1>3, <1>6, <1>7, OwnPorts, NoEnvelope DEF QuietStep
<1> QED
  BY <1>4, <1>5, <1>8, NoEnvelope, PortsQuietKeeps

\* hello is answered by a host with its term.
LEMMA PortsHelloKeeps ==
  ASSUME PortsTypeOK, ChannelTypeOK, PortsInv, NEW t \in Tabs, NEW n \in 1..Len(inbox[t]),
         ReceiveHello(t, n), UNCHANGED portVars
  PROVE  PortsTypeOK' /\ ChannelTypeOK' /\ PortsInv'
<1> DEFINE m == inbox[t][n]
           out == IF host[t] # 0 /\ leader[t] # Nobody THEN <<Leader(t, info[t])>> ELSE <<>>
<1>1. /\ Reads(t, n, "hello") /\ TakeAndPost(t, n, out)
      /\ UNCHANGED <<leader, info, host, calls, alive, closed, terms, endpoint, served, micro>>
  BY DEF ReceiveHello, KeepLeader, portVars
<1>2. /\ t \in alive /\ Listens(t) /\ n # 0
      /\ m.k = "hello" /\ m.from \in Tabs /\ m.from # t
      /\ \A k \in 1..(n - 1) : inbox[t][k].from # m.from
  BY <1>1, PortsReadsFirst
<1>3. out \in Seq(Envelope) /\ \A k \in DOMAIN out : out[k].from = t /\ out[k].k = "leader"
  <2>1. CASE host[t] # 0 /\ leader[t] # Nobody
    <3>1. info[t] # 0 /\ info[t] \in 0..MaxTerms
      BY <2>1 DEF PortsInv, HostLeads, ChannelTypeOK
    <3>2. info[t] \in Terms
      BY <3>1, BridgeAssumption DEF Terms
    <3>3. Leader(t, info[t]) \in Envelope /\ Leader(t, info[t]).from = t /\ Leader(t, info[t]).k = "leader"
      BY <3>2, EnvelopesMade DEF Leader
    <3>4. out = <<Leader(t, info[t])>>
      BY <2>1
    <3> HIDE DEF out
    <3> QED
      BY <3>3, <3>4, OneEnvelope
  <2>2. CASE ~(host[t] # 0 /\ leader[t] # Nobody)
    BY <2>2, NoEnvelope
  <2> QED
    BY <2>1, <2>2
<1> HIDE DEF out
<1>4. PortsTypeOK'
  BY <1>1 DEF PortsTypeOK
<1>5. Flows(Envelope, t, n, out)
  BY <1>1, <1>3, PortsTaken DEF PortsInv
<1>6. \A u \in Tabs : HasPort(t, u) => HasPort(t, u)'
  BY <1>1 DEF HasPort
<1>7. \A k \in DOMAIN out : out[k].from = t /\ out[k].k # "port"
  BY <1>3
<1>8. m.k \notin Ends /\ m.k # "port"
  BY <1>2 DEF Ends
<1>9. QuietStep(t, n, out)
  BY <1>1, <1>2, <1>6, <1>7, <1>8, OwnPorts DEF QuietStep
<1> QED
  BY <1>3, <1>4, <1>5, <1>9, PortsQuietKeeps

\* A leader's announcement: a host ignores it, another tab sends what waits.
LEMMA PortsLeaderKeeps ==
  ASSUME PortsTypeOK, ChannelTypeOK, PortsInv, NEW t \in Tabs, NEW n \in 1..Len(inbox[t]),
         PortsReceiveLeader(t, n)
  PROVE  PortsTypeOK' /\ ChannelTypeOK' /\ PortsInv'
<1> DEFINE m == inbox[t][n]
           flush == Flush(t, m.from)
<1>1. /\ Reads(t, n, "leader") /\ FollowLeader(t) /\ served' = served
      /\ UNCHANGED <<alive, closed, terms>>
      /\ \/ /\ host[t] # 0
            /\ TakeAndPost(t, n, <<>>) /\ KeepLeader
         \/ /\ host[t] = 0
            /\ SetLeader(t, m.from, m.info, 0)
            /\ TakeAndPost(t, n, Dispatched(t, m.from) \o flush)
  BY DEF PortsReceiveLeader, ReceiveLeader
<1>2. /\ t \in alive /\ Listens(t) /\ m \in Envelope /\ n # 0
      /\ m.k = "leader" /\ m.from \in Tabs /\ m.from # t
      /\ \A k \in 1..(n - 1) : inbox[t][k].from # m.from
  BY <1>1, PortsReadsFirst
<1>3. m.info \in Terms
  BY <1>2, EnvelopeRead
<1>4. /\ endpoint' \in [Tabs -> EndpointRecord]
      /\ DOMAIN micro' = Tabs /\ \A u \in Tabs : micro'[u] \in Seq(MicroRecord(u))
      /\ \A u \in Tabs : u # t => endpoint'[u] = endpoint[u]
      /\ endpoint'[t].st = endpoint[t].st /\ endpoint'[t].told = endpoint[t].told
      /\ endpoint'[t].st = "none" => Waitless(endpoint'[t])
      /\ endpoint[t].st = "open" =>
           /\ endpoint'[t].queued # <<>> => leader'[t] = Nobody
           /\ endpoint'[t].inFlight # {} => leader'[t] # Nobody
  BY <1>1, Followed
<1>5. PortsTypeOK'
  BY <1>1, <1>4, PortTypes, PortTypesNext
<1>6. \A u \in Tabs : HasPort(t, u) => HasPort(t, u)'
  BY <1>1, <1>4 DEF HasPort
<1>7. m.k \notin Ends /\ m.k # "port"
  BY <1>2 DEF Ends
<1>8. CASE TakeAndPost(t, n, <<>>) /\ KeepLeader
  <2>1. UNCHANGED <<leader, info, host, calls>>
    BY <1>8 DEF KeepLeader
  <2>2. Flows(Envelope, t, n, <<>>)
    BY <1>1, <1>8, NoEnvelope, PortsTaken DEF PortsInv
  <2>3. endpoint'[t].st = "open" => Listens(t)
    BY <1>4, OwnPorts
  <2>4. QuietStep(t, n, <<>>)
    BY <1>1, <1>2, <1>4, <1>6, <1>7, <2>1, <2>3, OwnPorts, NoEnvelope DEF QuietStep
  <2> QED
    BY <1>5, <2>2, <2>4, NoEnvelope, PortsQuietKeeps
<1>9. CASE host[t] = 0 /\ SetLeader(t, m.from, m.info, 0)
           /\ TakeAndPost(t, n, Dispatched(t, m.from) \o flush)
  <2>1. /\ flush \in Seq(Envelope)
        /\ \A k \in DOMAIN flush :
             flush[k].k = "port" /\ flush[k].from = t /\ ~flush[k].answer /\ endpoint[t].st = "open"
    BY <1>2, Flushed
  <2> HIDE DEF flush
  <2>2. Dispatched(t, m.from) \o flush = flush
    <3>1. Dispatched(t, m.from) = <<>>
      BY NobodyCalls
    <3> QED
      BY <2>1, <3>1
  <2>3. TakeAndPost(t, n, flush)
    BY <1>9, <2>2
  <2>4. Flows(Envelope, t, n, flush)
    BY <1>1, <2>1, <2>3, PortsTaken DEF PortsInv
  <2>5. m.info \in 0..MaxTerms /\ m.info # 0 /\ 0 \in 0..MaxTerms
    BY <1>3, BridgeAssumption DEF Terms
  <2>6. /\ host' \in [Tabs -> 0..MaxTerms] /\ info' \in [Tabs -> 0..MaxTerms]
        /\ leader' \in [Tabs -> Tabs \cup {Nobody}] /\ calls' = calls
        /\ host'[t] = 0 /\ leader'[t] = m.from /\ info'[t] = m.info
        /\ \A u \in Tabs : u # t => host'[u] = host[u] /\ leader'[u] = leader[u] /\ info'[u] = info[u]
    BY <1>2, <1>9, <2>5, LeaderTyped
  <2>7. terms' \in 0..MaxTerms
    BY <1>1 DEF ChannelTypeOK
  <2>8. ChannelTypeOK'
    BY <1>1, <2>4, <2>6, <2>7, ChannelNext
  <2>9. Listens(t)'
    BY <1>1, <1>2 DEF Listens
  <2>10. \A k \in DOMAIN flush : flush[k].from = t /\ ~flush[k].answer /\ endpoint'[t].st = "open"
    BY <1>4, <2>1
  <2>11. PortStep(t, n, flush)
    BY <1>1, <1>2, <1>4, <1>6, <1>7, <1>9, <2>5, <2>6, <2>9, <2>10, OwnPorts DEF PortStep
  <2>12. inbox \in [Tabs -> Seq(Envelope)]
    BY DEF ChannelTypeOK
  <2> QED
    BY <1>5, <2>1, <2>4, <2>8, <2>11, <2>12, PortsKept
<1> QED
  BY <1>1, <1>8, <1>9

\* A bye: the tab's ports are gone, and it leads no more.
LEMMA PortsByeKeeps ==
  ASSUME PortsTypeOK, ChannelTypeOK, PortsInv, NEW t \in Tabs, NEW n \in 1..Len(inbox[t]),
         PortsReceiveBye(t, n)
  PROVE  PortsTypeOK' /\ ChannelTypeOK' /\ PortsInv'
<1> DEFINE m == inbox[t][n]
<1>1. /\ Reads(t, n, "bye") /\ FollowLeader(t) /\ served' = [served EXCEPT ![t][m.from] = Free]
      /\ IF leader[t] = m.from THEN SetLeader(t, Nobody, 0, host[t]) ELSE KeepLeader
      /\ TakeAndPost(t, n, <<>>)
      /\ UNCHANGED <<alive, closed, terms>>
  BY DEF PortsReceiveBye, ReceiveBye
<1>2. /\ t \in alive /\ Listens(t) /\ n # 0
      /\ m.k = "bye" /\ m.from \in Tabs /\ m.from # t
      /\ \A k \in 1..(n - 1) : inbox[t][k].from # m.from
  BY <1>1, PortsReadsFirst
<1>3. /\ endpoint' \in [Tabs -> EndpointRecord]
      /\ DOMAIN micro' = Tabs /\ \A u \in Tabs : micro'[u] \in Seq(MicroRecord(u))
      /\ \A u \in Tabs : u # t => endpoint'[u] = endpoint[u]
      /\ endpoint'[t].st = endpoint[t].st /\ endpoint'[t].told = endpoint[t].told
      /\ endpoint'[t].st = "none" => Waitless(endpoint'[t])
      /\ endpoint[t].st = "open" =>
           /\ endpoint'[t].queued # <<>> => leader'[t] = Nobody
           /\ endpoint'[t].inFlight # {} => leader'[t] # Nobody
  BY <1>1, Followed
<1>4. /\ served' \in [Tabs -> [Tabs -> ServedRecord]]
      /\ \A u \in Tabs : u # t => served'[u] = served[u]
      /\ \A g \in Tabs : g # m.from => served'[t][g] = served[t][g]
      /\ ~served'[t][m.from].open /\ served'[t][m.from].todo = {}
  BY <1>1, <1>2, Freed
<1>5. PortsTypeOK'
  BY <1>3, <1>4, PortTypesNext
<1>6. Flows(Envelope, t, n, <<>>)
  BY <1>1, NoEnvelope, PortsTaken DEF PortsInv
<1>7. \A u \in Tabs : HasPort(t, u) => HasPort(t, u)'
  BY <1>1, <1>3 DEF HasPort
<1>8. \A f \in Tabs :
        /\ served'[t][f].open => host[t] # 0
        /\ ~served'[t][f].open => served'[t][f].todo = {}
        /\ served'[t][f].open => served[t][f].open /\ f # m.from
  BY <1>4, OwnPorts
<1>9. endpoint'[t].st = "open" => Listens(t)
  BY <1>3, OwnPorts
<1>10. CASE leader[t] # m.from
  <2>1. UNCHANGED <<leader, info, host, calls>>
    BY <1>1, <1>10 DEF KeepLeader
  <2>2. QuietStep(t, n, <<>>)
    BY <1>1, <1>2, <1>3, <1>4, <1>7, <1>8, <1>9, <2>1, NoEnvelope DEF QuietStep
  <2> QED
    BY <1>5, <1>6, <2>2, NoEnvelope, PortsQuietKeeps
<1>11. CASE leader[t] = m.from
  <2>1. host[t] = 0 /\ 0 \in 0..MaxTerms /\ Nobody # t
    BY <1>2, <1>11, BridgeAssumption, TabsAssumption DEF PortsInv, HostLeads
  <2>2. SetLeader(t, Nobody, 0, 0)
    BY <1>1, <1>11, <2>1
  <2>3. /\ host' \in [Tabs -> 0..MaxTerms] /\ info' \in [Tabs -> 0..MaxTerms]
        /\ leader' \in [Tabs -> Tabs \cup {Nobody}] /\ calls' = calls
        /\ host'[t] = 0 /\ leader'[t] = Nobody /\ info'[t] = 0
        /\ \A u \in Tabs : u # t => host'[u] = host[u] /\ leader'[u] = leader[u] /\ info'[u] = info[u]
    BY <1>1, <2>2, LeaderLeft
  <2>4. terms' \in 0..MaxTerms /\ inbox \in [Tabs -> Seq(Envelope)]
    BY <1>1 DEF ChannelTypeOK
  <2>5. ChannelTypeOK'
    BY <1>1, <1>6, <2>3, <2>4, ChannelNext
  <2>6. Listens(t)'
    BY <1>1, <1>2 DEF Listens
  <2>7. PortStep(t, n, <<>>)
    BY <1>1, <1>2, <1>3, <1>4, <1>7, <1>8, <2>1, <2>3, <2>6, NoEnvelope DEF PortStep
  <2> QED
    BY <1>5, <1>6, <2>4, <2>5, <2>7, NoEnvelope, PortsKept
<1> QED
  BY <1>10, <1>11

\* close: everybody is told.
LEMMA PortsShutKeeps ==
  ASSUME PortsTypeOK, ChannelTypeOK, PortsInv, NEW t \in Tabs, PortsShut(t)
  PROVE  PortsTypeOK' /\ ChannelTypeOK' /\ PortsInv'
<1> DEFINE out == <<Bye(t)>>
           e == EndpointUnder(endpoint[t], leader[t], Nobody)
           st == IF e.st = "none" THEN e.st ELSE "closed"
           told == IF e.st = "open" THEN Tabs ELSE e.told
           shut == Becoming(e, st, told)
<1>1. /\ Listens(t) /\ StopServing(t) /\ UNCHANGED <<alive, terms, micro>>
      /\ closed' = [closed EXCEPT ![t] = TRUE]
      /\ leader' = [leader EXCEPT ![t] = Nobody]
      /\ info' = [info EXCEPT ![t] = 0]
      /\ host' = [host EXCEPT ![t] = 0]
      /\ calls' = [calls EXCEPT ![t] =
           [id \in Calls |-> IF calls[t][id].st \in {"queued", "sent"}
                             THEN [calls[t][id] EXCEPT !.st = "changed"] ELSE calls[t][id]]]
      /\ inbox' = [Post(inbox, t, out) EXCEPT ![t] = <<>>]
      /\ endpoint' = [endpoint EXCEPT ![t] = shut]
  <2> HIDE DEF e, out
  <2>1. endpoint' = [endpoint EXCEPT ![t] = [e EXCEPT !.st = st, !.told = told]]
    BY DEF PortsShut, e
  <2>2. endpoint' = [endpoint EXCEPT ![t] = shut]
    BY <2>1 DEF Becoming
  <2> QED
    BY <2>2 DEF PortsShut, Shut, Close, CloseKnowing, out
<1>2. /\ host \in [Tabs -> 0..MaxTerms] /\ info \in [Tabs -> 0..MaxTerms]
      /\ leader \in [Tabs -> Tabs \cup {Nobody}] /\ closed \in [Tabs -> BOOLEAN]
      /\ calls = [u \in Tabs |-> [id \in Calls |-> Idle]] /\ terms \in 0..MaxTerms
      /\ inbox \in [Tabs -> Seq(Envelope)] /\ alive \subseteq Tabs
  BY DEF ChannelTypeOK
<1>3. endpoint \in [Tabs -> EndpointRecord]
  BY PortTypes
<1>4. calls' = calls
  <2>1. Idle.st = "none"
    BY DEF Idle
  <2>2. [id \in Calls |-> IF calls[t][id].st \in {"queued", "sent"}
                          THEN [calls[t][id] EXCEPT !.st = "changed"] ELSE calls[t][id]]
          = [id \in Calls |-> Idle]
    BY <1>2, <2>1
  <2>3. calls' = [calls EXCEPT ![t] = [id \in Calls |-> Idle]]
    BY <1>1, <2>2
  <2>4. calls[t] = [id \in Calls |-> Idle]
    BY <1>2
  <2> QED
    BY <1>2, <2>3, <2>4
<1>5. /\ closed' \in [Tabs -> BOOLEAN] /\ closed'[t] /\ \A u \in Tabs : u # t => closed'[u] = closed[u]
      /\ host' \in [Tabs -> 0..MaxTerms] /\ info' \in [Tabs -> 0..MaxTerms]
      /\ leader' \in [Tabs -> Tabs \cup {Nobody}]
      /\ host'[t] = 0 /\ leader'[t] = Nobody /\ info'[t] = 0
      /\ \A u \in Tabs : u # t => host'[u] = host[u] /\ leader'[u] = leader[u] /\ info'[u] = info[u]
  BY <1>1, <1>2, BridgeAssumption
<1>6. Bye(t) \in Envelope /\ Bye(t).from = t /\ Bye(t).k = "bye"
  BY EnvelopesMade DEF Bye
<1>7. out \in Seq(Envelope) /\ \A k \in DOMAIN out : out[k] = Bye(t)
  BY <1>6, OneEnvelope
<1>8. \A u \in Tabs : Tells(t, u, {"bye"}, out) /\ Tells(t, u, Ends, out)
  BY <1>1, ByeTells DEF Ends
<1> HIDE DEF out
<1>9. ~Listens(t)' /\ \A u \in Tabs \ {t} : Listens(u)' <=> Listens(u)
  BY <1>1, <1>5 DEF Listens
<1>10. Flows(Envelope, t, 0, out)
  <2>1. 0 \in 0..Len(inbox[t])
    BY <1>2
  <2> QED
    BY <1>1, <1>2, <1>7, <1>9, <2>1, Flow DEF PortsInv
<1>11. ChannelTypeOK'
  <2>1. inbox' \in [Tabs -> Seq(Envelope)]
    BY <1>10 DEF Flows
  <2> QED
    BY <1>1, <1>2, <1>4, <1>5, <2>1 DEF ChannelTypeOK
<1>12. /\ endpoint[t].st = "open" /\ endpoint[t].inFlight # {} => leader[t] # Nobody
       /\ endpoint[t].st = "none" => Waitless(endpoint[t])
  BY OwnPorts
<1>13. /\ e \in EndpointRecord /\ e.st = endpoint[t].st /\ e.told = endpoint[t].told
       /\ e.st = "none" => Waitless(e)
  <2>1. endpoint[t] \in EndpointRecord
    BY <1>3
  <2>2. /\ e \in EndpointRecord /\ e.st = endpoint[t].st /\ e.told = endpoint[t].told
        /\ endpoint[t].st # "open" => e = endpoint[t]
    BY <1>12, <2>1, UnderLeader
  <2> HIDE DEF e
  <2>3. e.st = "none" => Waitless(e)
    BY <1>12, <2>2
  <2> QED
    BY <2>2, <2>3
<1> HIDE DEF e
<1>14. e.st \in {"none", "open", "closed"} /\ e.told \in SUBSET Tabs
  BY <1>13, EndpointRead
<1>15. st \in {"none", "open", "closed"} /\ st # "open" /\ told \in SUBSET Tabs
  BY <1>14
<1>16. /\ endpoint[t].st = "none" => st = "none" /\ told = e.told
       /\ endpoint[t].st # "none" => st = "closed"
       /\ endpoint[t].st # "open" => told = endpoint[t].told
  BY <1>13
<1> HIDE DEF st, told
<1>17. /\ shut \in EndpointRecord /\ shut.st = st /\ shut.told = told
       /\ shut.queued = e.queued /\ shut.inFlight = e.inFlight
  <2> HIDE DEF shut
  <2>1. shut = Becoming(e, st, told)
    BY DEF shut
  <2>2. e \in EndpointRecord
    BY <1>13
  <2>3. /\ Becoming(e, st, told) \in EndpointRecord
        /\ Becoming(e, st, told).st = st /\ Becoming(e, st, told).told = told
        /\ Becoming(e, st, told).queued = e.queued /\ Becoming(e, st, told).inFlight = e.inFlight
    BY <1>15, <2>2, EndpointClosed
  <2> QED
    BY <2>1, <2>3
<1> HIDE DEF shut
<1>18. /\ endpoint' \in [Tabs -> EndpointRecord] /\ endpoint'[t] = shut
       /\ \A u \in Tabs : u # t => endpoint'[u] = endpoint[u]
  BY <1>1, <1>3, <1>17
<1>19. endpoint'[t].st = "none" => Waitless(endpoint'[t])
  <2> SUFFICES ASSUME st = "none"
               PROVE  Waitless(shut)
    BY <1>17, <1>18
  <2>1. endpoint[t].st = "none"
    BY <1>16
  <2>2. Waitless(e) /\ told = e.told
    BY <1>13, <1>16, <2>1
  <2> QED
    BY <1>17, <2>2 DEF Waitless
<1>20. /\ served' \in [Tabs -> [Tabs -> ServedRecord]]
       /\ \A u \in Tabs : u # t => served'[u] = served[u]
       /\ \A f \in Tabs : ~served'[t][f].open /\ served'[t][f].todo = {}
  BY <1>1, Stopped
<1>21. PortsTypeOK'
  BY <1>1, <1>18, <1>20, PortTypes, PortTypesNext
<1>22. endpoint'[t].st # "open" /\ t \in alive /\ Nobody # t
  BY <1>1, <1>15, <1>17, <1>18, TabsAssumption DEF Listens
<1>23. PortStep(t, 0, out)
  BY <1>1, <1>5, <1>6, <1>7, <1>8, <1>18, <1>19, <1>20, <1>22 DEF PortStep
<1> QED
  BY <1>2, <1>7, <1>10, <1>11, <1>21, <1>23, PortsKept

\* A tab that vanishes takes its ports with it, and tells nobody.
LEMMA PortsVanishKeeps ==
  ASSUME PortsTypeOK, ChannelTypeOK, PortsInv, NEW t \in Tabs, PortsVanish(t)
  PROVE  PortsTypeOK' /\ ChannelTypeOK' /\ PortsInv'
<1>1. /\ t \in alive /\ alive' = alive \ {t} /\ StopServing(t) /\ UNCHANGED <<closed, terms>>
      /\ leader' = [leader EXCEPT ![t] = Nobody]
      /\ info' = [info EXCEPT ![t] = 0]
      /\ host' = [host EXCEPT ![t] = 0]
      /\ calls' = [calls EXCEPT ![t] = [id \in Calls |-> Idle]]
      /\ inbox' = [inbox EXCEPT ![t] = <<>>]
      /\ endpoint' = [endpoint EXCEPT ![t] = Unopened]
      /\ micro' = [micro EXCEPT ![t] = <<>>]
  BY DEF PortsVanish, Vanish, BridgeCrash
<1>2. /\ host \in [Tabs -> 0..MaxTerms] /\ info \in [Tabs -> 0..MaxTerms]
      /\ leader \in [Tabs -> Tabs \cup {Nobody}] /\ closed \in [Tabs -> BOOLEAN]
      /\ calls = [u \in Tabs |-> [id \in Calls |-> Idle]] /\ terms \in 0..MaxTerms
      /\ inbox \in [Tabs -> Seq(Envelope)] /\ alive \subseteq Tabs
  BY DEF ChannelTypeOK
<1>3. /\ endpoint \in [Tabs -> EndpointRecord]
      /\ DOMAIN micro = Tabs /\ \A u \in Tabs : micro[u] \in Seq(MicroRecord(u))
  BY PortTypes
<1>4. calls' = calls
  <2>1. calls[t] = [id \in Calls |-> Idle]
    BY <1>2
  <2> QED
    BY <1>1, <1>2, <2>1
<1>5. /\ host' \in [Tabs -> 0..MaxTerms] /\ info' \in [Tabs -> 0..MaxTerms]
      /\ leader' \in [Tabs -> Tabs \cup {Nobody}]
      /\ host'[t] = 0 /\ leader'[t] = Nobody /\ info'[t] = 0
      /\ \A u \in Tabs : u # t => host'[u] = host[u] /\ leader'[u] = leader[u] /\ info'[u] = info[u]
  BY <1>1, <1>2, BridgeAssumption
<1>6. ~Listens(t)' /\ \A u \in Tabs \ {t} : Listens(u)' <=> Listens(u)
  BY <1>1 DEF Listens
<1>7. Flows(Envelope, t, 0, <<>>)
  <2>1. 0 \in 0..Len(inbox[t])
    BY <1>2
  <2>2. inbox' = [Post(inbox, t, <<>>) EXCEPT ![t] = <<>>]
    BY <1>1 DEF Post
  <2> QED
    BY <1>2, <1>6, <2>1, <2>2, NoEnvelope, Flow DEF PortsInv
<1>8. ChannelTypeOK'
  <2>1. inbox' \in [Tabs -> Seq(Envelope)]
    BY <1>7 DEF Flows
  <2> QED
    BY <1>1, <1>2, <1>4, <1>5, <2>1 DEF ChannelTypeOK
<1>9. Unopened \in EndpointRecord /\ Unopened.st = "none" /\ Waitless(Unopened)
  <2>1. 1 \in 1..(MaxPosts + 1)
    BY PortsAssumption
  <2> QED
    BY <2>1 DEF Unopened, EndpointRecord, Waitless
<1>10. /\ endpoint' \in [Tabs -> EndpointRecord] /\ endpoint'[t] = Unopened
       /\ \A u \in Tabs : u # t => endpoint'[u] = endpoint[u]
  BY <1>1, <1>3, <1>9
<1>11. DOMAIN micro' = Tabs /\ \A u \in Tabs : micro'[u] \in Seq(MicroRecord(u))
  <2>1. <<>> \in Seq(MicroRecord(t))
    OBVIOUS
  <2> QED
    BY <1>1, <1>3, <2>1
<1>12. /\ served' \in [Tabs -> [Tabs -> ServedRecord]]
       /\ \A u \in Tabs : u # t => served'[u] = served[u]
       /\ \A f \in Tabs : ~served'[t][f].open /\ served'[t][f].todo = {}
  BY <1>1, Stopped
<1>13. PortsTypeOK'
  BY <1>10, <1>11, <1>12, PortTypesNext
<1>14. \A u \in Tabs : HasPort(t, u)'
  BY <1>1 DEF HasPort
<1>15. t \notin alive' /\ Nobody # t
  BY <1>1, TabsAssumption
<1>16. PortStep(t, 0, <<>>)
  BY <1>1, <1>5, <1>9, <1>10, <1>12, <1>14, <1>15, NoEnvelope DEF PortStep
<1> QED
  BY <1>2, <1>7, <1>8, <1>13, <1>16, NoEnvelope, PortsKept

\* At the start there is no port.
LEMMA PortsInitially ==
  ASSUME PortsInit
  PROVE  PortsTypeOK /\ ChannelTypeOK /\ PortsInv
<1>1. /\ alive = Tabs /\ host = [t \in Tabs |-> 0] /\ leader = [t \in Tabs |-> Nobody]
      /\ info = [t \in Tabs |-> 0] /\ closed = [t \in Tabs |-> FALSE]
      /\ calls = [t \in Tabs |-> [i \in Calls |-> Idle]]
      /\ inbox = [t \in Tabs |-> <<>>] /\ terms = 0
      /\ endpoint = [t \in Tabs |-> Unopened]
      /\ served = [t \in Tabs |-> [f \in Tabs |-> Free]]
      /\ micro = [t \in Tabs |-> <<>>]
  BY DEF PortsInit, BridgeInit
<1>2. Unopened \in EndpointRecord /\ Unopened.st = "none" /\ Waitless(Unopened)
  <2>1. 1 \in 1..(MaxPosts + 1)
    BY PortsAssumption
  <2> QED
    BY <2>1 DEF Unopened, EndpointRecord, Waitless
<1>3. Free \in ServedRecord /\ ~Free.open /\ Free.todo = {}
  BY DEF Free, ServedRecord
<1>4. PortsTypeOK
  <2>1. endpoint \in [Tabs -> EndpointRecord] /\ served \in [Tabs -> [Tabs -> ServedRecord]]
    BY <1>1, <1>2, <1>3
  <2>2. DOMAIN micro = Tabs /\ \A t \in Tabs : micro[t] \in Seq(MicroRecord(t))
    BY <1>1
  <2> QED
    BY <2>1, <2>2 DEF PortsTypeOK, EndpointRecord, ServedRecord, MicroRecord
<1>5. ChannelTypeOK
  <2>1. inbox \in [Tabs -> Seq(Envelope)]
    BY <1>1
  <2> QED
    BY <1>1, <2>1, BridgeAssumption DEF ChannelTypeOK
<1>6. \A t \in Tabs : /\ inbox[t] = <<>> /\ host[t] = 0 /\ leader[t] = Nobody /\ Nobody # t
                      /\ endpoint[t] = Unopened /\ \A f \in Tabs : served[t][f] = Free
  BY <1>1, TabsAssumption
<1>7. HostLeads
  BY <1>1, <1>6 DEF HostLeads, Listens
<1>8. OneHostServes /\ OpenListens /\ MessagesEndWithPort /\ NoStrandedPort
  BY <1>2, <1>3, <1>6 DEF OneHostServes, OpenListens, MessagesEndWithPort, NoStrandedPort
<1> QED
  BY <1>4, <1>5, <1>7, <1>8 DEF PortsInv

\* The types and PortsInv are kept by every step.
LEMMA PortsInvInductive ==
  ASSUME PortsTypeOK, ChannelTypeOK, PortsInv, [PortsNext]_<<bridgeVars, portVars>>
  PROVE  PortsTypeOK' /\ ChannelTypeOK' /\ PortsInv'
<1>1. CASE UNCHANGED <<bridgeVars, portVars>>
  <2>1. /\ UNCHANGED <<alive, host, leader, info, closed, calls, inbox, terms, endpoint, served, micro>>
    BY <1>1 DEF bridgeVars, portVars
  <2>2. PortsTypeOK' /\ ChannelTypeOK'
    BY <2>1 DEF PortsTypeOK, ChannelTypeOK
  <2>3. HostLeads' /\ OneHostServes' /\ OpenListens'
    BY <2>1 DEF PortsInv, HostLeads, OneHostServes, OpenListens, Listens
  <2>4. MessagesEndWithPort'
    BY <2>1 DEF PortsInv, MessagesEndWithPort, HasPort, SaysBehind
  <2>5. NoStrandedPort'
    BY <2>1 DEF PortsInv, NoStrandedPort, EndsAt, Listens
  <2> QED
    BY <2>2, <2>3, <2>4, <2>5 DEF PortsInv
<1>2. ASSUME NEW t \in Tabs, NEW n \in 1..Len(inbox[t]), PortsReceive(t, n)
      PROVE  PortsTypeOK' /\ ChannelTypeOK' /\ PortsInv'
  <2>1. CASE ReceiveHello(t, n) /\ UNCHANGED portVars
    BY <2>1, PortsHelloKeeps
  <2>2. CASE PortsReceiveLeader(t, n)
    BY <2>2, PortsLeaderKeeps
  <2>3. CASE PortsReceiveBye(t, n)
    BY <2>3, PortsByeKeeps
  <2>4. CASE ReceivePort(t, n)
    BY <2>4, ReceivePortKeeps
  <2>5. CASE ReceivePortClose(t, n)
    BY <2>5, ReceivePortCloseKeeps
  <2> QED
    BY <1>2, <2>1, <2>2, <2>3, <2>4, <2>5 DEF PortsReceive
<1>3. ASSUME NEW t \in Tabs,
             \/ PortsLead(t) \/ PortsGiveUp(t) \/ PortsAsk(t) \/ PortsGoAway(t) \/ PortsShut(t) \/ PortsVanish(t)
             \/ Connect(t) \/ PostMessage(t) \/ ClosePort(t) \/ Microtask(t)
             \/ \E f \in Tabs : AnswerPort(t, f)
      PROVE  PortsTypeOK' /\ ChannelTypeOK' /\ PortsInv'
  BY <1>3, PortsLeadKeeps, PortsGiveUpKeeps, PortsAskKeeps, PortsGoAwayKeeps, PortsShutKeeps, PortsVanishKeeps,
     ConnectKeeps, PostMessageKeeps, ClosePortKeeps, MicrotaskKeeps, AnswerPortKeeps
<1> QED
  BY <1>1, <1>2, <1>3 DEF PortsNext

\* The types and the inductive invariant of the ports hold throughout.
THEOREM PortsInvariant == PortsSpec => [](PortsTypeOK /\ ChannelTypeOK /\ PortsInv)
BY PortsInitially, PortsInvInductive, PTL DEF PortsSpec

\* No port is stranded at either end: a message waits only while no leader is
\* known and is out only while one is, and a host serves no port of a tab that
\* told it that the port is gone (tab-bridge.ts, #setLeader, closePort, #receive).
THEOREM PortsStrandNone == PortsSpec => []NoStrandedPort
<1>1. PortsInv => NoStrandedPort
  BY DEF PortsInv
<1> QED
  BY <1>1, PortsInvariant, PTL

\* The state of the ports has its types.
THEOREM PortsTypeCorrect == PortsSpec => []PortsTypeOK
BY PortsInvariant, PTL
=============================================================================
