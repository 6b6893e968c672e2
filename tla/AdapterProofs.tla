--------------------------- MODULE AdapterProofs ---------------------------
(***************************************************************************)
(* Proofs about what a caller relies on beyond one call: a transaction, a  *)
(* key that discovery vouches for, an account's consent, and a handle.     *)
(***************************************************************************)
EXTENDS Transactions, KeyDiscovery, MetadataConsent, CursorHandles, FiniteSetTheorems, WellFoundedInduction, TLAPS

-----------------------------------------------------------------------------
(* MetadataConsent: what the bounds of the request need of a discovery.     *)
Accounted ==
  /\ resource = "dataset" => dispatched = tries
  /\ resource = "table" => dispatched <= MaxTries + tries
  /\ step \in {"remaining", "token", "attestAgain", "verifyAgain", "dispatch", "sleep"} => tries < MaxTries
  /\ step \in {"idle", "attest", "verify"} => tries = 0

(* The callback that still counts is the latest; a binding is of the login. *)
LatestCounts == /\ \A c \in connecting : ~c.aborted => c.callback = latest
                /\ SignedOutStaysOut
BoundToLogin == binding # None => login # 0 /\ binding.of = login

(* What the steps before an await have made sure of.                        *)
Underway ==
  /\ step \in Awaited \ {"attest"} => prepared # None
  /\ step \in {"attestAgain", "verifyAgain", "dispatch"} => token = prepared.of
  /\ stopped => step \in {"remaining", "token", "ended"}
ConsentInv == ConsentTypeOK /\ Accounted /\ LatestCounts /\ BoundToLogin /\ Underway

(* A step of the account or of the consumer, which leaves the discovery.    *)
LEMMA AccountSteps ==
  ASSUME ConsentInv, UNCHANGED discoverVars,
         Connect \/ Disconnect \/ (\E c \in connecting : ConnectAnswered(c)) \/ TokenExpires \/ Grant \/ Withdraw
  PROVE  ConsentInv'
<1> USE ConsentAssumption
<1>0. ConsentTypeOK /\ Accounted /\ LatestCounts /\ BoundToLogin /\ Underway
  BY DEF ConsentInv
<1>1. Accounted' /\ Underway'
  BY <1>0 DEF Accounted, Underway, discoverVars
<1>2. /\ step' \in Awaited \cup {"idle", "ended"} /\ prepared' \in Consents /\ heldConsent' \in Consents /\ delivered' \in Consents
      /\ heldLogin' \in 0..MaxLogins /\ token' \in 0..MaxLogins /\ resource' \in {"dataset", "table"}
      /\ tries' \in 0..MaxTries /\ stopped' \in BOOLEAN /\ dispatched' \in 0..(2 * MaxTries)
  BY <1>0 DEF ConsentTypeOK, discoverVars
<1>3. /\ login \in 0..MaxLogins /\ callbacks \in 0..MaxLogins /\ latest \in 0..MaxLogins /\ grants \in 0..MaxGrants /\ expired \in BOOLEAN
      /\ connecting \subseteq [callback : 1..MaxLogins, aborted : BOOLEAN] /\ binding \in Consents
  BY <1>0 DEF ConsentTypeOK
<1>4. \A c \in Aborted(connecting) : c \in [callback : 1..MaxLogins, aborted : BOOLEAN] /\ c.aborted
  BY <1>3 DEF Aborted
<1>5. CASE Connect
  <2>1. callbacks + 1 \in 1..MaxLogins
    BY <1>3, <1>5 DEF Connect
  <2>2. connecting' \subseteq [callback : 1..MaxLogins, aborted : BOOLEAN]
    <3>1. [callback |-> callbacks + 1, aborted |-> FALSE] \in [callback : 1..MaxLogins, aborted : BOOLEAN]
      BY <2>1
    <3>2. connecting' = Aborted(connecting) \cup {[callback |-> callbacks + 1, aborted |-> FALSE]}
      BY <1>5 DEF Connect
    <3> QED
      BY <1>4, <3>1, <3>2
  <2>6. /\ login' \in 0..MaxLogins /\ expired' \in BOOLEAN /\ callbacks' \in 0..MaxLogins /\ latest' \in 0..MaxLogins
        /\ binding' = binding /\ grants' = grants
    <3>1. login' = 0 /\ callbacks' = callbacks + 1 /\ latest' = callbacks + 1 /\ binding' = binding /\ grants' = grants
      BY <1>5 DEF Connect, Disconnected
    <3>2. expired' = FALSE
      BY <1>5 DEF Connect, Disconnected
    <3>3. 0 \in 0..MaxLogins /\ callbacks + 1 \in 0..MaxLogins
      BY <2>1
    <3> QED
      BY <3>1, <3>2, <3>3
  <2>3. ConsentTypeOK'
    BY <1>2, <1>3, <2>2, <2>6 DEF ConsentTypeOK
  <2>4. LatestCounts'
    BY <1>4, <1>5 DEF Connect, Disconnected, LatestCounts, SignedOutStaysOut
  <2>5. BoundToLogin'
    BY <1>5 DEF Connect, BoundToLogin, None
  <2> QED
    BY <1>1, <2>3, <2>4, <2>5 DEF ConsentInv
<1>6. CASE Disconnect
  <2>1. connecting' \subseteq [callback : 1..MaxLogins, aborted : BOOLEAN]
    BY <1>4, <1>6 DEF Disconnect
  <2>5. /\ login' \in 0..MaxLogins /\ expired' \in BOOLEAN /\ callbacks' = callbacks /\ latest' \in 0..MaxLogins
        /\ binding' = binding /\ grants' = grants
    <3>1. login' = 0 /\ callbacks' = callbacks /\ latest' = 0 /\ binding' = binding /\ grants' = grants
      BY <1>6 DEF Disconnect, Disconnected
    <3>2. expired' = FALSE
      BY <1>6 DEF Disconnect, Disconnected
    <3>3. 0 \in 0..MaxLogins
      OBVIOUS
    <3> QED
      BY <3>1, <3>2, <3>3
  <2>2. ConsentTypeOK'
    BY <1>2, <1>3, <2>1, <2>5 DEF ConsentTypeOK
  <2>3. LatestCounts'
    BY <1>4, <1>6 DEF Disconnect, Disconnected, LatestCounts, SignedOutStaysOut
  <2>4. BoundToLogin'
    BY <1>6 DEF Disconnect, BoundToLogin, None
  <2> QED
    BY <1>1, <2>2, <2>3, <2>4 DEF ConsentInv
<1>7. ASSUME NEW c \in connecting, ConnectAnswered(c) PROVE ConsentInv'
  <2>1. c.callback \in 1..MaxLogins /\ connecting' \subseteq connecting
    BY <1>3, <1>7 DEF ConnectAnswered
  <2>2. ~c.aborted => c.callback = latest
    BY <1>0 DEF LatestCounts
  <2>3. login # 0 => login = latest
    BY <1>0 DEF LatestCounts, SignedOutStaysOut
  <2>4. /\ login' \in 0..MaxLogins /\ expired' \in BOOLEAN /\ (login' # 0 => login' = latest) /\ (login # 0 => login' = login)
    BY <1>3, <1>7, <2>1, <2>2, <2>3 DEF ConnectAnswered, StillWanted
  <2>5. UNCHANGED <<callbacks, latest, binding, grants>>
    BY <1>7 DEF ConnectAnswered
  <2>6. ConsentTypeOK'
    BY <1>2, <1>3, <2>1, <2>4, <2>5 DEF ConsentTypeOK
  <2>7. LatestCounts'
    BY <1>0, <2>1, <2>4, <2>5 DEF LatestCounts, SignedOutStaysOut
  <2>8. BoundToLogin'
    BY <1>0, <2>4, <2>5 DEF BoundToLogin
  <2> QED
    BY <1>1, <2>6, <2>7, <2>8 DEF ConsentInv
<1>8. CASE TokenExpires
  <2>1. UNCHANGED <<login, callbacks, latest, connecting, binding, grants>> /\ expired' = TRUE
    BY <1>8 DEF TokenExpires
  <2>2. ConsentTypeOK'
    BY <1>2, <1>3, <2>1 DEF ConsentTypeOK
  <2> QED
    BY <1>0, <1>1, <2>1, <2>2 DEF ConsentInv, LatestCounts, SignedOutStaysOut, BoundToLogin
<1>9. CASE Grant
  <2>1. UNCHANGED <<login, expired, callbacks, latest, connecting>>
    BY <1>9 DEF Grant, accountVars
  <2>2. grants + 1 \in 1..MaxGrants /\ login \in 1..MaxLogins /\ grants' = grants + 1 /\ binding' = [id |-> grants + 1, of |-> login]
    BY <1>3, <1>9 DEF Grant
  <2>3. binding' \in Consents
    BY <2>2 DEF Consents
  <2>4. ConsentTypeOK'
    BY <1>2, <1>3, <2>1, <2>2, <2>3 DEF ConsentTypeOK
  <2>5. LatestCounts'
    BY <1>0, <2>1 DEF LatestCounts, SignedOutStaysOut
  <2>6. BoundToLogin'
    BY <2>1, <2>2 DEF BoundToLogin
  <2> QED
    BY <1>1, <2>4, <2>5, <2>6 DEF ConsentInv
<1>10. CASE Withdraw
  <2>1. UNCHANGED <<login, expired, callbacks, latest, connecting>> /\ grants' = grants /\ binding' = None
    BY <1>10 DEF Withdraw, accountVars
  <2>2. ConsentTypeOK'
    BY <1>2, <1>3, <2>1 DEF ConsentTypeOK, Consents
  <2>3. LatestCounts' /\ BoundToLogin'
    BY <1>0, <2>1 DEF LatestCounts, SignedOutStaysOut, BoundToLogin, None
  <2> QED
    BY <1>1, <2>2, <2>3 DEF ConsentInv
<1> QED
  BY <1>5, <1>6, <1>7, <1>8, <1>9, <1>10

(* A step of the discovery, which leaves the account and the binding.       *)
LEMMA DiscoverySteps ==
  ASSUME ConsentInv,
         \/ Discover \/ Prepare \/ Verify \/ Remaining \/ TakeToken \/ AttestAgain \/ VerifyAgain \/ Dispatch
         \/ Responds \/ Retry \/ AttestLast \/ VerifyLast \/ Deliver \/ DiscoverFails \/ Stop
  PROVE  ConsentInv'
<1> USE ConsentAssumption
<1>0. ConsentTypeOK /\ Accounted /\ LatestCounts /\ BoundToLogin /\ Underway
  BY DEF ConsentInv
<1>1. UNCHANGED <<login, expired, callbacks, latest, connecting, binding, grants>>
  BY DEF Discover, Prepare, Verify, Remaining, TakeToken, AttestAgain, VerifyAgain, Dispatch, Responds, Retry, AttestLast,
         VerifyLast, Deliver, DiscoverFails, Stop, Attested, Verified, Outside, accountVars
<1>2. LatestCounts' /\ BoundToLogin'
  BY <1>0, <1>1 DEF LatestCounts, SignedOutStaysOut, BoundToLogin
<1>3. /\ login \in 0..MaxLogins /\ callbacks \in 0..MaxLogins /\ latest \in 0..MaxLogins /\ grants \in 0..MaxGrants /\ expired \in BOOLEAN
      /\ connecting \subseteq [callback : 1..MaxLogins, aborted : BOOLEAN] /\ binding \in Consents
      /\ step \in Awaited \cup {"idle", "ended"} /\ prepared \in Consents /\ heldConsent \in Consents /\ delivered \in Consents
      /\ heldLogin \in 0..MaxLogins /\ token \in 0..MaxLogins /\ resource \in {"dataset", "table"}
      /\ tries \in 0..MaxTries /\ stopped \in BOOLEAN /\ dispatched \in 0..(2 * MaxTries)
  BY <1>0 DEF ConsentTypeOK
<1>4. SUFFICES ASSUME TRUE
      PROVE /\ step' \in Awaited \cup {"idle", "ended"} /\ prepared' \in Consents /\ heldConsent' \in Consents /\ delivered' \in Consents
            /\ heldLogin' \in 0..MaxLogins /\ token' \in 0..MaxLogins /\ resource' \in {"dataset", "table"}
            /\ tries' \in 0..MaxTries /\ stopped' \in BOOLEAN /\ dispatched' \in 0..(2 * MaxTries)
            /\ Accounted' /\ Underway'
  BY <1>1, <1>2, <1>3 DEF ConsentInv, ConsentTypeOK
<1> USE <1>0, <1>1, <1>3 DEF Accounted, Underway, Awaited, Outside, OnTo, GivenUp
<1>5. CASE Discover
  BY <1>5 DEF Discover, Attest
<1>6. CASE Prepare
  BY <1>6 DEF Prepare
<1>7. CASE Verify
  BY <1>7 DEF Verify, Verified
<1>8. CASE Remaining
  BY <1>8 DEF Remaining, Authorize
<1>9. CASE TakeToken
  BY <1>9 DEF TakeToken, Verified
<1>10. CASE AttestAgain
  BY <1>10 DEF AttestAgain, Attested, Authorize
<1>11. CASE VerifyAgain
  BY <1>11 DEF VerifyAgain, Verified
<1>12. CASE Dispatch
  BY <1>12 DEF Dispatch, AssertCurrent
<1>13. CASE Responds
  BY <1>13 DEF Responds, Attest
<1>14. CASE Retry
  BY <1>14 DEF Retry
<1>15. CASE AttestLast
  BY <1>15 DEF AttestLast, Attested, Authorize
<1>16. CASE VerifyLast
  BY <1>16 DEF VerifyLast, Verified
<1>17. CASE Deliver
  BY <1>17 DEF Deliver, AssertCurrent
<1>18. CASE DiscoverFails
  BY <1>18 DEF DiscoverFails
<1>19. CASE Stop
  BY <1>19 DEF Stop
<1> QED
  BY <1>5, <1>6, <1>7, <1>8, <1>9, <1>10, <1>11, <1>12, <1>13, <1>14, <1>15, <1>16, <1>17, <1>18, <1>19

(* `ConsentInv' holds in every state of the provider and the discovery.     *)
THEOREM ConsentInvariant == ConsentSpec => []ConsentInv
<1>1. ConsentInit => ConsentInv
  <2> SUFFICES ASSUME ConsentInit PROVE ConsentInv
    OBVIOUS
  <2>1. ConsentTypeOK
    <3>1. /\ 0 \in 0..MaxLogins /\ 0 \in 0..MaxGrants /\ 0 \in 0..MaxTries /\ 0 \in 0..(2 * MaxTries) /\ None \in Consents
          /\ "idle" \in Awaited \cup {"idle", "ended"} /\ {} \subseteq [callback : 1..MaxLogins, aborted : BOOLEAN]
      BY ConsentAssumption DEF Consents
    <3> QED
      BY <3>1 DEF ConsentInit, ConsentTypeOK
  <2>2. Accounted /\ LatestCounts /\ BoundToLogin /\ Underway
    BY ConsentAssumption DEF ConsentInit, Accounted, LatestCounts, SignedOutStaysOut, BoundToLogin, Underway, Awaited
  <2> QED
    BY <2>1, <2>2 DEF ConsentInv
<1>2. ConsentInv /\ [ConsentNext]_consentVars => ConsentInv'
  <2> SUFFICES ASSUME ConsentInv, [ConsentNext]_consentVars PROVE ConsentInv'
    OBVIOUS
  <2>1. CASE Connect \/ Disconnect \/ (\E c \in connecting : ConnectAnswered(c)) \/ TokenExpires \/ Grant \/ Withdraw
    <3>1. UNCHANGED discoverVars
      BY <2>1 DEF Connect, Disconnect, ConnectAnswered, TokenExpires, Grant, Withdraw
    <3> QED
      BY <2>1, <3>1, AccountSteps
  <2>2. CASE \/ Discover \/ Prepare \/ Verify \/ Remaining \/ TakeToken \/ AttestAgain \/ VerifyAgain \/ Dispatch
             \/ Responds \/ Retry \/ AttestLast \/ VerifyLast \/ Deliver \/ DiscoverFails \/ Stop
    BY <2>2, DiscoverySteps
  <2>3. CASE UNCHANGED consentVars
    BY <2>3 DEF consentVars, ConsentInv, ConsentTypeOK, Accounted, LatestCounts, SignedOutStaysOut, BoundToLogin, Underway
  <2> QED
    BY <2>1, <2>2, <2>3 DEF ConsentNext
<1> QED
  BY <1>1, <1>2, PTL DEF ConsentSpec

(* Who is signed in is whom the latest callback brought, and nobody after a *)
(* sign-out, however late Google answers for the callbacks before.          *)
THEOREM ConsentSignedOutStaysOut == ConsentSpec => []SignedOutStaysOut
<1>1. ConsentInv => SignedOutStaysOut
  BY DEF ConsentInv, LatestCounts
<1> QED
  BY <1>1, ConsentInvariant, PTL

(* Every request leaves with the token of the account that is signed in,    *)
(* under the consent it was prepared with, and for a call still wanted.     *)
THEOREM ConsentDispatchIsAuthorised == ConsentSpec => DispatchIsAuthorised
<1>1. ConsentInv /\ [ConsentNext]_consentVars =>
        [dispatched' # dispatched => login # 0 /\ token = login /\ ~expired /\ binding = prepared /\ binding.of = token /\ ~stopped]_consentVars
  <2> SUFFICES ASSUME ConsentInv, [ConsentNext]_consentVars, dispatched' # dispatched
               PROVE  login # 0 /\ token = login /\ ~expired /\ binding = prepared /\ binding.of = token /\ ~stopped
    OBVIOUS
  <2>1. Dispatch
    <3>1. \/ dispatched' = dispatched \/ Dispatch
      BY DEF ConsentNext, consentVars, Connect, Disconnect, ConnectAnswered, TokenExpires, Grant, Withdraw, discoverVars, Discover, Prepare,
             Verify, Remaining, TakeToken, AttestAgain, VerifyAgain, Responds, Retry, AttestLast, VerifyLast, Deliver, DiscoverFails, Stop,
             Attested, Authorize, Attest, OnTo, GivenUp
    <3> QED
      BY <3>1
  <2>2. step = "dispatch" /\ AssertCurrent
    BY <2>1 DEF Dispatch, GivenUp
  <2>3. prepared # None /\ token = prepared.of /\ ~stopped
    BY <2>2 DEF ConsentInv, Underway, Awaited
  <2>4. binding = prepared /\ ~expired
    BY <2>2 DEF AssertCurrent
  <2>5. login # 0 /\ binding.of = login
    BY <2>3, <2>4 DEF ConsentInv, BoundToLogin
  <2> QED
    BY <2>3, <2>4, <2>5
<1> QED
  BY <1>1, ConsentInvariant, PTL DEF ConsentSpec, DispatchIsAuthorised

-----------------------------------------------------------------------------
(* KeyDiscovery: libSQL vouches for a column that SQLite keeps unique.      *)
LEMMA LibSQLKeyIsProven ==
  ASSUME catalog = "libsql", schema \in Schemas, LibSQLClaim(schema) = "metadata"
  PROVE  NamesOneRow(schema)
<1> DEFINE s == schema
<1>1. s.pk \in SUBSET Cols
  BY DEF Schemas
<1>2. ProvenKey(s) = {"id"} /\ situation # "wide"
  <2>1. ProvenKey(s) = {"id"}
    BY DEF LibSQLClaim
  <2> QED
    BY <2>1 DEF ProvenKey
<1>3. CASE s.pk # {}
  <2>1. ProvenKey(s) = {c \in s.pk : Cardinality(s.pk) = 1 /\ (DeclaredNotNull(s, c) \/ RowidAlias(s, c))}
    BY <1>2, <1>3 DEF ProvenKey
  <2>2. "id" \in s.pk /\ Cardinality(s.pk) = 1 /\ (DeclaredNotNull(s, "id") \/ RowidAlias(s, "id"))
    BY <1>2, <2>1
  <2>3. s.pk = {"id"}
    <3>1. IsFiniteSet(s.pk)
      <4>1. IsFiniteSet({"id"})
        BY FS_Singleton
      <4>2. IsFiniteSet({"id"} \cup {"other"})
        BY <4>1, FS_AddElement
      <4>3. Cols = {"id"} \cup {"other"}
        BY DEF Cols
      <4> QED
        BY <1>1, <4>2, <4>3, FS_Subset
    <3>2. \E c : s.pk = {c}
      BY <2>2, <3>1, FS_Singleton
    <3> QED
      BY <2>2, <3>2
  <2> QED
    BY <1>3, <2>2, <2>3 DEF NamesOneRow, RowidAlias, PkIndexed
<1>4. CASE s.pk = {}
  <2>1. UniqueIndexes(s) = {"id"}
    BY <1>2, <1>4 DEF ProvenKey
  <2> QED
    BY <2>1 DEF UniqueIndexes, NamesOneRow, Cols
<1> QED
  BY <1>3, <1>4

(* PostgREST vouches for the primary key that its document marks.           *)
LEMMA PostgrestKeyIsProven ==
  ASSUME catalog = "postgrest", schema \in Schemas, PostgrestClaim(schema) = "metadata"
  PROVE  NamesOneRow(schema) \/ (situation = "veiled" /\ "other" \in schema.pk)
<1>1. MarkedKey(schema) = {"id"}
  BY DEF PostgrestClaim
<1>2. CASE situation = "veiled"
  BY <1>1, <1>2 DEF MarkedKey, NamesOneRow
<1>3. CASE situation # "veiled"
  BY <1>1, <1>3 DEF MarkedKey, NamesOneRow
<1> QED
  BY <1>2, <1>3

(* What is claimed is what the catalog's own reading of the schema claims.  *)
DiscoveryInv ==
  /\ catalog \in Catalogs /\ schema \in Schemas
  /\ phaseOf = "read" => catalog = "libsql"
  /\ claim = "metadata" => claim = IF catalog = "libsql" THEN LibSQLClaim(schema) ELSE PostgrestClaim(schema)

(* Where discovery says that the metadata prove the key, the column names   *)
(* one row: the theorem covers every length of the inventory.               *)
THEOREM DiscoveryKeyIsProven == DiscoverySpec => []KeyIsProven
<1>1. DiscoveryInit => DiscoveryInv
  BY DEF DiscoveryInit, DiscoveryInv
<1>2. DiscoveryInv /\ [DiscoveryNext]_discoveryVars => DiscoveryInv'
  <2> SUFFICES ASSUME DiscoveryInv, [DiscoveryNext]_discoveryVars PROVE DiscoveryInv'
    OBVIOUS
  <2>1. UNCHANGED <<catalog, schema, situation, contract>>
    BY DEF DiscoveryNext, ListTables, ReadTable, ReadDocument, DiscoveryFails, DocumentFails, discoveryVars
  <2>2. LibSQLClaim(schema)' = LibSQLClaim(schema) /\ PostgrestClaim(schema)' = PostgrestClaim(schema)
    BY <2>1 DEF LibSQLClaim, PostgrestClaim, ProvenKey, MarkedKey
  <2>3. /\ phaseOf' = "read" => catalog = "libsql"
        /\ claim' # claim => claim' = IF catalog = "libsql" THEN LibSQLClaim(schema) ELSE PostgrestClaim(schema)
    BY DEF DiscoveryInv, DiscoveryNext, ListTables, ReadTable, ReadDocument, DiscoveryFails, DocumentFails, discoveryVars
  <2> QED
    BY <2>1, <2>2, <2>3 DEF DiscoveryInv
<1>3. DiscoveryInv => KeyIsProven
  BY LibSQLKeyIsProven, PostgrestKeyIsProven DEF DiscoveryInv, KeyIsProven, Catalogs
<1> QED
  BY <1>1, <1>2, <1>3, PTL DEF DiscoverySpec

-----------------------------------------------------------------------------
(* Transactions: its state and its ending agree, and what has landed is all *)
(* of the writes, until the callback's own commit or an error says so.      *)
Landing ==
  /\ phase \in {"callback", "committing", "closed"} /\ ending \in {"", "ok", "failed"}
  /\ phase = "closed" <=> ending # ""
  /\ phase = "committing" => ~early
  /\ early => txKind = "indexeddb" /\ (accepted = <<>> \/ landed = "all")
  /\ gone => txKind = "sqlite"
  /\ phase # "closed" /\ ~early /\ ~gone => landed = "none"
  /\ gone => ending # "ok" /\ (landed # "none" => excused # {})
  /\ adrift # <<>> => txKind = "sqlite" /\ adrift[1].inside

(* Until they are committed, SQLite's queue and IndexedDB's lock keep what  *)
(* the callback has read as it was, if SQLite has not rolled back.          *)
KeptAsRead ==
  /\ readAs = [k \in TxKeys |-> readAs[k]]
  /\ txKind \in {"sqlite", "indexeddb"} /\ phase # "closed" /\ ~early /\ ~gone => \A k \in TxKeys : readAs[k] \in {Unread, records[k]}
TxInv == txKind \in TxKinds /\ Landing /\ TransactionIsWhole /\ KeptAsRead /\ ReadsHoldAtCommit

(* A read notes what the store holds, and no more.                          *)
LEMMA ReadsNoteTheStore ==
  ASSUME KeptAsRead, NEW key \in TxKeys, Reads(key) \/ UNCHANGED readAs,
         gone \/ UNCHANGED records, UNCHANGED <<txKind, phase, early, gone>>
  PROVE  KeptAsRead'
<1>1. readAs' = [k \in TxKeys |-> readAs'[k]]
  BY DEF Reads, KeptAsRead
<1>2. \A k \in TxKeys : readAs'[k] \in {readAs[k], records[k]}
  BY DEF Reads, KeptAsRead
<1> QED
  BY <1>1, <1>2 DEF KeptAsRead

(* `TxInv' holds in every state of a transaction of any adapter.            *)
THEOREM TransactionInvariant == TxSpec => []TxInv
<1>1. TxInit => TxInv
  BY DEF TxInit, TxInv, Landing, TransactionIsWhole, KeptAsRead, ReadsHoldAtCommit, Untouched, Unread, Unwritten
<1>2. TxInv /\ [TxNext]_txVars => TxInv'
  <2> SUFFICES ASSUME TxInv, [TxNext]_txVars PROVE TxInv'
    OBVIOUS
  <2>0. txKind \in TxKinds /\ Landing /\ TransactionIsWhole /\ KeptAsRead /\ ReadsHoldAtCommit
    BY DEF TxInv
  <2>1. ASSUME NEW k \in TxKeys, Get(k) PROVE TxInv'
    <3>1. UNCHANGED <<txKind, records, phase, accepted, early, gone, adrift, ending, landed, excused, stale>>
      BY <2>1 DEF Get
    <3>2. KeptAsRead'
      BY <2>0, <2>1, <3>1, ReadsNoteTheStore DEF Get
    <3> QED
      BY <2>0, <3>1, <3>2 DEF TxInv, Landing, TransactionIsWhole, ReadsHoldAtCommit
  <2>2. ASSUME NEW k \in TxKeys, NEW op \in TxOps, Write(op, k) PROVE TxInv'
    <3>1. UNCHANGED <<txKind, phase, early, gone, adrift, ending, stale>> /\ phase = "callback"
      BY <2>2 DEF Write, Step
    <3>2. \/ UNCHANGED <<records, accepted, landed, excused>>
          \/ ~gone /\ ~early /\ UNCHANGED <<records, landed, excused>>
          \/ gone /\ ~early /\ accepted' = accepted /\ excused' # {}
      BY <2>2 DEF Write, Rejects, Accept, StoreAlone
    <3>3. KeptAsRead'
      BY <2>0, <2>2, <3>1, <3>2, ReadsNoteTheStore DEF Write
    <3>4. Landing' /\ TransactionIsWhole'
      BY <2>0, <3>1, <3>2 DEF Landing, TransactionIsWhole
    <3> QED
      BY <2>0, <3>1, <3>3, <3>4 DEF TxInv, ReadsHoldAtCommit
  <2>3. ASSUME NEW k \in TxKeys, NEW op \in TxOps, StartAdrift(op, k) PROVE TxInv'
    <3>1. UNCHANGED <<txKind, records, phase, accepted, readAs, early, gone, ending, landed, excused, stale>>
      BY <2>3 DEF StartAdrift
    <3>2. txKind = "sqlite" /\ adrift'[1].inside
      BY <2>3 DEF StartAdrift, Open
    <3> QED
      BY <2>0, <3>1, <3>2 DEF TxInv, Landing, TransactionIsWhole, KeptAsRead, ReadsHoldAtCommit
  <2>4. CASE RunAdrift
    <3>1. UNCHANGED <<txKind, phase, readAs, early, gone, ending, stale>> /\ adrift' = <<>> /\ ~early
      BY <2>0, <2>4 DEF RunAdrift, Landing
    <3>2. \/ UNCHANGED <<records, accepted, landed, excused>>
          \/ ~gone /\ phase # "closed" /\ UNCHANGED <<records, landed, excused>>
          \/ /\ gone \/ phase = "closed"
             /\ accepted' = accepted /\ (ending = "ok" => landed' = landed) /\ excused' # {}
      BY <2>0, <2>4 DEF RunAdrift, Landing, Accept, StoreAlone
    <3>3. Landing' /\ TransactionIsWhole'
      BY <2>0, <3>1, <3>2 DEF Landing, TransactionIsWhole
    <3> QED
      BY <2>0, <3>1, <3>2, <3>3 DEF TxInv, KeptAsRead, ReadsHoldAtCommit
  <2>5. CASE AutoCommit
    <3>1. /\ UNCHANGED <<txKind, phase, accepted, readAs, adrift, ending, excused>>
          /\ txKind = "indexeddb" /\ phase = "callback" /\ ~early /\ early' /\ ~gone /\ gone' = gone
          /\ landed' = IF accepted = <<>> THEN landed ELSE "all"
      BY <2>0, <2>5 DEF AutoCommit, Land, Landing
    <3>2. ~stale'
      BY <2>0, <2>5, <3>1 DEF AutoCommit, Land, KeptAsRead
    <3> QED
      BY <2>0, <3>1, <3>2 DEF TxInv, Landing, TransactionIsWhole, KeptAsRead, ReadsHoldAtCommit
  <2>6. CASE CallbackReturns
    BY <2>0, <2>6 DEF CallbackReturns, TxInv, Landing, TransactionIsWhole, KeptAsRead, ReadsHoldAtCommit
  <2>7. CASE RollBack
    BY <2>0, <2>7 DEF RollBack, Settle, TxInv, Landing, TransactionIsWhole, KeptAsRead, ReadsHoldAtCommit
  <2>8. CASE Commit
    <3>1. /\ UNCHANGED <<txKind, accepted, readAs, early, gone, adrift>> /\ phase = "committing" /\ ~early /\ ~gone /\ phase' = "closed"
          /\ landed' = IF accepted = <<>> THEN landed ELSE "all"
          /\ \/ ending' = "ok"
             \/ ending' = "failed" /\ excused' # {}
      BY <2>0, <2>8 DEF Commit, Land, Settle, Landing
    <3>2. stale' => txKind \in {"ovdb", "neo4j"}
      <4>1. stale' => \E k \in TxKeys : readAs[k] \notin {Unread, records[k]}
        BY <2>8 DEF Commit, Land
      <4>2. ~Conflicts
        BY <2>8 DEF Commit
      <4> QED
        BY <2>0, <3>1, <4>1, <4>2 DEF Conflicts, KeptAsRead, TxKinds
    <3> QED
      BY <2>0, <3>1, <3>2 DEF TxInv, Landing, TransactionIsWhole, KeptAsRead, ReadsHoldAtCommit
  <2>9. CASE RunAgain
    <3>1. /\ UNCHANGED <<txKind, records, early, gone, adrift, ending, landed, excused, stale>> /\ readAs' = Untouched
          /\ phase = "committing" /\ phase' = "callback" /\ accepted' = <<>>
      BY <2>9 DEF RunAgain
    <3> QED
      BY <2>0, <3>1 DEF TxInv, Landing, TransactionIsWhole, KeptAsRead, ReadsHoldAtCommit, Untouched, Unread, Unwritten
  <2>10. ASSUME NEW k \in TxKeys, Other(k) PROVE TxInv'
    <3>1. UNCHANGED <<txKind, phase, accepted, readAs, early, gone, adrift, ending, landed, excused, stale>>
      BY <2>10 DEF Other
    <3>2. phase = "closed" \/ (txKind # "sqlite" /\ (txKind = "indexeddb" => early))
      BY <2>10 DEF Other, KeepsOut
    <3> QED
      BY <2>0, <3>1, <3>2 DEF TxInv, Landing, TransactionIsWhole, KeptAsRead, ReadsHoldAtCommit
  <2>11. CASE DiskFull
    <3>1. /\ UNCHANGED <<txKind, records, phase, readAs, early, ending, landed, excused, stale>>
          /\ txKind = "sqlite" /\ gone' /\ accepted' = <<>> /\ (adrift' = adrift \/ adrift' = <<>>) /\ phase # "closed"
      BY <2>11 DEF DiskFull, Step
    <3>2. Landing' /\ TransactionIsWhole'
      BY <2>0, <3>1 DEF Landing, TransactionIsWhole
    <3> QED
      BY <2>0, <3>1, <3>2 DEF TxInv, KeptAsRead, ReadsHoldAtCommit
  <2>12. CASE UNCHANGED txVars
    BY <2>0, <2>12 DEF txVars, TxInv, Landing, TransactionIsWhole, KeptAsRead, ReadsHoldAtCommit
  <2> QED
    BY <2>1, <2>2, <2>3, <2>4, <2>5, <2>6, <2>7, <2>8, <2>9, <2>10, <2>11, <2>12 DEF TxNext
<1> QED
  BY <1>1, <1>2, PTL DEF TxSpec

(* A transaction that settles has all its writes in the store, and one that *)
(* fails has none there, but for the cases that the property names.         *)
THEOREM TransactionsAreWhole == TxSpec => []TransactionIsWhole
<1>1. TxInv => TransactionIsWhole
  BY DEF TxInv
<1> QED
  BY <1>1, TransactionInvariant, PTL

(* What a transaction read still holds when its writes reach the store, for *)
(* Firestore's validation, SQLite's queue and IndexedDB's lock.             *)
THEOREM TransactionReadsHold == TxSpec => []ReadsHoldAtCommit
<1>1. TxInv => ReadsHoldAtCommit
  BY DEF TxInv
<1> QED
  BY <1>1, TransactionInvariant, PTL

-----------------------------------------------------------------------------
(* CursorHandles: which kind retires a handle, and when.                    *)
LEMMA RegistryKinds ==
  ASSUME registry \in DOMAIN Registries
  PROVE  /\ kept.leases <=> kept.spends # "never"
         /\ kept.spends = "answer" <=> registry \in Burns
         /\ kept.positions => registry \in Burns
         /\ registry \notin {"couchdb", "datastore"} => kept.spends \in {"answer", "page"}
<1> USE DEF Registries, kept, LibSQLHandles, NativeLibSQLHandles, NativeCouchDbHandles, TypesenseHandles, DatastoreHandles, Burns
<1>1. registry \in {"libsql", "nativeLibsql", "couchdb", "typesense", "datastore"}
  OBVIOUS
<1>2. CASE registry = "libsql"
  BY <1>2
<1>3. CASE registry = "nativeLibsql"
  BY <1>3
<1>4. CASE registry = "couchdb"
  BY <1>4
<1>5. CASE registry = "typesense"
  BY <1>5
<1>6. CASE registry = "datastore"
  BY <1>6
<1> QED
  BY <1>1, <1>2, <1>3, <1>4, <1>5, <1>6

(* A set of numbers that has one has a least one.                           *)
LEMMA OldestHandle ==
  ASSUME NEW S \in SUBSET Nat, S # {}
  PROVE  \E h \in S : \A k \in S : ~(k < h)
<1>1. \E h \in S : \A k \in S : ~(<<k, h>> \in OpToRel(<, Nat))
  BY NatLessThanWellFounded, WFMin
<1> QED
  BY <1>1 DEF OpToRel

(* The handles of a registry are finitely many.                             *)
LEMMA HandlesAreFinite ==
  ASSUME NEW n \in Nat, NEW S \in SUBSET (1..n)
  PROVE  IsFiniteSet(S) /\ Cardinality(S) \in Nat
<1>1. IsFiniteSet(1..n)
  BY FS_Interval
<1>2. IsFiniteSet(S)
  BY <1>1, FS_Subset
<1> QED
  BY <1>2, FS_CardinalityType

(* A full registry makes room for one handle, and one that is not full      *)
(* keeps all of its own.                                                    *)
LEMMA TrimmedHasRoom ==
  ASSUME NEW n \in Nat, NEW S \in SUBSET (1..n), Cardinality(S) <= MaxIssued
  PROVE  /\ Trimmed(S) \subseteq S
         /\ Cardinality(Trimmed(S)) <= MaxIssued - 1
         /\ Cardinality(S) < MaxIssued => Trimmed(S) = S
<1> USE HandlesAssumption
<1>1. IsFiniteSet(S) /\ Cardinality(S) \in Nat
  BY HandlesAreFinite
<1>2. CASE Cardinality(S) < MaxIssued
  <2>1. ~(Cardinality(S) >= MaxIssued)
    BY <1>1, <1>2
  <2>2. Trimmed(S) = S
    BY <2>1 DEF Trimmed
  <2> QED
    BY <1>1, <1>2, <2>2
<1>3. CASE Cardinality(S) >= MaxIssued
  <2>1. S # {}
    BY <1>3, FS_EmptySet
  <2>2. PICK oldest \in S : \A k \in S : ~(k < oldest)
    BY <2>1, OldestHandle
  <2>3. Trimmed(S) = {h \in S : \E older \in S : older < h}
    BY <1>3 DEF Trimmed
  <2>4. Trimmed(S) \subseteq S \ {oldest}
    BY <2>2, <2>3
  <2>5. IsFiniteSet(S \ {oldest}) /\ Cardinality(S \ {oldest}) = Cardinality(S) - 1
    BY <1>1, FS_RemoveElement
  <2>6. IsFiniteSet(Trimmed(S)) /\ Cardinality(Trimmed(S)) <= Cardinality(S) - 1
    BY <2>4, <2>5, FS_Subset
  <2>7. Cardinality(Trimmed(S)) \in Nat
    BY <2>6, FS_CardinalityType
  <2> QED
    BY <1>1, <1>3, <2>4, <2>6, <2>7
<1> QED
  BY <1>1, <1>2, <1>3

(* What a page makes of the registry: its handle retired and one published, *)
(* and no other pushed out where there was room after it was retired.       *)
LEMMA AfterPageKeeps ==
  ASSUME HandlesTypeOK, NEW h \in 0..Minted, NEW mint \in BOOLEAN
  PROVE  /\ AfterPage(h, mint) \subseteq issued \union (IF mint THEN {Minted + 1} ELSE {})
         /\ Cardinality(AfterPage(h, mint)) <= MaxIssued
         /\ kept.spends # "never" => h \notin AfterPage(h, mint)
         /\ mint => Minted + 1 \in AfterPage(h, mint)
         /\ (kept.spends \in {"answer", "page"} /\ h \in issued) => issued \ {h} \subseteq AfterPage(h, mint)
<1> USE HandlesAssumption
<1>1. Minted \in Nat /\ issued \in SUBSET (1..Minted) /\ Cardinality(issued) <= MaxIssued /\ Minted + 1 \notin issued /\ h # Minted + 1
  BY DEF HandlesTypeOK, Minted
<1>2. IsFiniteSet(issued) /\ Cardinality(issued) \in Nat
  BY <1>1, HandlesAreFinite
<1> DEFINE after == AfterPage(h, mint)
           left == issued \ {Spent(h)}
<1>3. /\ left \in SUBSET (1..Minted) /\ IsFiniteSet(left) /\ Cardinality(left) \in Nat /\ Cardinality(left) <= MaxIssued
      /\ Spent(h) \in issued => Cardinality(left) < MaxIssued
  <2>1. IsFiniteSet(left) /\ Cardinality(left) = IF Spent(h) \in issued THEN Cardinality(issued) - 1 ELSE Cardinality(issued)
    BY <1>2, FS_RemoveElement
  <2>2. left \in SUBSET (1..Minted)
    BY <1>1
  <2>3. Cardinality(left) \in Nat
    BY <2>1, FS_CardinalityType
  <2> QED
    BY <1>1, <1>2, <2>1, <2>2, <2>3
<1>4. ASSUME NEW S \in SUBSET (1..Minted), Cardinality(S) <= MaxIssued
      PROVE  /\ IsFiniteSet(S) /\ Cardinality(S) \in Nat
             /\ IsFiniteSet(Trimmed(S)) /\ Cardinality(Trimmed(S)) \in Nat /\ Trimmed(S) \subseteq S /\ Cardinality(Trimmed(S)) <= MaxIssued - 1
             /\ Cardinality(S) < MaxIssued => Trimmed(S) = S
  <2>1. IsFiniteSet(S)
    BY <1>1, HandlesAreFinite
  <2>2. Trimmed(S) \subseteq S /\ Cardinality(Trimmed(S)) <= MaxIssued - 1 /\ (Cardinality(S) < MaxIssued => Trimmed(S) = S)
    BY <1>1, <1>4, TrimmedHasRoom
  <2> QED
    BY <2>1, <2>2, FS_Subset, FS_CardinalityType
<1>5. CASE kept.spends = "issued" /\ mint
  <2> DEFINE room == Trimmed(issued) \union {Minted + 1}
  <2>1. after = room \ {h}
    BY <1>5 DEF AfterPage
  <2>2. IsFiniteSet(room) /\ Cardinality(room) <= MaxIssued
    <3> DEFINE old == Trimmed(issued)
    <3>1. IsFiniteSet(old) /\ Cardinality(old) \in Nat /\ Cardinality(old) <= MaxIssued - 1
      BY <1>1, <1>4
    <3>2. IsFiniteSet(room) /\ (Cardinality(room) = Cardinality(old) \/ Cardinality(room) = Cardinality(old) + 1)
      BY <3>1, FS_AddElement
    <3> HIDE DEF old, room
    <3> QED
      BY <3>1, <3>2
  <2>3. IsFiniteSet(after) /\ Cardinality(after) <= Cardinality(room)
    BY <2>1, <2>2, FS_Subset
  <2>4. Cardinality(after) <= MaxIssued
    BY <2>2, <2>3, FS_CardinalityType
  <2> QED
    BY <1>1, <1>4, <1>5, <2>1, <2>4
<1>6. CASE kept.spends = "issued" /\ ~mint
  <2>1. after = issued \ {h}
    BY <1>6 DEF AfterPage
  <2>2. IsFiniteSet(after) /\ Cardinality(after) <= Cardinality(issued)
    BY <1>2, <2>1, FS_Subset
  <2>3. Cardinality(after) <= MaxIssued
    BY <1>1, <1>2, <2>2, FS_CardinalityType
  <2> QED
    BY <1>6, <2>1, <2>3
<1>7. CASE kept.spends # "issued" /\ mint
  <2>1. after = Trimmed(left) \union {Minted + 1}
    BY <1>7 DEF AfterPage
  <2>2. Cardinality(after) <= MaxIssued
    <3> DEFINE old == Trimmed(left)
    <3>1. IsFiniteSet(old) /\ Cardinality(old) \in Nat /\ Cardinality(old) <= MaxIssued - 1
      BY <1>3, <1>4
    <3>2. Cardinality(after) = Cardinality(old) \/ Cardinality(after) = Cardinality(old) + 1
      BY <2>1, <3>1, FS_AddElement
    <3> HIDE DEF old, after
    <3> QED
      BY <3>1, <3>2
  <2>3. kept.spends # "never" => Spent(h) = h
    BY DEF Spent
  <2>4. Trimmed(left) \subseteq left
    BY <1>3, <1>4
  <2>5. Spent(h) \in issued => Trimmed(left) = left
    BY <1>3, <1>4
  <2> QED
    BY <1>1, <1>7, <2>1, <2>2, <2>3, <2>4, <2>5
<1>8. CASE kept.spends # "issued" /\ ~mint
  <2>1. after = left
    BY <1>8 DEF AfterPage
  <2>2. kept.spends # "never" => Spent(h) = h
    BY DEF Spent
  <2> QED
    BY <1>3, <1>8, <2>1, <2>2
<1> QED
  BY <1>5, <1>6, <1>7, <1>8

(* A query holds its handle alone where handles are leased, and holds one   *)
(* that the registry still has or has pushed out.                           *)
Held ==
  /\ ~kept.leases => active = {}
  /\ \A c \in Callers : running[c] \in 1..MaxMinted =>
       /\ running[c] \in handed
       /\ kept.leases => running[c] \notin issued \ active
       /\ kept.leases => \A d \in Callers : running[d] = running[c] => d = c
       /\ opened => running[c] \in issued \union dropped
(* The handle of a page that a caller got is not to be had again.           *)
Retired == \A h \in Handles : paged[h] <= 1 /\ (paged[h] = 1 => h \in (1..Minted) \ issued /\ \A c \in Callers : running[c] # h)
HandlesInv == HandlesTypeOK /\ Held /\ Retired /\ HandleGivesOnePage

(* What the steps below use of the invariant.                               *)
LEMMA HandleFacts ==
  ASSUME HandlesInv
  PROVE  /\ Minted \in Nat /\ Minted <= MaxMinted /\ MaxMinted \in Nat /\ bound \in Seq([page : Nat, null : BOOLEAN])
         /\ issued \subseteq 1..Minted /\ active \subseteq 1..Minted /\ handed \subseteq 1..Minted /\ handed \subseteq 1..MaxMinted
         /\ dropped \subseteq 1..Minted /\ burned \subseteq handed
         /\ Cardinality(issued) <= MaxIssued
         /\ \A c \in Callers : running[c] \in (1..MaxMinted) \union {0, Idle}
         /\ running \in [Callers -> Handles \union {0, Idle}]
         /\ paged \in [Handles -> Nat]
         /\ Idle \notin 0..MaxMinted /\ 0 \notin 1..MaxMinted
<1>1. Minted \in Nat
  BY DEF HandlesInv, HandlesTypeOK, Minted
<1> QED
  BY <1>1, HandlesAssumption DEF HandlesInv, HandlesTypeOK, Handles, Idle

(* A handle is leased to a query, or left leased by one that cannot compile *)
(* the page after it.                                                       *)
LEMMA LeaseKeeps ==
  ASSUME HandlesInv, NEW c \in Callers, Present(c) \/ CompileFails(c)
  PROVE  HandlesInv'
<1>1. PICK h \in handed \union {0} :
        /\ opened /\ running[c] = Idle /\ Reserve(h)
        /\ h # 0 => h \in issued \ active
        /\ \/ running' = [running EXCEPT ![c] = h] /\ burned' = burned
           \/ h # 0 /\ ~Compiles(h) /\ running' = running /\ burned' = burned \union {h}
  <2>1. CASE Present(c)
    BY <2>1 DEF Present, Usable
  <2>2. CASE CompileFails(c)
    <3>1. PICK h \in handed : Usable(h) /\ ~Compiles(h) /\ Reserve(h) /\ burned' = burned \union {h}
      BY <2>2 DEF CompileFails
    <3>2. h # 0
      BY <3>1, HandleFacts
    <3> QED
      BY <2>2, <3>1, <3>2 DEF CompileFails, Usable
  <2> QED
    BY <2>1, <2>2
<1>2. UNCHANGED <<registry, opened, issued, bound, handed, paged, dropped>> /\ kept' = kept /\ Minted' = Minted
  BY DEF Present, CompileFails, kept, Minted
<1>3. HandlesTypeOK /\ Held /\ Retired /\ HandleGivesOnePage
  BY DEF HandlesInv
<1>4. h \in 0..MaxMinted /\ (h # 0 => h \in handed)
  BY HandleFacts
<1>5. active' = IF kept.leases /\ h # 0 THEN active \union {h} ELSE active
  BY <1>1 DEF Reserve
<1>6. \A d \in Callers : running'[d] = IF d = c /\ running' # running THEN h ELSE running[d]
  BY <1>1, HandleFacts
<1>7. HandlesTypeOK'
  <2>1. running' \in [Callers -> Handles \union {0, Idle}]
    BY <1>1, <1>4, HandleFacts DEF Handles
  <2>2. active' \subseteq 1..Minted /\ burned' \subseteq handed
    BY <1>1, <1>4, <1>5, HandleFacts
  <2> QED
    BY <1>2, <1>3, <2>1, <2>2 DEF HandlesTypeOK
<1>8. Held'
  <2>1. ~kept.leases => active' = {}
    BY <1>3, <1>5 DEF Held
  <2>2. ASSUME NEW d \in Callers, running'[d] \in 1..MaxMinted
        PROVE  /\ running'[d] \in handed
               /\ kept.leases => running'[d] \notin issued \ active'
               /\ kept.leases => \A e \in Callers : running'[e] = running'[d] => e = d
               /\ opened => running'[d] \in issued \union dropped
    BY <1>1, <1>3, <1>4, <1>5, <1>6, <2>2, HandleFacts DEF Held
  <2> QED
    BY <1>2, <2>1, <2>2 DEF Held
<1>9. Retired'
  BY <1>1, <1>2, <1>3, <1>4, <1>6, HandleFacts DEF Retired
<1>10. ASSUME NEW g \in handed
       PROVE  \/ ~opened \/ g \in dropped \/ \E d \in Callers : running'[d] = g
              \/ paged[g] = 1
              \/ g \in issued \ active'
              \/ registry \in Burns /\ g \in burned'
  <2>1. CASE g = h
    <3>1. CASE running' = running /\ burned' = burned \union {h} /\ ~Compiles(h)
      BY <1>2, <1>3, <2>1, <3>1, RegistryKinds DEF Compiles, HandlesTypeOK
    <3>2. CASE running' = [running EXCEPT ![c] = h]
      BY <2>1, <3>2, HandleFacts
    <3> QED
      BY <1>1, <3>1, <3>2
  <2>2. CASE g # h
    <3>1. \A d \in Callers : running[d] = g => running'[d] = g
      BY <1>1, <1>6, HandleFacts
    <3> QED
      BY <1>1, <1>3, <1>5, <2>2, <3>1 DEF HandleGivesOnePage
  <2> QED
    BY <2>1, <2>2
<1>11. HandleGivesOnePage'
  BY <1>2, <1>3, <1>10 DEF HandleGivesOnePage
<1> QED
  BY <1>7, <1>8, <1>9, <1>11 DEF HandlesInv

(* A query fails, before or after its answer.                               *)
LEMMA FailureKeeps ==
  ASSUME HandlesInv, NEW c \in Callers, Fail(c) \/ Malformed(c)
  PROVE  HandlesInv'
<1> DEFINE h == running[c]
<1>1. h # Idle /\ active' = active \ {h} /\ running' = [running EXCEPT ![c] = Idle]
  BY DEF Fail, Malformed, Release
<1>2. UNCHANGED <<registry, opened, bound, handed, paged, dropped>> /\ kept' = kept /\ Minted' = Minted
  BY DEF Fail, Malformed, kept, Minted
<1>3. /\ issued' = issued \/ (kept.spends = "answer" /\ issued' = issued \ {h} /\ burned' = burned \union ({h} \ {0}))
      /\ burned' = burned \/ burned' = burned \union ({h} \ {0})
  BY DEF Fail, Malformed
<1>4. HandlesTypeOK /\ Held /\ Retired /\ HandleGivesOnePage
  BY DEF HandlesInv
<1>5. (kept.leases <=> kept.spends # "never") /\ (kept.spends = "answer" <=> registry \in Burns)
  BY <1>4, RegistryKinds DEF HandlesTypeOK
<1>6. h \in 0..MaxMinted /\ (h # 0 => h \in handed)
  BY <1>1, <1>4, HandleFacts DEF Held
<1>7. \A d \in Callers : running'[d] = IF d = c THEN Idle ELSE running[d]
  BY <1>1, HandleFacts
<1>8. HandlesTypeOK'
  <2>1. running' \in [Callers -> Handles \union {0, Idle}]
    BY <1>1, HandleFacts
  <2>2. active' \subseteq 1..Minted /\ burned' \subseteq handed /\ issued' \subseteq issued
    BY <1>1, <1>3, <1>6, HandleFacts
  <2>3. issued' \subseteq 1..Minted /\ Cardinality(issued') <= MaxIssued
    <3>1. IsFiniteSet(issued) /\ Cardinality(issued) \in Nat
      BY HandleFacts, HandlesAreFinite
    <3>2. IsFiniteSet(issued') /\ Cardinality(issued') <= Cardinality(issued)
      BY <2>2, <3>1, FS_Subset
    <3>3. Cardinality(issued') \in Nat
      BY <3>2, FS_CardinalityType
    <3> QED
      BY <2>2, <3>1, <3>2, <3>3, HandleFacts, HandlesAssumption
  <2> QED
    BY <1>2, <1>4, <2>1, <2>2, <2>3 DEF HandlesTypeOK
<1>9. Held'
  <2>1. ~kept.leases => active' = {}
    BY <1>1, <1>4 DEF Held
  <2>2. ASSUME NEW d \in Callers, running'[d] \in 1..MaxMinted
        PROVE  /\ running'[d] \in handed
               /\ kept.leases => running'[d] \notin issued' \ active'
               /\ kept.leases => \A e \in Callers : running'[e] = running'[d] => e = d
               /\ opened => running'[d] \in issued' \union dropped
    <3>1. d # c /\ running'[d] = running[d]
      BY <1>7, <2>2, HandleFacts
    <3>2. kept.leases => running[d] # h
      BY <1>4, <2>2, <3>1 DEF Held
    <3>3. \A e \in Callers : running'[e] = running[d] => running[e] = running[d]
      BY <1>7, <2>2, <3>1, HandleFacts
    <3> QED
      BY <1>1, <1>3, <1>4, <1>5, <2>2, <3>1, <3>2, <3>3 DEF Held
  <2> QED
    BY <1>2, <2>1, <2>2 DEF Held
<1>10. Retired'
  BY <1>2, <1>3, <1>4, <1>7, HandleFacts DEF Retired, Handles
<1>11. ASSUME NEW g \in handed
       PROVE  \/ ~opened \/ g \in dropped \/ \E d \in Callers : running'[d] = g
              \/ paged[g] = 1
              \/ g \in issued' \ active'
              \/ registry \in Burns /\ g \in burned'
  <2>1. CASE g = h
    <3>1. opened => h \in issued \union dropped
      BY <1>4, <2>1, HandleFacts DEF Held
    <3>2. h # 0
      BY <2>1, HandleFacts
    <3> QED
      BY <1>1, <1>3, <1>5, <2>1, <3>1, <3>2
  <2>2. CASE g # h
    <3>1. \A d \in Callers : running[d] = g => running'[d] = g
      BY <1>7, <2>2
    <3> QED
      BY <1>1, <1>3, <1>4, <2>2, <3>1 DEF HandleGivesOnePage
  <2> QED
    BY <2>1, <2>2
<1>12. HandleGivesOnePage'
  BY <1>2, <1>4, <1>11 DEF HandleGivesOnePage
<1> QED
  BY <1>8, <1>9, <1>10, <1>12 DEF HandlesInv

(* A page retires its handle and publishes the next one.                    *)
LEMMA PageKeeps ==
  ASSUME HandlesInv, NEW c \in Callers, Page(c)
  PROVE  HandlesInv'
<1> DEFINE h == running[c]
<1>0. HandlesTypeOK /\ Held /\ Retired /\ HandleGivesOnePage
  BY DEF HandlesInv
<1>1. opened /\ h # Idle /\ running' = [running EXCEPT ![c] = Idle] /\ UNCHANGED <<registry, opened>> /\ kept' = kept
  BY DEF Page, kept
<1>2. h \in 0..Minted /\ h \in 0..MaxMinted /\ (h # 0 => h \in handed /\ h \in 1..MaxMinted)
  BY <1>0, <1>1, HandleFacts DEF Held
<1>3. PICK mint \in BOOLEAN, null \in BOOLEAN, late \in BOOLEAN :
        LET after == AfterPage(h, mint)
            out == issued \ (after \union {Spent(h)})
            page == IF h = 0 THEN 1 ELSE bound[h].page + 1
        IN
        /\ mint => Minted < MaxMinted
        /\ late => kept.spends = "answer"
        /\ issued' = after /\ dropped' = dropped \union out
        /\ active' = active \ ({h} \union IF kept.unmarks THEN out ELSE {})
        /\ bound' = IF mint THEN Append(bound, [page |-> page, null |-> null]) ELSE bound
        /\ handed' = IF mint /\ ~late THEN handed \union {Minted + 1} ELSE handed
        /\ paged' = [k \in Handles |-> IF k = h /\ kept.leases /\ ~late THEN paged[k] + 1 ELSE paged[k]]
        /\ burned' = IF late THEN burned \union ({h} \ {0}) ELSE burned
  BY DEF Page
<1> DEFINE new == IF mint THEN {Minted + 1} ELSE {}
<1>4. (kept.leases <=> kept.spends # "never") /\ (kept.spends = "answer" <=> registry \in Burns)
  BY <1>0, RegistryKinds DEF HandlesTypeOK
<1>5. /\ issued' \subseteq issued \union new /\ Cardinality(issued') <= MaxIssued
      /\ kept.leases => h \notin issued'
      /\ mint => Minted + 1 \in issued'
  BY <1>0, <1>2, <1>3, <1>4, AfterPageKeeps
<1>6. /\ dropped' \subseteq dropped \union issued
      /\ dropped \subseteq dropped'
      /\ kept.leases => issued \subseteq issued' \union dropped' \union {h}
      /\ ~kept.leases => issued \subseteq issued' \union dropped'
  <2>1. Spent(h) \in {0, h} /\ (~kept.leases => Spent(h) = 0)
    BY <1>4 DEF Spent
  <2>2. 0 \notin issued
    BY HandleFacts
  <2> QED
    BY <1>3, <2>1, <2>2
<1>7. active' \subseteq active \ {h} /\ \A g \in issued' : g \in active /\ g # h => g \in active'
  BY <1>3
<1>8. /\ bound' \in Seq([page : Nat, null : BOOLEAN]) /\ Minted' \in Nat
      /\ Minted <= Minted' /\ Minted' <= MaxMinted /\ new \subseteq 1..Minted' /\ new \intersect 1..Minted = {}
  <2>1. CASE mint
    <3>1. h # 0 => bound[h].page \in Nat
      <4>1. bound \in Seq([page : Nat, null : BOOLEAN]) /\ (h # 0 => h \in 1..Len(bound))
        BY <1>2, HandleFacts DEF Minted
      <4>2. h # 0 => bound[h] \in [page : Nat, null : BOOLEAN]
        <5> DEFINE Pages == [page : Nat, null : BOOLEAN]
        <5>1. bound \in Seq(Pages)
          BY <4>1
        <5> HIDE DEF Pages
        <5>2. \A i \in 1..Len(bound) : bound[i] \in Pages
          BY <5>1
        <5> QED
          BY <4>1, <5>2 DEF Pages
      <4> QED
        BY <4>2
    <3>2. (IF h = 0 THEN 1 ELSE bound[h].page + 1) \in Nat
      BY <3>1
    <3>3. [page |-> IF h = 0 THEN 1 ELSE bound[h].page + 1, null |-> null] \in [page : Nat, null : BOOLEAN]
      BY <3>2
    <3>4. bound' = Append(bound, [page |-> IF h = 0 THEN 1 ELSE bound[h].page + 1, null |-> null]) /\ Minted < MaxMinted
      BY <1>3, <2>1
    <3>5. bound' \in Seq([page : Nat, null : BOOLEAN]) /\ Minted' = Minted + 1
      BY <3>3, <3>4, HandleFacts DEF Minted
    <3> QED
      BY <2>1, <3>4, <3>5, HandleFacts
  <2>2. CASE ~mint
    BY <1>3, <2>2, HandleFacts DEF Minted
  <2> QED
    BY <2>1, <2>2
<1>9. handed \subseteq handed' /\ handed' \subseteq handed \union new /\ \A g \in handed' : g \in handed \/ g \in issued' \ active'
  BY <1>3, <1>5, <1>7, HandleFacts
<1>10. \A k \in Handles : paged'[k] = IF k = h /\ kept.leases /\ ~late THEN paged[k] + 1 ELSE paged[k]
  BY <1>3
<1>11. /\ burned \subseteq burned' /\ burned' \subseteq handed
       /\ late => registry \in Burns /\ (h # 0 => h \in burned')
  BY <1>2, <1>3, <1>4, HandleFacts
<1>12. \A d \in Callers : running'[d] = IF d = c THEN Idle ELSE running[d]
  BY <1>1, HandleFacts
<1>13. paged' \in [Handles -> Nat]
  <2>1. \A k \in Handles : paged[k] + 1 \in Nat /\ paged[k] \in Nat
    BY HandleFacts
  <2> QED
    BY <1>3, <2>1
<1>14. ASSUME NEW d \in Callers, running'[d] \in 1..MaxMinted
       PROVE  /\ d # c /\ running'[d] = running[d] /\ running[d] \in handed
              /\ running[d] \in 1..Minted
              /\ kept.leases => running[d] # h
  BY <1>0, <1>12, <1>14, HandleFacts DEF Held
<1> HIDE DEF new, h
<1>15. HandlesTypeOK'
  <2>1. running' \in [Callers -> Handles \union {0, Idle}]
    BY <1>1, HandleFacts
  <2>2. issued' \subseteq 1..Minted' /\ active' \subseteq 1..Minted' /\ handed' \subseteq 1..Minted' /\ dropped' \subseteq 1..Minted'
    <3>1. 1..Minted \subseteq 1..Minted'
      BY <1>8, HandleFacts
    <3> QED
      BY <1>5, <1>6, <1>7, <1>8, <1>9, <3>1, HandleFacts
  <2>3. burned' \subseteq handed'
    BY <1>9, <1>11
  <2> QED
    BY <1>0, <1>1, <1>5, <1>8, <1>13, <2>1, <2>2, <2>3 DEF HandlesTypeOK
<1>16. Held'
  <2>1. ~kept.leases => active' = {}
    BY <1>0, <1>7 DEF Held
  <2>2. ASSUME NEW d \in Callers, running'[d] \in 1..MaxMinted
        PROVE  /\ running'[d] \in handed'
               /\ kept.leases => running'[d] \notin issued' \ active'
               /\ kept.leases => \A e \in Callers : running'[e] = running'[d] => e = d
               /\ opened => running'[d] \in issued' \union dropped'
    <3>1. d # c /\ running'[d] = running[d] /\ running[d] \in handed /\ running[d] \in 1..Minted /\ (kept.leases => running[d] # h)
      BY <1>14, <2>2
    <3>2. running[d] \notin new
      BY <1>8, <3>1
    <3>3. \A e \in Callers : running'[e] = running[d] => running[e] = running[d]
      BY <1>12, <2>2, <3>1, HandleFacts
    <3>4. /\ kept.leases => running[d] \notin issued \ active
          /\ kept.leases => \A e \in Callers : running[e] = running[d] => e = d
          /\ opened => running[d] \in issued \union dropped
      BY <1>0, <2>2, <3>1 DEF Held
    <3> QED
      BY <1>5, <1>6, <1>7, <1>9, <3>1, <3>2, <3>3, <3>4
  <2> QED
    BY <1>1, <2>1, <2>2 DEF Held
<1>17. kept.leases /\ h # 0 => paged[h] = 0 /\ \A d \in Callers : running'[d] # h
  <2>1. h \in 1..MaxMinted => paged[h] \in Nat /\ paged[h] <= 1 /\ paged[h] # 1
    BY <1>0, HandleFacts DEF Retired, Handles, h
  <2>2. kept.leases /\ h # 0 => \A d \in Callers : running[d] = h => d = c
    BY <1>0, <1>2 DEF Held, h
  <2> QED
    BY <1>2, <1>12, <2>1, <2>2, HandleFacts
<1>18. Retired'
  <2>1. ASSUME NEW k \in Handles
        PROVE  paged'[k] <= 1 /\ (paged'[k] = 1 => k \in (1..Minted') \ issued' /\ \A d \in Callers : running'[d] # k)
    <3>1. k \in 1..MaxMinted /\ paged[k] \in Nat /\ paged[k] <= 1
          /\ (paged[k] = 1 => k \in (1..Minted) \ issued /\ \A d \in Callers : running[d] # k)
      BY <1>0, HandleFacts DEF Retired, Handles
    <3>2. CASE k = h /\ kept.leases /\ ~late
      <4>1. paged'[k] = 1 /\ h \in 1..Minted
        BY <1>2, <1>10, <1>17, <3>1, <3>2, HandleFacts
      <4>2. h \in 1..Minted'
        BY <1>8, <4>1, HandleFacts
      <4> QED
        BY <1>5, <1>17, <3>1, <3>2, <4>1, <4>2, HandleFacts
    <3>3. CASE ~(k = h /\ kept.leases /\ ~late)
      <4>1. paged'[k] = paged[k]
        BY <1>10, <3>3
      <4>2. k \in 1..Minted => k \in 1..Minted' /\ k \notin new
        BY <1>8, HandleFacts
      <4>3. \A d \in Callers : running'[d] = k => running[d] = k
        BY <1>12, <3>1, HandleFacts
      <4> QED
        BY <1>5, <3>1, <4>1, <4>2, <4>3
    <3> QED
      BY <3>2, <3>3
  <2> QED
    BY <2>1 DEF Retired
<1>19. ASSUME NEW g \in handed
       PROVE  \/ ~opened \/ g \in dropped' \/ \E d \in Callers : running'[d] = g
              \/ paged'[g] = 1
              \/ g \in issued' \ active'
              \/ registry \in Burns /\ g \in burned'
  <2>0. g \in Handles /\ g # 0
    BY HandleFacts DEF Handles
  <2>1. CASE g = h
    <3>1. CASE kept.leases /\ ~late
      BY <1>10, <1>17, <2>0, <2>1, <3>1
    <3>2. CASE late
      BY <1>11, <2>0, <2>1, <3>2
    <3>3. CASE ~kept.leases
      <4>1. h \in issued \union dropped /\ active' = {}
        BY <1>0, <1>1, <1>2, <1>7, <2>0, <2>1, <3>3 DEF Held, h
      <4> QED
        BY <1>6, <2>1, <3>3, <4>1
    <3> QED
      BY <3>1, <3>2, <3>3
  <2>2. CASE g # h
    <3>1. \A d \in Callers : running[d] = g => running'[d] = g
      BY <1>12, <2>2 DEF h
    <3>2. paged'[g] = paged[g]
      BY <1>10, <2>0, <2>2
    <3> QED
      BY <1>0, <1>6, <1>7, <1>11, <2>2, <3>1, <3>2 DEF HandleGivesOnePage
  <2> QED
    BY <2>1, <2>2
<1>20. HandleGivesOnePage'
  <2>1. \A g \in handed' : paged'[g] <= 1
    <3>1. handed' \subseteq Handles
      BY <1>8, <1>15, HandleFacts DEF HandlesTypeOK, Handles
    <3> QED
      BY <1>18, <3>1 DEF Retired
  <2> QED
    BY <1>1, <1>9, <1>19, <2>1 DEF HandleGivesOnePage
<1> QED
  BY <1>15, <1>16, <1>18, <1>20 DEF HandlesInv

(* `HandlesInv' holds in every state of a registry of any adapter.          *)
THEOREM HandlesInvariant == HandlesSpec => []HandlesInv
<1>1. HandlesInit => HandlesInv
  <2> SUFFICES ASSUME HandlesInit PROVE HandlesInv
    OBVIOUS
  <2>1. HandlesTypeOK
    <3>1. Cardinality({}) = 0 /\ Minted = 0
      BY FS_EmptySet DEF HandlesInit, Minted
    <3> QED
      BY <3>1, HandlesAssumption DEF HandlesInit, HandlesTypeOK
  <2>2. Held /\ HandleGivesOnePage
    BY HandlesAssumption DEF HandlesInit, Held, HandleGivesOnePage, Idle
  <2>3. Retired
    BY DEF HandlesInit, Retired
  <2> QED
    BY <2>1, <2>2, <2>3 DEF HandlesInv
<1>2. HandlesInv /\ [HandlesNext]_handleVars => HandlesInv'
  <2> SUFFICES ASSUME HandlesInv, [HandlesNext]_handleVars PROVE HandlesInv'
    OBVIOUS
  <2>1. ASSUME NEW c \in Callers, Present(c) \/ CompileFails(c) PROVE HandlesInv'
    BY <2>1, LeaseKeeps
  <2>2. ASSUME NEW c \in Callers, Fail(c) \/ Malformed(c) PROVE HandlesInv'
    BY <2>2, FailureKeeps
  <2>3. ASSUME NEW c \in Callers, Page(c) PROVE HandlesInv'
    BY <2>3, PageKeeps
  <2>4. CASE CloseDatabase
    <3>1. /\ UNCHANGED <<registry, bound, handed, running, paged, dropped, burned>> /\ kept' = kept /\ Minted' = Minted
          /\ ~opened' /\ opened' \in BOOLEAN /\ issued' = {} /\ active' = {}
      BY <2>4 DEF CloseDatabase, kept, Minted
    <3>2. Cardinality({}) <= MaxIssued
      BY HandlesAssumption, FS_EmptySet
    <3>3. HandlesTypeOK'
      BY <3>1, <3>2 DEF HandlesInv, HandlesTypeOK
    <3>4. Held' /\ Retired' /\ HandleGivesOnePage'
      BY <3>1 DEF HandlesInv, Held, Retired, HandleGivesOnePage
    <3> QED
      BY <3>3, <3>4 DEF HandlesInv
  <2>5. CASE UNCHANGED handleVars
    BY <2>5 DEF handleVars, HandlesInv, HandlesTypeOK, Held, Retired, HandleGivesOnePage, kept, Minted
  <2> QED
    BY <2>1, <2>2, <2>3, <2>4, <2>5 DEF HandlesNext
<1> QED
  BY <1>1, <1>2, PTL DEF HandlesSpec

(* A handle gives one page, whatever callers ask at the same time, and as   *)
(* long as it gave none it can be asked again, but in the cases named.      *)
THEOREM HandlesGiveOnePage == HandlesSpec => []HandleGivesOnePage
<1>1. HandlesInv => HandleGivesOnePage
  BY DEF HandlesInv
<1> QED
  BY <1>1, HandlesInvariant, PTL

(* A query that gives its handle back drops no other one, where a handle is *)
(* retired before the next is published.                                    *)
THEOREM HandlesResumeDropsNoOther == HandlesSpec => ResumeDropsNoOther
<1>1. HandlesInv /\ [HandlesNext]_handleVars =>
        [registry \notin {"couchdb", "datastore"} =>
           \A c \in Callers : (running[c] \in issued /\ running'[c] = Idle) => issued \ {running[c]} \subseteq issued']_handleVars
  <2> SUFFICES ASSUME HandlesInv, [HandlesNext]_handleVars, registry \notin {"couchdb", "datastore"},
                      NEW c \in Callers, running[c] \in issued, running'[c] = Idle
               PROVE  issued \ {running[c]} \subseteq issued'
    OBVIOUS
  <2>0. running[c] \in 1..MaxMinted /\ running[c] # Idle /\ running[c] \in 0..Minted /\ HandlesTypeOK
    BY HandleFacts DEF HandlesInv
  <2>1. ASSUME NEW d \in Callers, Page(d) PROVE issued \ {running[c]} \subseteq issued'
    <3>1. d = c
      BY <2>0, <2>1, HandleFacts DEF Page
    <3>2. kept.spends \in {"answer", "page"}
      BY <2>0, RegistryKinds DEF HandlesTypeOK
    <3>3. PICK mint \in BOOLEAN : issued' = AfterPage(running[c], mint)
      BY <2>1, <3>1 DEF Page
    <3> QED
      BY <2>0, <3>2, <3>3, AfterPageKeeps
  <2>2. ASSUME NEW d \in Callers, Malformed(d) PROVE issued \ {running[c]} \subseteq issued'
    <3>1. d = c
      BY <2>0, <2>2, HandleFacts DEF Malformed, Release
    <3> QED
      BY <2>2, <3>1 DEF Malformed
  <2>3. CASE CloseDatabase
    BY <2>0, <2>3 DEF CloseDatabase
  <2>4. ASSUME NEW d \in Callers, Present(d) \/ CompileFails(d) \/ Fail(d) PROVE issued \ {running[c]} \subseteq issued'
    BY <2>4 DEF Present, CompileFails, Fail
  <2>5. CASE UNCHANGED handleVars
    BY <2>5 DEF handleVars
  <2> QED
    BY <2>1, <2>2, <2>3, <2>4, <2>5 DEF HandlesNext
<1> QED
  BY <1>1, HandlesInvariant, PTL DEF HandlesSpec, ResumeDropsNoOther
=============================================================================
