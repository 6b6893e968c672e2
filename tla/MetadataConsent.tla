-------------------------- MODULE MetadataConsent --------------------------
(***************************************************************************)
(* BigQuery's metadata discovery, with the Google account that it reads    *)
(* with and the owner's consent to it, both of which may go while it runs. *)
(* The account is signed in by a callback that asks Google who it is; a    *)
(* login is one token with its principal.  The consumer withdraws the      *)
(* binding of consent and account before an account begins to change, as   *)
(* MetadataCurrentBinding asks, and every consent it records is a new one. *)
(***************************************************************************)
EXTENDS Naturals
CONSTANTS MaxLogins, MaxGrants, MaxTries   \* callbacks of GIS; consents; requests for one resource
ASSUME ConsentAssumption == MaxLogins \in Nat /\ MaxGrants \in Nat /\ MaxTries \in Nat \ {0}

None == [id |-> 0, of |-> 0]
Consents == {None} \cup [id : 1..MaxGrants, of : 1..MaxLogins]
Awaited == {"attest", "verify", "remaining", "token", "attestAgain", "verifyAgain", "dispatch", "fetch", "sleep",
                  "attestLast", "verifyLast", "deliver"}

VARIABLES login, expired,      \* the identity of the provider: 0, or the callback that brought it
          callbacks, latest,   \* callbacks so far; the one that is to count, 0 once signed out
          connecting,          \* those that still ask Google, with their abort signals
          binding, grants,       \* the binding in force; consents so far
          step,                \* the await of #discover, "idle" or "ended"
          prepared,            \* the consent it goes by
          heldConsent, heldLogin,  \* what a callback saw when it was called
          token, resource, tries,
          stopped,             \* the caller or the deadline
          dispatched, delivered
consentVars == <<login, expired, callbacks, latest, connecting, binding, grants, step, prepared, heldConsent, heldLogin,
                 token, resource, tries, stopped, dispatched, delivered>>
accountVars == <<login, expired, callbacks, latest, connecting>>
discoverVars == <<step, prepared, heldConsent, heldLogin, token, resource, tries, stopped, dispatched, delivered>>

ConsentInit ==
  /\ login = 0 /\ expired = FALSE /\ callbacks = 0 /\ latest = 0 /\ connecting = {} /\ binding = None /\ grants = 0
  /\ step = "idle" /\ prepared = None /\ heldConsent = None /\ heldLogin = 0 /\ token = 0
  /\ resource = "dataset" /\ tries = 0 /\ stopped = FALSE /\ dispatched = 0 /\ delivered = None

-----------------------------------------------------------------------------
(* GoogleTokenIdentityProvider: a new callback and a sign-out end whatever  *)
(* is signed in and whoever still asks.                                     *)
Disconnected == login' = 0 /\ expired' = FALSE
Aborted(cs) == {[c EXCEPT !.aborted = TRUE] : c \in cs}
Connect ==
  /\ binding = None /\ callbacks < MaxLogins
  /\ Disconnected /\ callbacks' = callbacks + 1 /\ latest' = callbacks + 1
  /\ connecting' = Aborted(connecting) \cup {[callback |-> callbacks + 1, aborted |-> FALSE]}
  /\ UNCHANGED <<binding, grants, discoverVars>>
Disconnect ==
  /\ binding = None /\ Disconnected /\ latest' = 0 /\ connecting' = Aborted(connecting)
  /\ UNCHANGED <<callbacks, binding, grants, discoverVars>>

\* (Bug: an answer counts whatever has happened since.)
CountsAnyAnswer(c) == TRUE
StillWanted(c) == ~c.aborted
ConnectAnswered(c) ==
  /\ connecting' = connecting \ {c}
  /\ \/ StillWanted(c) /\ login' = c.callback /\ expired' = FALSE
     \/ UNCHANGED <<login, expired>>       \* Google refuses, or the token does
  /\ UNCHANGED <<callbacks, latest, binding, grants, discoverVars>>
TokenExpires ==
  /\ login # 0 /\ expired' = TRUE
  /\ UNCHANGED <<login, callbacks, latest, connecting, binding, grants, discoverVars>>

Grant ==
  /\ binding = None /\ login # 0 /\ grants < MaxGrants
  /\ grants' = grants + 1 /\ binding' = [id |-> grants + 1, of |-> login]
  /\ UNCHANGED <<accountVars, discoverVars>>
Withdraw == binding # None /\ binding' = None /\ UNCHANGED <<accountVars, grants, discoverVars>>

-----------------------------------------------------------------------------
GivenUp == step' = "ended" /\ UNCHANGED <<prepared, heldConsent, heldLogin, token, resource, tries, dispatched, delivered>>
Outside == UNCHANGED <<accountVars, binding, grants, stopped>>

(* authorizeMetadata: a callback that may read the consent when it is       *)
(* called or when it answers.  authorize: the identity when it is called.   *)
Attest(next) == IF stopped THEN GivenUp
                ELSE /\ step' = next /\ heldConsent' = binding
                     /\ UNCHANGED <<prepared, heldLogin, token, resource, tries, dispatched, delivered>>
Authorize(next) == /\ step' = next /\ heldLogin' = IF expired THEN 0 ELSE login
                   /\ UNCHANGED <<prepared, heldConsent, token, resource, tries, dispatched, delivered>>
Discover == step = "idle" /\ Attest("attest") /\ Outside
Prepare ==
  /\ step = "attest" /\ Outside
  /\ \E seen \in {heldConsent, binding} \ {None} :
       /\ step' = "verify" /\ prepared' = seen /\ heldLogin' = IF expired THEN 0 ELSE login
       /\ UNCHANGED <<heldConsent, token, resource, tries, dispatched, delivered>>
Attested(await, next) ==
  step = await /\ prepared \in {heldConsent, binding} /\ Authorize(next) /\ Outside
Verified(await) == step = await /\ heldLogin = prepared.of /\ Outside
OnTo(next) == step' = next /\ UNCHANGED <<prepared, heldConsent, heldLogin, token, resource, tries, dispatched, delivered>>

Verify == Verified("verify") /\ OnTo("remaining")
(* Transport.call asks what is left to spend, and only then listens to the  *)
(* signal: a stop in between is not heard before the next attestation.      *)
Remaining == step = "remaining" /\ Authorize("token") /\ Outside
TakeToken ==
  /\ Verified("token")
  /\ IF stopped THEN GivenUp
     ELSE /\ step' = "attestAgain" /\ token' = heldLogin /\ heldConsent' = binding
          /\ UNCHANGED <<prepared, heldLogin, resource, tries, dispatched, delivered>>
AttestAgain == Attested("attestAgain", "verifyAgain")
VerifyAgain == Verified("verifyAgain") /\ OnTo("dispatch")
\* (Bug: no look at the binding in the step that sends.)
TrustsItsAwaits == TRUE
AssertCurrent == binding = prepared /\ ~expired
Dispatch ==
  /\ step = "dispatch" /\ Outside
  /\ IF AssertCurrent
     THEN step' = "fetch" /\ dispatched' = dispatched + 1 /\ tries' = tries + 1
          /\ UNCHANGED <<prepared, heldConsent, heldLogin, token, resource, delivered>>
     ELSE GivenUp
Responds ==
  /\ step = "fetch" /\ Outside
  /\ \/ /\ resource = "dataset" /\ step' = "remaining" /\ resource' = "table" /\ tries' = 0
        /\ UNCHANGED <<prepared, heldConsent, heldLogin, token, dispatched, delivered>>
     \/ resource = "table" /\ Attest("attestLast")
     \/ tries < MaxTries /\ OnTo("sleep")
     \/ GivenUp
Retry == step = "sleep" /\ OnTo("remaining") /\ Outside
AttestLast == Attested("attestLast", "verifyLast")
VerifyLast == Verified("verifyLast") /\ OnTo("deliver")
Deliver ==
  /\ step = "deliver" /\ Outside
  /\ IF AssertCurrent
     THEN step' = "ended" /\ delivered' = prepared
          /\ UNCHANGED <<prepared, heldConsent, heldLogin, token, resource, tries, dispatched>>
     ELSE GivenUp
(* Consent or identity is another one, a callback fails, a reply is wrong.  *)
DiscoverFails == step \in Awaited /\ GivenUp /\ Outside
(* The call ends at once; #discover does when its own await is raced.       *)
Stop ==
  /\ step \in Awaited /\ ~stopped /\ stopped' = TRUE
  /\ step' = IF step \in {"remaining"} THEN step ELSE "ended"
  /\ UNCHANGED <<accountVars, binding, grants, prepared, heldConsent, heldLogin, token, resource, tries, dispatched, delivered>>

ConsentNext ==
  \/ Connect \/ Disconnect \/ (\E c \in connecting : ConnectAnswered(c)) \/ TokenExpires \/ Grant \/ Withdraw
  \/ Discover \/ Prepare \/ Verify \/ Remaining \/ TakeToken \/ AttestAgain \/ VerifyAgain \/ Dispatch
  \/ Responds \/ Retry \/ AttestLast \/ VerifyLast \/ Deliver \/ DiscoverFails \/ Stop
ConsentSpec == ConsentInit /\ [][ConsentNext]_consentVars

ConsentTypeOK ==
  /\ login \in 0..MaxLogins /\ expired \in BOOLEAN /\ callbacks \in 0..MaxLogins /\ latest \in 0..MaxLogins
  /\ connecting \subseteq [callback : 1..MaxLogins, aborted : BOOLEAN]
  /\ binding \in Consents /\ grants \in 0..MaxGrants /\ step \in Awaited \cup {"idle", "ended"}
  /\ prepared \in Consents /\ heldConsent \in Consents /\ delivered \in Consents
  /\ heldLogin \in 0..MaxLogins /\ token \in 0..MaxLogins /\ resource \in {"dataset", "table"}
  /\ tries \in 0..MaxTries /\ stopped \in BOOLEAN /\ dispatched \in 0..(2 * MaxTries)

-----------------------------------------------------------------------------
(* Every request leaves with the token of the account that is signed in at  *)
(* that moment, while the consent it was prepared under is in force, and    *)
(* never for a discovery that its caller or its deadline has stopped.       *)
DispatchIsAuthorised ==
  [][dispatched' # dispatched => login # 0 /\ token = login /\ ~expired /\ binding = prepared /\ binding.of = token /\ ~stopped]_consentVars

(* Who is signed in is whom the latest callback brought, and nobody after a *)
(* sign-out, however late Google answers for the callbacks before.          *)
SignedOutStaysOut == login # 0 => login = latest
=============================================================================
