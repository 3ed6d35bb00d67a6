---------------------------------- MODULE Oidc ----------------------------------
(***************************************************************************)
(* services/oidc: the identity provider of a peer.  Its registry of apps   *)
(* is a file that is read and written whole, under a mutex; sign-ins that  *)
(* are under way (sessions) and authorization codes are in memory, under   *)
(* another, which is let go between two steps of a handler.  Redirects,    *)
(* secrets, PKCE and claims are left out: a request that fails such a      *)
(* check ends where the check is.  Sign-ins and codes get numbers.         *)
(***************************************************************************)
EXTENDS Naturals, FiniteSets

CONSTANTS
  Apps,         \* the clients that are registered at some time
  MaxSignIns,   \* bound: sessions
  MaxCodes,     \* bound: codes
  OidcChanges   \* bound: edits of the registry, expiries, crashes

ASSUME OidcAssumption == {MaxSignIns, MaxCodes, OidcChanges} \subseteq Nat

VARIABLES
  registry,   \* clients.json: "none" or "deleted" (not in it),
              \* "locked" (no channel) or "open", by app; ids are not used again
  torn,       \* clients.json is cut off in a write
  saved,      \* history: what the edits that were answered come to
  edits,      \* edits that hold the mutex: the app, its new row, the rows read
  sessions,   \* Service.sessions: "none", "open", "asked" (begin) or "gone"
  appOf,      \* the app of a session
  finishing,  \* handlePasskeyFinish: its session, and the code it minted or 0
  codes,      \* Service.codes: the session, or 0 when never or no longer there
  signedIn,   \* the session that each code was minted for
  taking,     \* the token requests that hold a code
  given,     \* the tokens given for each code
  refused,    \* history: sessions that ended with no finish under way
  orphaned,   \* history: codes whose app was gone before they were taken
  oidcChanges

store == <<registry, torn, saved, edits>>
ceremony == <<sessions, appOf, finishing>>
grants == <<codes, signedIn, taking, given>>
oidcHistory == <<refused, orphaned>>
oidcVars == <<store, ceremony, grants, oidcHistory, oidcChanges>>

SignIns == 1..MaxSignIns
CodeIds == 1..MaxCodes
Rows == {"none", "locked", "open", "deleted"}
Registered == {"locked", "open"}
Finish(s, c) == [session |-> s, code |-> c]

OidcInit ==
  /\ registry = [a \in Apps |-> "none"] /\ torn = FALSE /\ saved = registry
  /\ edits = {}
  /\ sessions = [s \in SignIns |-> "none"] /\ appOf \in [SignIns -> Apps]
  /\ finishing = {}
  /\ codes = [c \in CodeIds |-> 0] /\ signedIn = codes /\ taking = {}
  /\ given = codes
  /\ refused = {} /\ orphaned = {}
  /\ oidcChanges = OidcChanges

OidcChange == oidcChanges > 0 /\ oidcChanges' = oidcChanges - 1

-----------------------------------------------------------------------------
(* The registry.                                                           *)

StoreFree == edits = {}

\* A row is changed: all rows are read.  An unreadable file is an error.
EditStore(a, row) ==
  /\ OidcChange /\ StoreFree /\ ~torn
  /\ edits' = edits \cup {[app |-> a, row |-> row, rows |-> registry]}
  /\ UNCHANGED <<registry, torn, saved, ceremony, grants, oidcHistory>>

CreateApp(a) == registry[a] = "none" /\ EditStore(a, "locked")

\* SetChannels: an unknown app is an error.
SetChannels(a) ==
  /\ registry[a] \in Registered
  /\ \E row \in Registered \ {registry[a]} : EditStore(a, row)

DeleteApp(a) == registry[a] \in Registered /\ EditStore(a, "deleted")

\* WriteFile makes the file empty ...
Truncate(e) ==
  /\ e \in edits /\ ~torn
  /\ torn' = TRUE
  /\ UNCHANGED <<registry, saved, edits, ceremony, grants, oidcHistory, oidcChanges>>

\* ... and writes all rows.
Save(e) ==
  /\ e \in edits /\ torn
  /\ registry' = [e.rows EXCEPT ![e.app] = e.row] /\ torn' = FALSE
  /\ saved' = [saved EXCEPT ![e.app] = e.row]
  /\ edits' = edits \ {e}
  /\ orphaned' = orphaned \cup {c \in CodeIds :
                               e.row = "deleted" /\ codes[c] # 0 /\ appOf[codes[c]] = e.app}
  /\ UNCHANGED <<ceremony, grants, refused, oidcChanges>>

\* ClientStore.Get, under the mutex: an unreadable file has no apps.
Known(a) == StoreFree /\ ~torn /\ registry[a] \in Registered

-----------------------------------------------------------------------------
(* Signing in.                                                             *)

\* handleAuthorize: the app has a channel the peer is a member of.
Authorize(s) ==
  /\ sessions[s] = "none" /\ \A r \in 1..s-1 : sessions[r] # "none"
  /\ \E a \in Apps :
       /\ Known(a) /\ registry[a] = "open"
       /\ appOf' = [appOf EXCEPT ![s] = a]
  /\ sessions' = [sessions EXCEPT ![s] = "open"]
  /\ UNCHANGED <<store, finishing, grants, oidcHistory, oidcChanges>>

\* handlePasskeyBegin; the peer has a passkey.
Begin(s) ==
  /\ sessions[s] = "open"
  /\ sessions' = [sessions EXCEPT ![s] = "asked"]
  /\ UNCHANGED <<store, appOf, finishing, grants, oidcHistory, oidcChanges>>

\* handlePasskeyFinish resolves the session and verifies the answer ...
FinishBegin(s) ==
  /\ sessions[s] = "asked" /\ Finish(s, 0) \notin finishing
  /\ finishing' = finishing \cup {Finish(s, 0)}
  /\ UNCHANGED <<store, sessions, appOf, grants, oidcHistory, oidcChanges>>

\* ... issueCode, whether the session is there still or not ...
IssueCode(s, c) ==
  /\ Finish(s, 0) \in finishing
  /\ signedIn[c] = 0 /\ \A d \in 1..c-1 : signedIn[d] # 0
  /\ codes' = [codes EXCEPT ![c] = s] /\ signedIn' = [signedIn EXCEPT ![c] = s]
  /\ finishing' = (finishing \ {Finish(s, 0)}) \cup {Finish(s, c)}
  /\ orphaned' = IF registry[appOf[s]] = "deleted" THEN orphaned \cup {c} ELSE orphaned
  /\ UNCHANGED <<store, sessions, appOf, taking, given, refused, oidcChanges>>

\* ... and the session is deleted.
FinishEnd(f) ==
  /\ f \in finishing /\ f.code # 0
  /\ sessions' = [sessions EXCEPT ![f.session] = "gone"]
  /\ finishing' = finishing \ {f}
  /\ UNCHANGED <<store, appOf, grants, oidcHistory, oidcChanges>>

\* The answer is wrong.
FinishFails(s) ==
  /\ Finish(s, 0) \in finishing
  /\ finishing' = finishing \ {Finish(s, 0)}
  /\ UNCHANGED <<store, sessions, appOf, grants, oidcHistory, oidcChanges>>

\* Faulty variant: the session stays for five minutes more.
WithoutSessionLater(s) == sessions
WithoutSession(s) == [sessions EXCEPT ![s] = "gone"]

\* handleCancel, or session after five minutes.
CancelSignIn(s) ==
  /\ OidcChange /\ sessions[s] \in {"open", "asked"}
  /\ sessions' = WithoutSession(s)
  /\ refused' = IF \E f \in finishing : f.session = s THEN refused ELSE refused \cup {s}
  /\ UNCHANGED <<store, appOf, finishing, grants, orphaned>>

-----------------------------------------------------------------------------
(* Tokens.                                                                 *)

CodeTaken(c) == [codes EXCEPT ![c] = 0]

\* handleToken takes the code; requests for the same one may come at once.
TakeCode(c) ==
  /\ codes[c] # 0
  /\ codes' = CodeTaken(c)
  /\ \E r \in {1, 2} : taking' = taking \cup {[code |-> c, request |-> r]}
  /\ UNCHANGED <<store, ceremony, signedIn, given, oidcHistory, oidcChanges>>

\* A code expires.
CodeExpires(c) ==
  /\ OidcChange /\ codes[c] # 0
  /\ codes' = [codes EXCEPT ![c] = 0]
  /\ UNCHANGED <<store, ceremony, signedIn, taking, given, oidcHistory>>

StillKnown(a) == Known(a)

\* The app is looked up, and what it sends fits: it gets its token.
GiveToken(t) ==
  /\ t \in taking /\ StillKnown(appOf[signedIn[t.code]])
  /\ given' = [given EXCEPT ![t.code] = @ + 1]
  /\ taking' = taking \ {t}
  /\ UNCHANGED <<store, ceremony, codes, signedIn, oidcHistory, oidcChanges>>

\* It is gone, or what it sends does not fit: the code is spent all the same.
RefuseToken(t) ==
  /\ t \in taking
  /\ taking' = taking \ {t}
  /\ UNCHANGED <<store, ceremony, codes, signedIn, given, oidcHistory, oidcChanges>>

-----------------------------------------------------------------------------
\* The process ends: the file is left as it is, the rest is lost.
OidcCrash ==
  /\ OidcChange
  /\ edits' = {} /\ finishing' = {} /\ taking' = {}
  /\ sessions' = [s \in SignIns |-> IF sessions[s] = "none" THEN "none" ELSE "gone"]
  /\ codes' = [c \in CodeIds |-> 0]
  /\ UNCHANGED <<registry, torn, saved, appOf, signedIn, given, oidcHistory>>

OidcNext ==
  \/ \E a \in Apps : CreateApp(a) \/ SetChannels(a) \/ DeleteApp(a)
  \/ \E e \in edits : Truncate(e) \/ Save(e)
  \/ \E s \in SignIns :
       \/ Authorize(s) \/ Begin(s) \/ CancelSignIn(s)
       \/ FinishBegin(s) \/ FinishFails(s)
       \/ \E c \in CodeIds : IssueCode(s, c)
  \/ \E f \in finishing : FinishEnd(f)
  \/ \E c \in CodeIds : TakeCode(c) \/ CodeExpires(c)
  \/ \E t \in taking : GiveToken(t) \/ RefuseToken(t)
  \/ OidcCrash

OidcSpec == OidcInit /\ [][OidcNext]_oidcVars

-----------------------------------------------------------------------------
\* Type invariant; a code is of a session, and one edit at a time has the file.
OidcTypeOK ==
  /\ registry \in [Apps -> Rows] /\ saved \in [Apps -> Rows] /\ torn \in BOOLEAN
  /\ Cardinality(edits) <= 1
  /\ sessions \in [SignIns -> {"none", "open", "asked", "gone"}]
  /\ \A c \in CodeIds : codes[c] \in {0, signedIn[c]} /\ signedIn[c] \in 0..MaxSignIns
  /\ \A f \in finishing : f.code # 0 => signedIn[f.code] = f.session
  /\ refused \subseteq SignIns /\ orphaned \subseteq CodeIds

\* A code is good for one token, however many requests present it at once.
TokenOnce == \A c \in CodeIds : given[c] <= 1

\* A sign-in that the user cancelled, or that ran out, before it was finished
\* never comes to a code.
RefusedGivesNoCode == \A c \in CodeIds : signedIn[c] \notin refused

\* An app that was deleted before a code for it was used gets no token for it.
DeletedAppGetsNoToken == \A c \in orphaned : given[c] = 0

\* Nothing that was answered is lost from the registry by edits that overlap;
\* a crash in a write loses the whole of it, and nothing less.
RegistryIsWhatWasSaved == StoreFree /\ ~torn => registry = saved

\* Codes and tokens are those of sign-ins that were finished, by apps that are
\* registered, however the requests of several sign-ins and edits overlap.
SignInsAreSound ==
  TokenOnce /\ RefusedGivesNoCode /\ DeletedAppGetsNoToken /\ RegistryIsWhatWasSaved

===============================================================================
