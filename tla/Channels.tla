------------------------------ MODULE Channels -------------------------------
(***************************************************************************)
(* One channel of db/blocks/channels, replicated to its members: a block   *)
(* whose versions carry the member list, in a scope that is served to      *)
(* members only, as each peer sees them in its own replica (the check that *)
(* main.go gives to Sync).  FrameSync keeps the membership constant; here  *)
(* it is what the replicated versions say.                                 *)
(*                                                                         *)
(* The log is taken as ReplicatedLog promises it, and the latest version   *)
(* as the head whose content counts (BlockFold, LatestIsHead).  A request  *)
(* that changes the channel reads it first (Get) and writes it whole       *)
(* later; nothing is held between the two (api_channels.go).  Names are    *)
(* left out; Rename writes the members it has read, just as the removal    *)
(* of someone who is no member does.  Also left out are the channels       *)
(* without a creator (general, which is open to all, and direct messages,  *)
(* whose two members never change) and messages on their way, which are    *)
(* FrameSync's.                                                            *)
(***************************************************************************)
EXTENDS Naturals, Sequences, FiniteSets

CONSTANTS
  PeerCount,
  Creator,      \* the peer that creates the channel
  MaxVersions,  \* bound: versions written
  MaxSkew,      \* bound: how far other scopes raise the clock of a writer
  MaxRequests   \* bound: requests under way

\* Peers are numbered as the hashes of their versions of one stamp are ordered.
Peers == 1..PeerCount

ASSUME PeerAssumption == PeerCount \in Nat /\ Creator \in Peers
ASSUME BoundAssumption ==
  MaxVersions \in Nat /\ MaxSkew \in Nat /\ MaxRequests \in Nat

VARIABLES
  chain,       \* chain[a]: the versions a has written
  known,       \* known[n][a]: how many of them peer n has
  requests,    \* those that have read the channel at their peer
  wanted,      \* the members once all changes so far are made (history)
  overlapped   \* a change was based on a version not the latest (history)

vars == <<chain, known, requests, wanted, overlapped>>

Version == [author : Peers, stamp : Nat,
            op : {"create", "update", "delete"}, members : SUBSET Peers]

Written == UNION {{chain[a][i] : i \in 1..Len(chain[a])} : a \in Peers}
Seen(n) == UNION {{chain[a][i] : i \in 1..known[n][a]} : a \in Peers}

\* The order of versions: the stamp, then the hash.
Before(v, w) ==
  v.stamp < w.stamp \/ (v.stamp = w.stamp /\ v.author < w.author)

Latest(S) == CHOOSE v \in S : \A w \in S \ {v} : Before(w, v)
Earliest(S) == CHOOSE v \in S : \A w \in S \ {v} : Before(v, w)

-----------------------------------------------------------------------------
(* The channel as peer n folds it.                                         *)

\* Manager.Get: neither unknown nor deleted.
Exists(n) == Seen(n) # {} /\ Latest(Seen(n)).op # "delete"

\* toChannel.
Members(n) == Latest(Seen(n)).members
Owner(n) == Earliest(Seen(n)).author

\* Faulty variant: a channel that is not known is open.
IsMemberUnlessKnown(n, p) ==
  Exists(n) => p = Owner(n) \/ p \in Members(n)

\* Faulty variant: the list alone counts, which the owner is not on.
IsMemberIfListed(n, p) == Exists(n) /\ p \in Members(n)

\* Manager.IsMember: who passes for a member at n.
IsMember(n, p) == Exists(n) /\ (p = Owner(n) \/ p \in Members(n))

-----------------------------------------------------------------------------

Init ==
  /\ chain = [a \in Peers |-> <<>>]
  /\ known = [n \in Peers |-> [a \in Peers |-> 0]]
  /\ requests = {}
  /\ wanted = {}
  /\ overlapped = FALSE

\* Faulty variant: stamps count the author's own versions only.
StampsOfOwn(n) == {Len(chain[n]) + 1}

\* Service.Commit: above all n has, further if other scopes raised its clock.
Stamps(n) ==
  IF Seen(n) = {} THEN 1..(MaxSkew + 1)
  ELSE LET top == Latest(Seen(n)).stamp IN (top + 1)..(top + 1 + MaxSkew)

\* Faulty variant: a version sent out but not kept by its author.
CommitUnkept(n, op, members) ==
  /\ Cardinality(Written) < MaxVersions
  /\ \E t \in Stamps(n) :
       chain' = [chain EXCEPT ![n] =
         Append(@, [author |-> n, stamp |-> t, op |-> op, members |-> members])]
  /\ UNCHANGED known

Commit(n, op, members) ==
  /\ Cardinality(Written) < MaxVersions
  /\ \E t \in Stamps(n) :
       chain' = [chain EXCEPT ![n] =
         Append(@, [author |-> n, stamp |-> t, op |-> op, members |-> members])]
  /\ known' = [known EXCEPT ![n][n] = @ + 1]

\* Manager.Create: under a fresh bid, so once; the owner is not in the list.
Create(n) ==
  /\ n = Creator
  /\ Written = {}
  /\ Commit(n, "create", {})
  /\ UNCHANGED <<requests, wanted, overlapped>>

\* A request reads the channel; adding the owner or a member ends it there.
Begin(n) ==
  /\ Cardinality(requests) < MaxRequests
  /\ Exists(n)
  /\ LET head == Latest(Seen(n))
         owner == Owner(n)
     IN \E change \in {"add", "remove"}, p \in Peers :
          /\ change = "add" => p # owner /\ p \notin head.members
          /\ requests' = requests \cup
               {[at |-> n, change |-> change, who |-> p, read |-> head]}
  /\ UNCHANGED <<chain, known, wanted, overlapped>>

Changed(members, r) ==
  IF r.change = "add" THEN members \cup {r.who} ELSE members \ {r.who}

\* Manager.write: the whole content anew, from what was read.
Write(r) ==
  /\ r \in requests
  /\ requests' = requests \ {r}
  /\ Commit(r.at, "update", Changed(r.read.members, r))
  /\ wanted' = Changed(wanted, r)
  /\ overlapped' = (overlapped \/ r.read # Latest(Written))

\* Manager.Delete: a tombstone, by the creator only.
Delete(n) ==
  /\ n = Creator
  /\ Seen(n) # {}
  /\ Commit(n, "delete", {})
  /\ UNCHANGED <<requests, wanted, overlapped>>

\* Push, pull and gap pull of Sync: n serves m, a member in the eyes of n, some
\* more of an author's chain.
Serve(n, m) ==
  /\ \E a \in Peers : known[m][a] < known[n][a]
  /\ IsMember(n, m)
  /\ \E a \in Peers : \E k \in (known[m][a] + 1)..known[n][a] :
       known' = [known EXCEPT ![m][a] = k]
  /\ UNCHANGED <<chain, requests, wanted, overlapped>>

Next ==
  \/ \E n \in Peers : Create(n) \/ Begin(n) \/ Delete(n)
  \/ \E r \in requests : Write(r)
  \/ \E n, m \in Peers : Serve(n, m)

Spec == Init /\ [][Next]_vars

\* PullAll comes round to every peer.
FairSpec == Spec /\ \A m \in Peers : SF_vars(\E n \in Peers : Serve(n, m))

-----------------------------------------------------------------------------
(* Properties.                                                             *)

\* Types; a peer knows no more of a chain than there is, and all of its own.
TypeOK ==
  /\ chain \in [Peers -> Seq(Version)]
  /\ known \in [Peers -> [Peers -> Nat]]
  /\ \A n, a \in Peers : known[n][a] <= known[a][a]
  /\ \A a \in Peers : known[a][a] = Len(chain[a])
  /\ \A r \in requests : r.at \in Peers /\ r.who \in Peers /\ r.read \in Seen(r.at)
  /\ wanted \subseteq Peers
  /\ overlapped \in BOOLEAN

\* No peer comes to hold a version of the channel unless it created it or some
\* version lists it, whichever replica decided, whoever passed there for the
\* owner, and however memberships changed meanwhile.
OnlyEverMembersHold ==
  \A n \in Peers :
    Seen(n) # {} => n = Creator \/ \E v \in Written : n \in v.members

\* The owner is read off the earliest version a peer has.  Until the creating
\* one arrives another author passes for it; from then on it is the creator,
\* for every version is stamped above the one that created the channel.
OwnerSettles ==
  \A n \in Peers : known[n][Creator] > 0 => Owner(n) = Creator

\* Whoever passes for the owner has an earlier version than those for whom he
\* passes, so the chain of owners leads to the creator.  Owners are members, so
\* no list shuts out the peers through whom a version gets to the creator.
OwnersLeadToCreator ==
  \A n \in Peers :
    Seen(n) # {} /\ n # Creator =>
      \/ Owner(n) = Creator
      \/ Before(Earliest(Seen(Owner(n))), Earliest(Seen(n)))

\* While every change was based on the latest version, the latest version
\* lists whom the changes so far ask for: with one writer and one request at
\* a time no change is lost, as ENTITIES.md has it.
NoConflictWhenSerial ==
  ~overlapped /\ Written # {} /\ Latest(Written).op # "delete"
    => Latest(Written).members = wanted

\* Whoever the latest version lists, and the creator, sees that version in the
\* end, whichever members it has to pass through on its way.
MembersLearn ==
  \A p \in Peers :
    <>[](Written # {} /\ Latest(Written).op # "delete"
         /\ (p = Creator \/ p \in Latest(Written).members))
      => []<>(Seen(p) # {} /\ Latest(Seen(p)) = Latest(Written))

\* "Owner tears the channel down for everyone" (ui/web/assets/app.js:503): a
\* deleted channel is gone, in the end, for every peer that has it, unless a
\* later change brings it back.
DeletionSpreads ==
  \A n \in Peers :
    (Written # {} /\ Latest(Written).op = "delete")
      ~> (~Exists(n) \/ Latest(Written).op # "delete")
=============================================================================
