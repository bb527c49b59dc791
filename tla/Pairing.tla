------------------------------ MODULE Pairing ------------------------------
(***************************************************************************)
(* The pairing store of a channel: the file of pending requests and the    *)
(* file of approved senders (allowFrom).  The channel's callbacks in gyre  *)
(* ask for codes; runs of the command line list and approve.  A section    *)
(* under a file's exclusive lock is one step; what is done before the lock *)
(* is taken, or without it, is a step of its own.  The limit on failed     *)
(* approvals only keeps an approval from happening and is left out.        *)
(***************************************************************************)
EXTENDS Integers, FiniteSets, TLC

CONSTANTS
  Commands,    \* runs of the command line at the same time
  Senders,     \* ids of senders
  Codes,       \* pairing codes
  MaxPairings   \* PAIRING_PENDING_MAX

ASSUME PairingAssumption ==
  /\ MaxPairings \in Nat \ {0}
  /\ IsFiniteSet(Codes) /\ Cardinality(Codes) > MaxPairings
  /\ "none" \notin Senders

VARIABLES
  requests,   \* the file of pending requests
  expired,    \* requests older than PAIRING_PENDING_TTL_SECS
  allow,      \* the file of approved senders
  command,    \* what each run of the command line is in the middle of
  admitted    \* history: senders whose pending request was approved in time

pairingVars == <<requests, expired, allow, command, admitted>>

Request == [id : Senders, code : Codes]
Idle == [at |-> "idle", rows |-> {}, id |-> "none"]
PairingInit ==
  /\ requests = {} /\ expired = {}
  /\ allow = {}
  /\ command = [c \in Commands |-> Idle]
  /\ admitted = {}

Fresh == requests \ expired
Copies == UNION {command[c].rows : c \in Commands}
At(c, phase) == command[c].at = phase
Rest(c) == command' = [command EXCEPT ![c] = Idle]
\* The file gets these rows; the age of a row nobody has any more is forgotten
Write(rows) ==
  /\ requests' = rows
  /\ expired' = expired \cap (rows \cup Copies)

----------------------------------------------------------------------------
\* Time passes for a request
Expire(r) ==
  /\ r \notin expired
  /\ expired' = expired \cup {r}
  /\ UNCHANGED <<requests, allow, command, admitted>>

\* upsert_request: expired requests go, a sender with a request keeps its code,
\* another gets a code nobody has when there is room
Renew(id) ==
  /\ id \in {r.id : r \in Fresh}
  /\ Write(Fresh)
  /\ UNCHANGED <<allow, command, admitted>>

\* mutant: expired requests count neither for the room nor are they removed
AskKeeping(id) ==
  /\ id \notin {r.id : r \in Fresh}
  /\ Cardinality(Fresh) < MaxPairings
  /\ \E code \in Codes \ {r.code : r \in Fresh} :
       LET r == [id |-> id, code |-> code] IN
       /\ r \notin expired \cup Copies
       /\ Write(requests \cup {r})
  /\ UNCHANGED <<allow, command, admitted>>
Ask(id) ==
  /\ id \notin {r.id : r \in Fresh}
  /\ Cardinality(Fresh) < MaxPairings
  /\ \E code \in Codes \ {r.code : r \in Fresh} :
       LET r == [id |-> id, code |-> code] IN
       /\ r \notin expired \cup Copies   \* a random code does not come twice
       /\ Write(Fresh \cup {r})
  /\ UNCHANGED <<allow, command, admitted>>

----------------------------------------------------------------------------
\* list_pending reads without the lock and goes on if something has expired
ListReads(c) ==
  /\ At(c, "idle")
  /\ requests \cap expired # {}
  /\ command' = [command EXCEPT ![c] = [at |-> "truncate", rows |-> Fresh, id |-> "none"]]
  /\ UNCHANGED <<requests, expired, allow, admitted>>

\* It opens the file to write, which truncates it, and waits for the lock after
\* that.  A truncation inside a section that holds the lock and has read the file
\* is lost when that section writes all of it.
ListTruncates(c) ==
  /\ At(c, "truncate")
  /\ Write({}) \/ UNCHANGED <<requests, expired>>
  /\ command' = [command EXCEPT ![c].at = "write"]
  /\ UNCHANGED <<allow, admitted>>

\* mutant: what has been asked for meanwhile is kept beside the rows read before
ListMerges(c) ==
  /\ At(c, "write")
  /\ Write(command[c].rows \cup requests)
  /\ Rest(c)
  /\ UNCHANGED <<allow, admitted>>
ListWrites(c) ==
  /\ At(c, "write")
  /\ Write(command[c].rows)
  /\ Rest(c)
  /\ UNCHANGED <<allow, admitted>>

----------------------------------------------------------------------------
\* approve takes the request out under the lock, then adds its sender; with a
\* code nobody has it changes nothing but the file of failures
Admit(r) == admitted' = IF r \in expired THEN admitted ELSE admitted \cup {r.id}
ApproveAny(c, r) ==   \* mutant: expired requests are not removed first
  /\ At(c, "idle")
  /\ r \in requests
  /\ Write(requests \ {r})
  /\ Admit(r)
  /\ command' = [command EXCEPT ![c] = [at |-> "open", rows |-> {}, id |-> r.id]]
  /\ UNCHANGED allow
Approve(c, r) ==
  /\ At(c, "idle")
  /\ r \in Fresh
  /\ Write(Fresh \ {r})
  /\ Admit(r)
  /\ command' = [command EXCEPT ![c] = [at |-> "open", rows |-> {}, id |-> r.id]]
  /\ UNCHANGED allow

\* add_allow_from opens the file with truncate, before it is locked and read;
\* when another run is about to write what it has read, that is not lost
AllowOpens(c) ==
  /\ At(c, "open")
  /\ \/ allow' = {}
     \/ \E d \in Commands : At(d, "add") /\ command[d].id \notin allow /\ UNCHANGED allow
  /\ command' = [command EXCEPT ![c].at = "add"]
  /\ UNCHANGED <<requests, expired, admitted>>

AllowAdds(c) ==
  /\ At(c, "add")
  /\ allow' = allow \cup {command[c].id}
  /\ Rest(c)
  /\ UNCHANGED <<requests, expired, admitted>>

\* The command line is killed between two steps, or while it or gyre writes the
\* file it has emptied
Crash(c) ==
  /\ ~ At(c, "idle")
  /\ Rest(c)
  /\ UNCHANGED <<requests, expired, allow, admitted>>
KilledWriting ==
  /\ requests # {}
  /\ Write({})
  /\ UNCHANGED <<allow, command, admitted>>

PairingNext ==
  \/ \E r \in requests \cup Copies : Expire(r)
  \/ \E id \in Senders : Renew(id) \/ Ask(id)
  \/ \E c \in Commands :
       \/ ListReads(c) \/ ListTruncates(c) \/ ListWrites(c)
       \/ \E r \in requests : Approve(c, r)
       \/ AllowOpens(c) \/ AllowAdds(c) \/ Crash(c)
  \/ KilledWriting

PairingSpec == PairingInit /\ [][PairingNext]_pairingVars

Symmetry == Permutations(Commands) \cup Permutations(Senders) \cup Permutations(Codes)

----------------------------------------------------------------------------
\* The variables keep their types, and no age is kept of what is nowhere
PairingTypeOK ==
  /\ requests \subseteq Request
  /\ expired \subseteq Request
  /\ allow \subseteq Senders /\ admitted \subseteq Senders
  /\ command \in [Commands -> [at : {"idle", "truncate", "write", "open", "add"},
                               rows : SUBSET Request, id : Senders \cup {"none"}]]
  /\ \A c \in Commands : At(c, "open") \/ At(c, "add") => command[c].id \in Senders

\* However lists, approvals and requests interleave, and whatever an old list
\* writes back, the file holds no more requests than it has room for
PendingBound == Cardinality(requests) <= MaxPairings

\* A code leads to one sender and a sender has one code, in the file and in
\* every copy a list may write back
CodesUnique ==
  \A rows \in {requests} \cup {command[c].rows : c \in Commands} :
    \A r, s \in rows : r.id = s.id \/ r.code = s.code => r = s

\* Whoever is in allowFrom, or about to be, had a pending request approved
\* before it expired
AllowedInTime ==
  allow \cup {command[c].id : c \in {d \in Commands : At(d, "open") \/ At(d, "add")}}
    \subseteq admitted

\* Approving a sender takes nobody out of allowFrom (which the code does not
\* keep, see the README)
ApprovedStay == [][allow \subseteq allow']_pairingVars
=============================================================================
