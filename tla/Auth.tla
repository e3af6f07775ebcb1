--------------------------------- MODULE Auth ---------------------------------
(***************************************************************************)
(* auth-service: accounts, refresh tokens and their blacklist              *)
(* (routers/auth.py), the signing key on its volume (keys.py), and the     *)
(* key cache with which another service verifies access tokens             *)
(* (gestalt_shared/security.py).                                           *)
(*                                                                         *)
(* All calls concern one e-mail address.  A call of auth-service is a      *)
(* thread of its pool; each action is one Redis command, one transaction   *)
(* of MariaDB or the read that begins one.  A refresh token is named by    *)
(* the call that issued it.                                                *)
(***************************************************************************)
EXTENDS Naturals

CONSTANTS
  Calls,
  OpOf,               \* what each call asks for
  TokenOf,            \* the call whose tokens it presents, if it presents any
  SnapshotIsolation,  \* innodb_snapshot_isolation of MariaDB
  Faults,             \* which of "call", "crash", "network" can happen
  MaxMishaps          \* bound: how many of them do

Ops == {"register", "login", "refresh", "logout", "use"}

ASSUME CallsAssumption == /\ OpOf \in [Calls -> Ops]
                          /\ TokenOf \in [Calls -> Calls]
                          /\ SnapshotIsolation \in BOOLEAN
ASSUME BoundAssumption == MaxMishaps \in Nat

VARIABLES
  call,    \* program counter of each call; late: see Arrive and Verify
  users,   \* the registrations whose row is in the table users
  row,     \* the refresh token each login or refresh issued, in its table
  black,   \* the blacklist: tokens whose key is in Redis
  disk,    \* the two files of the volume, and how often a key was generated
  auth,    \* auth-service: down, writing one of the files, up
  signed,  \* the kid of the access token each login or refresh issued
  cache,   \* the key cache of the other service: its keys, and whether they are old
  proven,  \* history: it verified a token since it started
  mishaps  \* how many faults happened

tokenVars == <<users, row, black, signed>>
keyVars   == <<disk, auth, cache, proven>>
vars == <<call, tokenVars, keyVars, mishaps>>

NewCall == [pc |-> "idle", late |-> FALSE]
NoKid   == <<0, "none">>

Init == /\ call = [c \in Calls |-> NewCall]
        /\ users = {} /\ black = {}
        /\ row = [c \in Calls |-> "none"]
        /\ signed = [c \in Calls |-> NoKid]
        /\ disk = [private |-> "none", public |-> "none", made |-> 0]
        /\ auth = "down"
        /\ cache = [keys |-> {}, stale |-> FALSE]
        /\ proven = FALSE
        /\ mishaps = 0

Mishap(f) == f \in Faults /\ mishaps < MaxMishaps /\ mishaps' = mishaps + 1

At(c, ops, pc) == auth = "up" /\ OpOf[c] \in ops /\ call[c].pc = pc
Goto(c, pc)    == call' = [call EXCEPT ![c] = [@ EXCEPT !.pc = pc]]
Issued(c)      == OpOf[c] \in {"login", "refresh"} /\ call[c].pc = "ok"
Holds(c)       == Issued(TokenOf[c])  \* clients present tokens they were given

\* Another call that revoked the token of c was answered before c began.
Arrive(c, pc) ==
  call' = [call EXCEPT ![c] =
    [pc |-> pc, late |-> \E d \in Calls : /\ TokenOf[d] = TokenOf[c] /\ call[d].pc = "ok"
                                          /\ OpOf[d] \in {"refresh", "logout"}]]

\* kid is a digest of the public file, whole or not; the key is of the private one.
Kid == <<disk.made, disk.public>>

\* Mutants: the table is not asked whether a token is revoked, an update that
\* is not written, snapshot isolation off, a start that looks for the private file
\* only, a refresh of the cache that empties it first.
Exists(r)         == r # "none"
Unwritten(r)      == r
Overwrites(t)     == FALSE
PrivateOnly       == disk.private # "none"
Emptied(c)        == [c EXCEPT !.keys = {}]

Live(r)           == r = "live"
Revoked(r)        == "revoked"
Conflicts(t)      == SnapshotIsolation /\ ~Live(row[t])
FilesExist        == disk.private # "none" /\ disk.public # "none"
KeptOnFailure(c)  == c

-----------------------------------------------------------------------------
(* POST /register: select, then insert and commit; e-mail is unique *)

FindUser(c) == /\ At(c, {"register"}, "idle")
               /\ Goto(c, IF users = {} THEN "insert" ELSE "refused")
               /\ UNCHANGED <<tokenVars, keyVars, mishaps>>

InsertUser(c) == /\ At(c, {"register"}, "insert")
                 /\ IF users = {} THEN users' = {c} /\ Goto(c, "ok")
                    ELSE users' = users /\ Goto(c, "failed")
                 /\ UNCHANGED <<row, black, signed, keyVars, mishaps>>

\* POST /login.
CheckPassword(c) == /\ At(c, {"login"}, "idle")
                    /\ Goto(c, IF users = {} THEN "refused" ELSE "issue")
                    /\ UNCHANGED <<tokenVars, keyVars, mishaps>>

\* _issue_tokens: sign an access token, insert a refresh token.
IssueTokens(c) == /\ At(c, {"login", "refresh"}, "issue")
                  /\ row' = [row EXCEPT ![c] = "live"]
                  /\ signed' = [signed EXCEPT ![c] = Kid]
                  /\ Goto(c, "ok")
                  /\ UNCHANGED <<users, black, keyVars, mishaps>>

-----------------------------------------------------------------------------
(* POST /refresh and POST /logout *)

CheckBlacklist(c) ==
  /\ At(c, {"refresh"}, "idle") /\ Holds(c)
  /\ Arrive(c, IF TokenOf[c] \in black THEN "refused" ELSE "read")
  /\ UNCHANGED <<tokenVars, keyVars, mishaps>>

\* The access token is verified with the key of auth-service itself.
VerifyOwn(c) ==
  /\ At(c, {"logout"}, "idle") /\ Holds(c)
  /\ Arrive(c, IF signed[TokenOf[c]][1] = disk.made THEN "read" ELSE "refused")
  /\ UNCHANGED <<tokenVars, keyVars, mishaps>>

\* The row is read: a snapshot begins.  A refresh is refused if the row is
\* revoked, or expired; a logout has nothing to do if it is revoked.
ReadRow(c) ==
  /\ At(c, {"refresh", "logout"}, "read")
  /\ \/ Live(row[TokenOf[c]]) /\ Goto(c, "blacklist")
     \/ ~Live(row[TokenOf[c]]) /\ Goto(c, IF OpOf[c] = "refresh" THEN "refused" ELSE "ok")
     \/ OpOf[c] = "refresh" /\ Goto(c, "refused")
  /\ UNCHANGED <<tokenVars, keyVars, mishaps>>

AddToBlacklist(c) ==
  /\ At(c, {"refresh", "logout"}, "blacklist")
  /\ black' = black \cup {TokenOf[c]}
  /\ Goto(c, "commit")
  /\ UNCHANGED <<users, row, signed, keyVars, mishaps>>

\* The update and the commit: refused if the row changed since the snapshot.
CommitRevoked(c) ==
  /\ At(c, {"refresh", "logout"}, "commit")
  /\ IF Conflicts(TokenOf[c]) THEN row' = row /\ Goto(c, "failed")
     ELSE /\ row' = [row EXCEPT ![TokenOf[c]] = Revoked(@)]
          /\ Goto(c, IF OpOf[c] = "refresh" THEN "issue" ELSE "ok")
  /\ UNCHANGED <<users, black, signed, keyVars, mishaps>>

\* Redis drops an entry: its time is up, or Redis, which has no volume, restarted.
Forget(t) == /\ t \in black /\ black' = black \ {t}
             /\ UNCHANGED <<call, users, row, signed, keyVars, mishaps>>

Running(c) == call[c].pc \in {"insert", "issue", "read", "blacklist", "commit"}

\* A Redis command or a transaction fails: 500.
CallFails(c) == /\ Running(c) /\ Mishap("call") /\ Goto(c, "failed")
                /\ UNCHANGED <<tokenVars, keyVars>>

-----------------------------------------------------------------------------
(* The key: generated if one of its files is missing, then loaded *)

Booted(from, to) == auth = from /\ auth' = to
                    /\ UNCHANGED <<call, tokenVars, cache, proven, mishaps>>

\* Mutant: a new key at every start.
OpenPrivateAlways == /\ Booted("down", "private")
                     /\ disk' = [disk EXCEPT !.private = "part", !.made = @ + 1]

Load         == FilesExist /\ Booted("down", "up") /\ disk' = disk
OpenPrivate  == ~FilesExist /\ Booted("down", "private")
                /\ disk' = [disk EXCEPT !.private = "part", !.made = @ + 1]
WritePrivate == Booted("private", "between") /\ disk' = [disk EXCEPT !.private = "whole"]
OpenPublic   == Booted("between", "public") /\ disk' = [disk EXCEPT !.public = "part"]
WritePublic  == Booted("public", "up") /\ disk' = [disk EXCEPT !.public = "whole"]

\* auth-service dies, perhaps between two bytes of a file; the volume stays.
Crash == /\ auth # "down" /\ Mishap("crash")
         /\ auth' = "down"
         /\ call' = [c \in Calls |-> IF Running(c) THEN [call[c] EXCEPT !.pc = "failed"] ELSE call[c]]
         /\ UNCHANGED <<tokenVars, disk, cache, proven>>

-----------------------------------------------------------------------------
(* Another service verifies an access token: get_key, perhaps _refresh *)

Served  == cache
Fetched == [keys |-> {Kid}, stale |-> FALSE]

\* late: the service had verified a token before.  Requests are verified one
\* at a time, on the event loop.
Verify(c) ==
  LET kid == signed[TokenOf[c]]
      Answer(k) == /\ cache' = k
                   /\ call' = [call EXCEPT ![c] = [pc |-> IF kid \in k.keys THEN "ok" ELSE "failed",
                                                   late |-> proven]]
                   /\ proven' = (proven \/ kid \in k.keys)
      current == ~cache.stale /\ kid \in cache.keys
  IN /\ OpOf[c] = "use" /\ call[c].pc = "idle" /\ Holds(c)
     /\ \/ current /\ Answer(Served) /\ mishaps' = mishaps
        \/ ~current /\ auth = "up" /\ Answer(Fetched) /\ mishaps' = mishaps
        \/ ~current /\ auth # "up" /\ Answer(KeptOnFailure(cache)) /\ mishaps' = mishaps
        \/ ~current /\ auth = "up" /\ Mishap("network") /\ Answer(KeptOnFailure(cache))
     /\ UNCHANGED <<tokenVars, disk, auth>>

\* 300 s after the last fetch; a restart of the service empties the cache.
GrowStale == /\ cache.keys # {} /\ ~cache.stale
             /\ cache' = [cache EXCEPT !.stale = TRUE]
             /\ UNCHANGED <<call, tokenVars, disk, auth, proven, mishaps>>
Restart   == /\ cache.keys # {} /\ Mishap("crash")
             /\ cache' = [keys |-> {}, stale |-> FALSE] /\ proven' = FALSE
             /\ UNCHANGED <<call, tokenVars, disk, auth>>

Next == \/ \E c \in Calls : \/ FindUser(c) \/ InsertUser(c) \/ CheckPassword(c) \/ IssueTokens(c)
                            \/ CheckBlacklist(c) \/ VerifyOwn(c) \/ ReadRow(c)
                            \/ AddToBlacklist(c) \/ CommitRevoked(c) \/ CallFails(c) \/ Verify(c)
                            \/ Forget(c)
        \/ Load \/ OpenPrivate \/ WritePrivate \/ OpenPublic \/ WritePublic \/ Crash
        \/ GrowStale \/ Restart

Spec == Init /\ [][Next]_vars

-----------------------------------------------------------------------------
(* Properties *)

\* Every variable keeps its shape; auth-service, above all, comes up with a
\* private key it can load, whichever write of whichever file a crash cut off.
FileState == {"none", "part", "whole"}
Kids      == Nat \X FileState
TypeOK ==
  /\ call \in [Calls -> [pc : {"idle", "insert", "issue", "read", "blacklist", "commit",
                               "ok", "refused", "failed"}, late : BOOLEAN]]
  /\ users \subseteq Calls /\ black \subseteq Calls
  /\ row \in [Calls -> {"none", "live", "revoked"}]
  /\ signed \in [Calls -> Kids]
  /\ disk \in [private : FileState, public : FileState, made : Nat]
  /\ auth \in {"down", "private", "between", "public", "up"}
  /\ cache \in [keys : SUBSET Kids, stale : BOOLEAN]
  /\ proven \in BOOLEAN
  /\ mishaps \in 0..MaxMishaps
  /\ auth = "up" => disk.private = "whole" /\ disk.public # "none"

\* A refresh token is exchanged at most once (auth.py:94), even by refreshes that
\* pass all checks together.
Exchanged(c) == OpOf[c] = "refresh" /\ call[c].pc \in {"issue", "ok"}
SingleUse == \A c, d \in Calls :
  Exchanged(c) /\ Exchanged(d) /\ TokenOf[c] = TokenOf[d] => c = d

\* A refresh that begins when a logout or another refresh of its token was
\* answered gets no tokens (API_REFERENCE.md:88-89, 99-100), whatever happened to
\* the blacklist since.
RevokedForGood == \A c \in Calls : Exchanged(c) => ~call[c].late

\* When a logout is answered nobody can exchange the token any more: it is
\* revoked in the table or was exchanged already.
AnsweredIsRevoked == \A c \in Calls :
  OpOf[c] \in {"refresh", "logout"} /\ call[c].pc = "ok" => row[TokenOf[c]] = "revoked"

\* Every access token handed out carries the kid auth-service publishes, before
\* and after restarts (keys.py:1-4).
KeyOutlivesRestarts == \A c \in Calls :
  signed[c] # NoKid => signed[c] = Kid /\ FilesExist

\* A service that has verified a token goes on verifying tokens while
\* auth-service is down (security.py:37-41).
StillVerified == \A c \in Calls :
  OpOf[c] = "use" /\ call[c].late => call[c].pc = "ok"
==============================================================================
