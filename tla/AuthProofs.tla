------------------------------ MODULE AuthProofs ------------------------------
(***************************************************************************)
(* Theorems about Auth, for any number of calls, faults and restarts.      *)
(***************************************************************************)
EXTENDS Auth, TLAPS

Pcs == {"idle", "insert", "issue", "read", "blacklist", "commit", "ok", "refused", "failed"}
CallState == [pc : Pcs, late : BOOLEAN]

\* What the two files are at every moment of a start.
DiskInv == /\ disk.public # "none" => disk.private = "whole"
           /\ auth \in {"between", "public"} => disk.private = "whole"
           /\ auth = "public" => disk.public # "none"

\* While a key is being generated none has signed anything.
UnsignedInv == auth \in {"private", "between", "public"} => \A c \in Calls : signed[c] = NoKid

TypeInv == TypeOK /\ DiskInv

-----------------------------------------------------------------------------
(* Type correctness *)

LEMMA GotoCall ==
  ASSUME TypeOK, NEW c \in Calls, NEW p \in Pcs, Goto(c, p)
  PROVE  /\ call' \in [Calls -> CallState]
         /\ call'[c].pc = p /\ call'[c].late = call[c].late
         /\ \A d \in Calls \ {c} : call'[d] = call[d]
  BY DEF TypeOK, Goto, CallState, Pcs

LEMMA ArriveCall ==
  ASSUME TypeOK, NEW c \in Calls, NEW p \in Pcs, Arrive(c, p)
  PROVE  /\ call' \in [Calls -> CallState]
         /\ call'[c].pc = p
         /\ call'[c].late = (\E d \in Calls : /\ TokenOf[d] = TokenOf[c] /\ call[d].pc = "ok"
                                              /\ OpOf[d] \in {"refresh", "logout"})
         /\ \A d \in Calls \ {c} : call'[d] = call[d]
  BY DEF TypeOK, Arrive, CallState, Pcs

LEMMA KidType == ASSUME TypeOK PROVE Kid \in Kids
  BY DEF TypeOK, Kid, Kids, FileState

LEMMA InitType == Init => TypeInv
  <1> SUFFICES ASSUME Init PROVE TypeInv
    OBVIOUS
  <1>1. call \in [Calls -> CallState]
    BY DEF Init, NewCall, CallState, Pcs
  <1>2. signed \in [Calls -> Kids]
    BY DEF Init, NoKid, Kids, FileState
  <1>3. /\ cache \in [keys : SUBSET Kids, stale : BOOLEAN]
        /\ disk \in [private : FileState, public : FileState, made : Nat]
    BY DEF Init, FileState
  <1>4. mishaps \in 0..MaxMishaps
    BY BoundAssumption DEF Init
  <1>5. row \in [Calls -> {"none", "live", "revoked"}]
    BY DEF Init
  <1>6. TypeOK
    BY <1>1, <1>2, <1>3, <1>4, <1>5 DEF Init, TypeOK, CallState, Pcs
  <1>7. DiskInv
    BY DEF Init, DiskInv
  <1> QED
    BY <1>6, <1>7 DEF TypeInv

\* The steps of a call of auth-service, and those of tokens and their rows.
CallStep(c) == \/ FindUser(c) \/ InsertUser(c) \/ CheckPassword(c) \/ IssueTokens(c)
               \/ CheckBlacklist(c) \/ VerifyOwn(c) \/ ReadRow(c)
               \/ AddToBlacklist(c) \/ CommitRevoked(c) \/ CallFails(c)

LEMMA MishapType == ASSUME TypeOK, NEW f, Mishap(f) PROVE mishaps' \in 0..MaxMishaps
  BY BoundAssumption DEF TypeOK, Mishap

LEMMA CallStepType ==
  ASSUME TypeInv, NEW c \in Calls, CallStep(c)
  PROVE  TypeInv'
  <1>1. CASE FindUser(c)
    <2>1. PICK p \in Pcs : Goto(c, p)
      BY <1>1 DEF FindUser, Pcs
    <2>2. call' \in [Calls -> CallState]
      BY <2>1, GotoCall DEF TypeInv
    <2> QED
      BY <1>1, <2>2 DEF FindUser, TypeInv, TypeOK, DiskInv, tokenVars, keyVars, CallState, Pcs
  <1>2. CASE InsertUser(c)
    <2>1. PICK p \in Pcs : Goto(c, p)
      BY <1>2 DEF InsertUser, Pcs
    <2>2. call' \in [Calls -> CallState]
      BY <2>1, GotoCall DEF TypeInv
    <2>3. users' \subseteq Calls
      BY <1>2 DEF InsertUser, TypeInv, TypeOK
    <2> QED
      BY <1>2, <2>2, <2>3 DEF InsertUser, TypeInv, TypeOK, DiskInv, keyVars, CallState, Pcs
  <1>3. CASE CheckPassword(c)
    <2>1. PICK p \in Pcs : Goto(c, p)
      BY <1>3 DEF CheckPassword, Pcs
    <2>2. call' \in [Calls -> CallState]
      BY <2>1, GotoCall DEF TypeInv
    <2> QED
      BY <1>3, <2>2 DEF CheckPassword, TypeInv, TypeOK, DiskInv, tokenVars, keyVars, CallState, Pcs
  <1>4. CASE IssueTokens(c)
    <2>1. call' \in [Calls -> CallState]
      BY <1>4, GotoCall, "ok" \in Pcs DEF IssueTokens, TypeInv, Pcs
    <2>2. row' \in [Calls -> {"none", "live", "revoked"}]
      BY <1>4 DEF IssueTokens, TypeInv, TypeOK
    <2>3. signed' \in [Calls -> Kids]
      BY <1>4, KidType DEF IssueTokens, TypeInv, TypeOK
    <2> QED
      BY <1>4, <2>1, <2>2, <2>3 DEF IssueTokens, TypeInv, TypeOK, DiskInv, keyVars, CallState, Pcs
  <1>5. CASE CheckBlacklist(c)
    <2>1. PICK p \in Pcs : Arrive(c, p)
      BY <1>5 DEF CheckBlacklist, Pcs
    <2>2. call' \in [Calls -> CallState]
      BY <2>1, ArriveCall DEF TypeInv
    <2> QED
      BY <1>5, <2>2 DEF CheckBlacklist, TypeInv, TypeOK, DiskInv, tokenVars, keyVars, CallState, Pcs
  <1>6. CASE VerifyOwn(c)
    <2>1. PICK p \in Pcs : Arrive(c, p)
      BY <1>6 DEF VerifyOwn, Pcs
    <2>2. call' \in [Calls -> CallState]
      BY <2>1, ArriveCall DEF TypeInv
    <2> QED
      BY <1>6, <2>2 DEF VerifyOwn, TypeInv, TypeOK, DiskInv, tokenVars, keyVars, CallState, Pcs
  <1>7. CASE ReadRow(c)
    <2>1. PICK p \in Pcs : Goto(c, p)
      BY <1>7 DEF ReadRow, Pcs
    <2>2. call' \in [Calls -> CallState]
      BY <2>1, GotoCall DEF TypeInv
    <2> QED
      BY <1>7, <2>2 DEF ReadRow, TypeInv, TypeOK, DiskInv, tokenVars, keyVars, CallState, Pcs
  <1>8. CASE AddToBlacklist(c)
    <2>1. call' \in [Calls -> CallState]
      BY <1>8, GotoCall, "commit" \in Pcs DEF AddToBlacklist, TypeInv, Pcs
    <2>2. black' \subseteq Calls
      BY <1>8, CallsAssumption DEF AddToBlacklist, TypeInv, TypeOK
    <2> QED
      BY <1>8, <2>1, <2>2 DEF AddToBlacklist, TypeInv, TypeOK, DiskInv, keyVars, CallState, Pcs
  <1>9. CASE CommitRevoked(c)
    <2>1. PICK p \in Pcs : Goto(c, p)
      BY <1>9 DEF CommitRevoked, Pcs
    <2>2. call' \in [Calls -> CallState]
      BY <2>1, GotoCall DEF TypeInv
    <2>3. row' \in [Calls -> {"none", "live", "revoked"}]
      BY <1>9 DEF CommitRevoked, Revoked, TypeInv, TypeOK
    <2> QED
      BY <1>9, <2>2, <2>3 DEF CommitRevoked, TypeInv, TypeOK, DiskInv, keyVars, CallState, Pcs
  <1>10. CASE CallFails(c)
    <2>1. call' \in [Calls -> CallState]
      BY <1>10, GotoCall, "failed" \in Pcs DEF CallFails, TypeInv, Pcs
    <2>2. mishaps' \in 0..MaxMishaps
      BY <1>10, MishapType DEF CallFails, TypeInv
    <2> QED
      BY <1>10, <2>1, <2>2 DEF CallFails, TypeInv, TypeOK, DiskInv, tokenVars, keyVars, CallState, Pcs
  <1> QED
    BY <1>1, <1>2, <1>3, <1>4, <1>5, <1>6, <1>7, <1>8, <1>9, <1>10 DEF CallStep

\* The steps that generate or load the key.
BootStep == Load \/ OpenPrivate \/ WritePrivate \/ OpenPublic \/ WritePublic

LEMMA BootStepType ==
  ASSUME TypeInv, BootStep
  PROVE  TypeInv'
  <1>1. disk' \in [private : FileState, public : FileState, made : Nat]
    <2>1. disk \in [private : FileState, public : FileState, made : Nat]
      BY DEF TypeInv, TypeOK
    <2>2. CASE disk' = [disk EXCEPT !.private = "part", !.made = @ + 1]
      <3>1. disk.made + 1 \in Nat /\ "part" \in FileState
        BY <2>1 DEF FileState
      <3> QED
        BY <2>1, <2>2, <3>1
    <2>3. CASE disk' = disk \/ disk' = [disk EXCEPT !.private = "whole"]
      BY <2>1, <2>3 DEF FileState
    <2>4. CASE \E p \in {"part", "whole"} : disk' = [disk EXCEPT !.public = p]
      BY <2>1, <2>4 DEF FileState
    <2> QED
      BY <2>2, <2>3, <2>4 DEF BootStep, Load, OpenPrivate, WritePrivate, OpenPublic, WritePublic
  <1>2. auth' \in {"down", "private", "between", "public", "up"}
    BY DEF BootStep, Load, OpenPrivate, WritePrivate, OpenPublic, WritePublic, Booted
  <1>3. DiskInv' /\ (auth' = "up" => disk'.private = "whole" /\ disk'.public # "none")
    <2>1. disk \in [private : FileState, public : FileState, made : Nat]
      BY DEF TypeInv, TypeOK
    <2>2. CASE Load
      BY <2>1, <2>2 DEF Load, Booted, FilesExist, TypeInv, TypeOK, DiskInv
    <2>3. CASE OpenPrivate
      BY <2>1, <2>3 DEF OpenPrivate, Booted, FilesExist, TypeInv, DiskInv
    <2>4. CASE WritePrivate
      BY <2>1, <2>4 DEF WritePrivate, Booted, TypeInv, DiskInv
    <2>5. CASE OpenPublic
      BY <2>1, <2>5 DEF OpenPublic, Booted, TypeInv, DiskInv
    <2>6. CASE WritePublic
      BY <2>1, <2>6 DEF WritePublic, Booted, TypeInv, DiskInv
    <2> QED
      BY <2>2, <2>3, <2>4, <2>5, <2>6 DEF BootStep
  <1>4. UNCHANGED <<call, tokenVars, cache, proven, mishaps>>
    BY DEF BootStep, Load, OpenPrivate, WritePrivate, OpenPublic, WritePublic, Booted
  <1> QED
    BY <1>1, <1>2, <1>3, <1>4 DEF TypeInv, TypeOK, tokenVars

LEMMA VerifyType ==
  ASSUME TypeInv, NEW c \in Calls, Verify(c)
  PROVE  TypeInv'
  <1> DEFINE kid == signed[TokenOf[c]]
  <1>1. PICK k \in {cache, Fetched} :
          /\ cache' = k
          /\ call' = [call EXCEPT ![c] = [pc |-> IF kid \in k.keys THEN "ok" ELSE "failed",
                                          late |-> proven]]
          /\ proven' = (proven \/ kid \in k.keys)
    BY DEF Verify, Served, KeptOnFailure
  <1>2. UNCHANGED <<tokenVars, disk, auth>>
    BY DEF Verify
  <1>3. mishaps' \in 0..MaxMishaps
    BY MishapType DEF Verify, TypeInv, TypeOK
  <1>4. Fetched \in [keys : SUBSET Kids, stale : BOOLEAN]
    BY KidType DEF Fetched, TypeInv
  <1>5. cache' \in [keys : SUBSET Kids, stale : BOOLEAN]
    BY <1>1, <1>4 DEF TypeInv, TypeOK
  <1>6. [pc |-> IF kid \in cache'.keys THEN "ok" ELSE "failed", late |-> proven] \in CallState
    BY DEF TypeInv, TypeOK, CallState, Pcs
  <1>7. call' \in [Calls -> CallState]
    BY <1>1, <1>6 DEF TypeInv, TypeOK, CallState, Pcs
  <1>8. proven' \in BOOLEAN
    BY <1>1
  <1> QED
    BY <1>2, <1>3, <1>5, <1>7, <1>8 DEF TypeInv, TypeOK, DiskInv, tokenVars, CallState, Pcs

LEMMA CrashCalls ==
  ASSUME TypeOK, Crash
  PROVE  /\ call' \in [Calls -> CallState]
         /\ \A c \in Calls : call'[c] = IF Running(c) THEN [call[c] EXCEPT !.pc = "failed"] ELSE call[c]
  <1>1. \A c \in Calls : call[c] \in CallState /\ [call[c] EXCEPT !.pc = "failed"] \in CallState
    BY DEF TypeOK, CallState, Pcs
  <1> QED
    BY <1>1 DEF Crash

LEMMA TypeStep == ASSUME TypeInv, [Next]_vars PROVE TypeInv'
  <1>1. CASE \E c \in Calls : CallStep(c)
    BY <1>1, CallStepType
  <1>2. CASE \E c \in Calls : Verify(c)
    BY <1>2, VerifyType
  <1>3. CASE \E c \in Calls : Forget(c)
    BY <1>3 DEF Forget, TypeInv, TypeOK, DiskInv, keyVars
  <1>4. CASE BootStep
    BY <1>4, BootStepType
  <1>5. CASE Crash
    <2>1. mishaps' \in 0..MaxMishaps
      BY <1>5, MishapType DEF Crash, TypeInv
    <2>2. call' \in [Calls -> CallState]
      BY <1>5, CrashCalls DEF TypeInv
    <2> QED
      BY <1>5, <2>1, <2>2 DEF Crash, TypeInv, TypeOK, DiskInv, tokenVars, CallState, Pcs
  <1>6. CASE GrowStale
    BY <1>6 DEF GrowStale, TypeInv, TypeOK, DiskInv, tokenVars
  <1>7. CASE Restart
    <2>1. mishaps' \in 0..MaxMishaps
      BY <1>7, MishapType DEF Restart, TypeInv
    <2>2. cache' \in [keys : SUBSET Kids, stale : BOOLEAN]
      BY <1>7 DEF Restart
    <2> QED
      BY <1>7, <2>1, <2>2 DEF Restart, TypeInv, TypeOK, DiskInv, tokenVars
  <1>8. CASE UNCHANGED vars
    BY <1>8 DEF TypeInv, TypeOK, DiskInv, vars, tokenVars, keyVars
  <1> QED
    BY <1>1, <1>2, <1>3, <1>4, <1>5, <1>6, <1>7, <1>8 DEF Next, CallStep, BootStep

\* Every variable keeps its shape under every fault, and auth-service never comes
\* up with half a private key.
THEOREM TypeCorrect == Spec => []TypeOK
  <1>1. Spec => []TypeInv
    BY InitType, TypeStep, PTL DEF Spec
  <1>2. TypeInv => TypeOK
    BY DEF TypeInv
  <1> QED
    BY <1>1, <1>2, PTL

-----------------------------------------------------------------------------
(* The key *)

KeyInv == KeyOutlivesRestarts /\ UnsignedInv

LEMMA KeyStep == ASSUME TypeInv, KeyInv, [Next]_vars PROVE KeyInv'
  <1>1. CASE UNCHANGED <<signed, disk>> /\ (auth' = auth \/ auth' \in {"up", "down"})
    BY <1>1 DEF KeyInv, KeyOutlivesRestarts, UnsignedInv, Kid, FilesExist
  <1>2. CASE \E c \in Calls : IssueTokens(c)
    <2> PICK c \in Calls : IssueTokens(c)
      BY <1>2
    <2>1. auth = "up" /\ auth' = auth /\ disk' = disk /\ signed' = [signed EXCEPT ![c] = Kid]
      BY DEF IssueTokens, At, keyVars
    <2>2. FilesExist
      BY <2>1 DEF TypeInv, TypeOK, FilesExist
    <2>3. \A d \in Calls : signed'[d] \in {signed[d], Kid}
      BY <2>1 DEF TypeInv, TypeOK
    <2> QED
      BY <2>1, <2>2, <2>3 DEF KeyInv, KeyOutlivesRestarts, UnsignedInv, Kid, FilesExist
  <1>3. CASE OpenPrivate
    <2>1. \A c \in Calls : signed[c] = NoKid
      BY <1>3 DEF OpenPrivate, KeyInv, KeyOutlivesRestarts
    <2>2. signed' = signed
      BY <1>3 DEF OpenPrivate, Booted, tokenVars
    <2> QED
      BY <2>1, <2>2 DEF KeyInv, KeyOutlivesRestarts, UnsignedInv
  <1>4. CASE WritePrivate \/ OpenPublic \/ WritePublic
    <2>1. auth \in {"private", "between", "public"} /\ signed' = signed
      BY <1>4 DEF WritePrivate, OpenPublic, WritePublic, Booted, tokenVars
    <2>2. \A c \in Calls : signed[c] = NoKid
      BY <2>1 DEF KeyInv, UnsignedInv
    <2> QED
      BY <2>1, <2>2 DEF KeyInv, KeyOutlivesRestarts, UnsignedInv
  <1>5. CASE \E c \in Calls : \/ FindUser(c) \/ InsertUser(c) \/ CheckPassword(c) \/ CheckBlacklist(c)
                             \/ VerifyOwn(c) \/ ReadRow(c) \/ AddToBlacklist(c) \/ CommitRevoked(c)
                             \/ CallFails(c) \/ Forget(c)
    <2>1. UNCHANGED <<signed, disk, auth>>
      BY <1>5 DEF FindUser, InsertUser, CheckPassword, CheckBlacklist, VerifyOwn, ReadRow,
                  AddToBlacklist, CommitRevoked, CallFails, Forget, tokenVars, keyVars
    <2> QED
      BY <1>1, <2>1
  <1>6. CASE (\E c \in Calls : Verify(c)) \/ Load \/ Crash \/ GrowStale \/ Restart \/ UNCHANGED vars
    <2>1. UNCHANGED <<signed, disk>> /\ (auth' = auth \/ auth' \in {"up", "down"})
      BY <1>6 DEF Verify, Load, Booted, Crash, GrowStale, Restart, vars, tokenVars, keyVars
    <2> QED
      BY <1>1, <2>1
  <1> QED
    BY <1>2, <1>3, <1>4, <1>5, <1>6 DEF Next

\* The key that signed an access token is the one auth-service publishes, for
\* ever: no crash, in particular none between the two files, makes it generate
\* another once a token was signed.
THEOREM KeysOutlive == Spec => []KeyOutlivesRestarts
  <1>1. Init => KeyInv
    BY DEF Init, KeyInv, KeyOutlivesRestarts, UnsignedInv
  <1>2. Spec => [](TypeInv /\ KeyInv)
    BY InitType, TypeStep, <1>1, KeyStep, PTL DEF Spec
  <1>3. KeyInv => KeyOutlivesRestarts
    BY DEF KeyInv
  <1> QED
    BY <1>2, <1>3, PTL

-----------------------------------------------------------------------------
(* Refresh tokens *)

Revoking == {"refresh", "logout"}

\* A row is in the table from the answer that hands out its token, and calls
\* work on rows that are; whoever is through with a token has revoked it; and
\* a call that came too late finds it revoked.
Unissued  == \A c \in Calls : call[c].pc # "ok" => row[c] = "none"
Handed    == \A c \in Calls : Issued(c) => row[c] # "none"
Presented == \A c \in Calls : OpOf[c] \in Revoking /\ call[c].pc \in {"read", "blacklist", "commit"}
                               => row[TokenOf[c]] # "none"
Through   == \A c \in Calls : \/ OpOf[c] \in Revoking /\ call[c].pc = "ok"
                              \/ OpOf[c] = "refresh" /\ call[c].pc = "issue"
                              => row[TokenOf[c]] = "revoked"
TooLate   == \A c \in Calls : OpOf[c] \in Revoking /\ call[c].late => row[TokenOf[c]] = "revoked"
InTime    == \A c \in Calls : OpOf[c] = "refresh" /\ call[c].pc \in {"blacklist", "commit", "issue", "ok"}
                               => ~call[c].late
TokenInv  == Unissued /\ Handed /\ Presented /\ Through /\ TooLate /\ InTime

LEMMA TokenStep == ASSUME TypeInv, TokenInv, [Next]_vars PROVE TokenInv'
  <1> USE CallsAssumption
  <1>1. CASE UNCHANGED <<call, row>>
    BY <1>1 DEF TokenInv, Unissued, Handed, Presented, Through, TooLate, InTime, Issued
  <1>2. ASSUME NEW c \in Calls, NEW p \in {"insert", "refused", "failed"}, Goto(c, p), row' = row,
               call[c].pc # "ok"
        PROVE  TokenInv'
    <2>1. /\ call'[c].pc = p /\ call'[c].late = call[c].late
          /\ \A d \in Calls \ {c} : call'[d] = call[d]
      BY <1>2, GotoCall DEF TypeInv, Pcs
    <2> QED
      BY <1>2, <2>1 DEF TokenInv, Unissued, Handed, Presented, Through, TooLate, InTime, Issued
  <1>3. ASSUME NEW c \in Calls, FindUser(c) \/ InsertUser(c) \/ CheckPassword(c) PROVE TokenInv'
    <2>1. row' = row /\ OpOf[c] \in {"register", "login"} /\ call[c].pc # "ok"
      BY <1>3 DEF FindUser, InsertUser, CheckPassword, At, tokenVars
    <2>2. CASE Goto(c, "insert") \/ Goto(c, "refused") \/ Goto(c, "failed")
      BY <1>2, <2>1, <2>2
    <2>3. CASE (Goto(c, "ok") /\ InsertUser(c)) \/ (Goto(c, "issue") /\ CheckPassword(c))
      <3>1. \/ OpOf[c] = "register" /\ call'[c].pc = "ok"
            \/ OpOf[c] = "login" /\ call'[c].pc = "issue"
        BY <2>3, GotoCall DEF TypeInv, Pcs, InsertUser, CheckPassword, At
      <3>2. call'[c].late = call[c].late /\ \A d \in Calls \ {c} : call'[d] = call[d]
        BY <2>3, GotoCall DEF TypeInv, Pcs
      <3> QED
        BY <2>1, <3>1, <3>2 DEF TokenInv, Unissued, Handed, Presented, Through, TooLate, InTime, Issued,
                                Revoking
    <2>4. CASE FindUser(c)
      BY <2>2, <2>4 DEF FindUser
    <2>5. CASE InsertUser(c)
      <3>1. Goto(c, "ok") \/ Goto(c, "failed")
        BY <2>5 DEF InsertUser
      <3>2. CASE Goto(c, "ok")
        BY <2>3, <2>5, <3>2
      <3>3. CASE Goto(c, "failed")
        BY <2>2, <3>3
      <3> QED
        BY <3>1, <3>2, <3>3
    <2>6. CASE CheckPassword(c)
      BY <2>2, <2>3, <2>6 DEF CheckPassword
    <2> QED
      BY <1>3, <2>4, <2>5, <2>6
  <1>4. ASSUME NEW c \in Calls, IssueTokens(c) PROVE TokenInv'
    <2>1. /\ call[c].pc = "issue" /\ OpOf[c] \in {"login", "refresh"}
          /\ row' = [row EXCEPT ![c] = "live"]
      BY <1>4 DEF IssueTokens, At
    <2>2. /\ call'[c].pc = "ok" /\ call'[c].late = call[c].late
          /\ \A d \in Calls \ {c} : call'[d] = call[d]
      BY <1>4, GotoCall DEF IssueTokens, TypeInv, Pcs
    <2>3. row[c] = "none"
      BY <2>1 DEF TokenInv, Unissued
    <2>4. row'[c] = "live" /\ \A t \in Calls \ {c} : row'[t] = row[t]
      BY <2>1 DEF TypeInv, TypeOK
    <2> QED
      BY <2>1, <2>2, <2>3, <2>4 DEF TokenInv, Unissued, Handed, Presented, Through, TooLate, InTime,
                                    Issued, Revoking
  <1>5. ASSUME NEW c \in Calls, CheckBlacklist(c) \/ VerifyOwn(c) PROVE TokenInv'
    <2>1. /\ call[c].pc = "idle" /\ OpOf[c] \in Revoking /\ row' = row /\ Issued(TokenOf[c])
      BY <1>5 DEF CheckBlacklist, VerifyOwn, At, Holds, tokenVars, Revoking
    <2>2. PICK p \in {"read", "refused"} : Arrive(c, p)
      BY <1>5 DEF CheckBlacklist, VerifyOwn
    <2>3. /\ call'[c].pc = p
          /\ call'[c].late = (\E d \in Calls : /\ TokenOf[d] = TokenOf[c] /\ call[d].pc = "ok"
                                               /\ OpOf[d] \in Revoking)
          /\ \A d \in Calls \ {c} : call'[d] = call[d]
      BY <2>2, ArriveCall DEF TypeInv, Pcs, Revoking
    <2>4. call'[c].late => row[TokenOf[c]] = "revoked"
      BY <2>3 DEF TokenInv, Through
    <2>5. TokenOf[c] \in Calls /\ row[TokenOf[c]] # "none"
      BY <2>1 DEF TokenInv, Handed
    <2>6. row'[c] = row[c] /\ row[c] = "none"
      BY <2>1 DEF TokenInv, Unissued
    <2>7. Unissued' /\ Handed'
      BY <2>1, <2>3, <2>6 DEF TokenInv, Unissued, Handed, Issued
    <2>8. Presented'
      BY <2>1, <2>3, <2>5 DEF TokenInv, Presented
    <2>9. Through' /\ InTime'
      BY <2>1, <2>3 DEF TokenInv, Through, InTime
    <2>10. TooLate'
      BY <2>1, <2>3, <2>4 DEF TokenInv, TooLate
    <2> QED
      BY <2>7, <2>8, <2>9, <2>10 DEF TokenInv
  <1>6. ASSUME NEW c \in Calls, ReadRow(c) PROVE TokenInv'
    <2>1. call[c].pc = "read" /\ OpOf[c] \in Revoking /\ row' = row
      BY <1>6 DEF ReadRow, At, tokenVars, Revoking
    <2>2. CASE Goto(c, "refused")
      BY <1>2, <2>1, <2>2
    <2>3. CASE Live(row[TokenOf[c]]) /\ Goto(c, "blacklist")
      <3>1. /\ call'[c].pc = "blacklist" /\ call'[c].late = call[c].late
            /\ \A d \in Calls \ {c} : call'[d] = call[d]
        BY <2>3, GotoCall DEF TypeInv, Pcs
      <3> QED
        BY <2>1, <2>3, <3>1 DEF Live, TokenInv, Unissued, Handed, Presented, Through, TooLate, InTime,
                                Issued, Revoking
    <2>4. CASE ~Live(row[TokenOf[c]]) /\ OpOf[c] # "refresh" /\ Goto(c, "ok")
      <3>1. /\ call'[c].pc = "ok" /\ call'[c].late = call[c].late
            /\ \A d \in Calls \ {c} : call'[d] = call[d]
        BY <2>4, GotoCall DEF TypeInv, Pcs
      <3>2. row[TokenOf[c]] = "revoked"
        BY <2>1, <2>4 DEF Live, TypeInv, TypeOK, TokenInv, Presented
      <3> QED
        BY <2>1, <2>4, <3>1, <3>2 DEF TokenInv, Unissued, Handed, Presented, Through, TooLate, InTime,
                                Issued, Revoking
    <2> QED
      BY <1>6, <2>2, <2>3, <2>4 DEF ReadRow
  <1>7. ASSUME NEW c \in Calls, AddToBlacklist(c) PROVE TokenInv'
    <2>1. call[c].pc = "blacklist" /\ OpOf[c] \in Revoking /\ row' = row
      BY <1>7 DEF AddToBlacklist, At, Revoking
    <2>2. /\ call'[c].pc = "commit" /\ call'[c].late = call[c].late
          /\ \A d \in Calls \ {c} : call'[d] = call[d]
      BY <1>7, GotoCall DEF AddToBlacklist, TypeInv, Pcs
    <2> QED
      BY <2>1, <2>2 DEF TokenInv, Unissued, Handed, Presented, Through, TooLate, InTime, Issued, Revoking
  <1>8. ASSUME NEW c \in Calls, CommitRevoked(c) PROVE TokenInv'
    <2>1. call[c].pc = "commit" /\ OpOf[c] \in Revoking
      BY <1>8 DEF CommitRevoked, At, Revoking
    <2>2. CASE Goto(c, "failed") /\ row' = row
      BY <1>2, <2>1, <2>2
    <2>3. CASE /\ row' = [row EXCEPT ![TokenOf[c]] = "revoked"]
               /\ Goto(c, IF OpOf[c] = "refresh" THEN "issue" ELSE "ok")
      <3>1. /\ call'[c].pc = (IF OpOf[c] = "refresh" THEN "issue" ELSE "ok")
            /\ call'[c].late = call[c].late
            /\ \A d \in Calls \ {c} : call'[d] = call[d]
        BY <2>3, GotoCall DEF TypeInv, Pcs
      <3>2. row'[TokenOf[c]] = "revoked" /\ \A t \in Calls \ {TokenOf[c]} : row'[t] = row[t]
        BY <2>3 DEF TypeInv, TypeOK
      <3>3. row[TokenOf[c]] # "none"
        BY <2>1 DEF TokenInv, Presented
      <3>4. \A d \in Calls : TokenOf[d] \in Calls
        OBVIOUS
      <3> QED
        BY <2>1, <3>1, <3>2, <3>3, <3>4 DEF TokenInv, Unissued, Handed, Presented, Through, TooLate, InTime,
                                  Issued, Revoking
    <2> QED
      BY <1>8, <2>2, <2>3 DEF CommitRevoked, Revoked
  <1>9. ASSUME NEW c \in Calls, CallFails(c) PROVE TokenInv'
    BY <1>2, <1>9 DEF CallFails, Running, tokenVars
  <1>10. ASSUME NEW c \in Calls, Verify(c) PROVE TokenInv'
    <2>1. /\ OpOf[c] = "use" /\ row' = row /\ call[c].pc = "idle"
          /\ call'[c].pc \in {"ok", "failed"} /\ \A d \in Calls \ {c} : call'[d] = call[d]
      BY <1>10 DEF Verify, tokenVars, TypeInv, TypeOK
    <2> QED
      BY <2>1 DEF TokenInv, Unissued, Handed, Presented, Through, TooLate, InTime, Issued, Revoking
  <1>11. CASE Crash
    <2>1. row' = row
      BY <1>11 DEF Crash, tokenVars
    <2>2. \A d \in Calls : /\ call'[d].late = call[d].late
                          /\ call'[d].pc = IF Running(d) THEN "failed" ELSE call[d].pc
      <3>1. \A d \in Calls : call[d] \in CallState
        BY DEF TypeInv, TypeOK, CallState, Pcs
      <3> QED
        BY <1>11, <3>1, CrashCalls DEF TypeInv, CallState
    <2> QED
      BY <2>1, <2>2 DEF Running, TokenInv, Unissued, Handed, Presented, Through, TooLate, InTime, Issued
  <1>12. CASE (\E c \in Calls : Forget(c)) \/ BootStep \/ GrowStale \/ Restart \/ UNCHANGED vars
    <2>1. UNCHANGED <<call, row>>
      BY <1>12 DEF Forget, BootStep, Load, OpenPrivate, WritePrivate, OpenPublic, WritePublic, Booted,
                   GrowStale, Restart, vars, tokenVars
    <2> QED
      BY <1>1, <2>1
  <1> QED
    BY <1>3, <1>4, <1>5, <1>6, <1>7, <1>8, <1>9, <1>10, <1>11, <1>12 DEF Next, BootStep

THEOREM TokenInvariant == Spec => [](TypeInv /\ TokenInv)
  <1>1. Init => TokenInv
    BY CallsAssumption DEF Init, NewCall, TokenInv, Unissued, Handed, Presented, Through, TooLate, InTime,
                           Issued
  <1> QED
    BY InitType, TypeStep, <1>1, TokenStep, PTL DEF Spec

\* A refresh or a logout answers only when its token is revoked in the table.
THEOREM AnsweredRevoked == Spec => []AnsweredIsRevoked
  <1>1. TypeInv /\ TokenInv => AnsweredIsRevoked
    BY DEF TokenInv, Through, AnsweredIsRevoked, Revoking
  <1> QED
    BY <1>1, TokenInvariant, PTL

\* What was revoked when a refresh began is not exchanged, blacklist or not.
THEOREM RevokedStays == Spec => []RevokedForGood
  <1>1. TypeInv /\ TokenInv => RevokedForGood
    BY DEF TokenInv, InTime, RevokedForGood, Exchanged
  <1> QED
    BY <1>1, TokenInvariant, PTL

LEMMA SingleStep ==
  ASSUME SnapshotIsolation, TypeInv, TokenInv, SingleUse, [Next]_vars
  PROVE  SingleUse'
  <1> USE CallsAssumption
  <1>1. ASSUME NEW c \in Calls, CommitRevoked(c) PROVE SingleUse'
    <2>1. CASE Goto(c, "failed")
      BY <2>1, GotoCall DEF TypeInv, Pcs, SingleUse, Exchanged
    <2>2. CASE ~Conflicts(TokenOf[c]) /\ Goto(c, IF OpOf[c] = "refresh" THEN "issue" ELSE "ok")
      <3>1. row[TokenOf[c]] = "live"
        BY <2>2 DEF Conflicts, Live
      <3>2. \A d \in Calls : Exchanged(d) => TokenOf[d] # TokenOf[c]
        BY <3>1 DEF Exchanged, TokenInv, Through, Revoking
      <3>3. \A d \in Calls \ {c} : call'[d] = call[d]
        BY <2>2, GotoCall DEF TypeInv, Pcs
      <3> QED
        BY <3>2, <3>3 DEF SingleUse, Exchanged
    <2> QED
      BY <1>1, <2>1, <2>2 DEF CommitRevoked
  <1>2. CASE \A d \in Calls : Exchanged(d)' => Exchanged(d)
    BY <1>2 DEF SingleUse
  <1>3. ASSUME NEW c \in Calls, CallStep(c), ~CommitRevoked(c) PROVE SingleUse'
    <2>1. \A d \in Calls \ {c} : call'[d] = call[d]
      BY <1>3, GotoCall, ArriveCall DEF CallStep, FindUser, InsertUser, CheckPassword, IssueTokens,
           CheckBlacklist, VerifyOwn, ReadRow, AddToBlacklist, CallFails, TypeInv, Pcs
    <2>2. Exchanged(c)' => Exchanged(c)
      BY <1>3, GotoCall, ArriveCall DEF CallStep, FindUser, InsertUser, CheckPassword, IssueTokens, At,
           CheckBlacklist, VerifyOwn, ReadRow, AddToBlacklist, CallFails, TypeInv, Pcs, Exchanged
    <2> QED
      BY <1>2, <2>1, <2>2 DEF Exchanged
  <1>4. CASE \E c \in Calls : Verify(c)
    BY <1>2, <1>4 DEF Verify, Exchanged, TypeInv, TypeOK
  <1>5. CASE Crash
    <2>1. \A d \in Calls : call[d] \in CallState
      BY DEF TypeInv, TypeOK, CallState, Pcs
    <2> QED
      BY <1>2, <1>5, <2>1, CrashCalls DEF TypeInv, CallState, Exchanged, Running
  <1>6. CASE (\E c \in Calls : Forget(c)) \/ BootStep \/ GrowStale \/ Restart \/ UNCHANGED vars
    <2>1. UNCHANGED call
      BY <1>6 DEF Forget, BootStep, Load, OpenPrivate, WritePrivate, OpenPublic, WritePublic, Booted,
                   GrowStale, Restart, vars
    <2> QED
      BY <1>2, <2>1 DEF Exchanged
  <1> QED
    BY <1>1, <1>3, <1>4, <1>5, <1>6 DEF Next, CallStep, BootStep

\* With MariaDB's snapshot isolation a refresh token is exchanged at most once,
\* however many refreshes pass the checks together.
THEOREM TokensSingleUse == SnapshotIsolation /\ Spec => []SingleUse
  <1> SUFFICES ASSUME SnapshotIsolation PROVE Spec => []SingleUse
    OBVIOUS
  <1>1. Init => SingleUse
    BY DEF Init, NewCall, SingleUse, Exchanged
  <1>2. TypeInv /\ TokenInv /\ SingleUse /\ [Next]_vars => SingleUse'
    BY SingleStep
  <1> QED
    BY <1>1, <1>2, TokenInvariant, PTL DEF Spec

-----------------------------------------------------------------------------
(* The key cache of another service *)

\* What is cached is the key every token was signed with, and no start
\* generates another.
SignedInv == \A c \in Calls : Issued(c) => signed[c] # NoKid
CacheInv  == /\ cache.keys # {} => cache.keys = {Kid} /\ FilesExist /\ auth \in {"up", "down"}
             /\ proven => cache.keys # {}
VerifyInv == SignedInv /\ CacheInv /\ StillVerified

LEMMA VerifyStep == ASSUME TypeInv, KeyInv, VerifyInv, [Next]_vars PROVE VerifyInv'
  <1> USE CallsAssumption
  <1>1. ASSUME NEW c \in Calls, CallStep(c) PROVE VerifyInv'
    <2>1. /\ UNCHANGED <<disk, auth, cache, proven>> /\ call[c].pc # "ok"
          /\ OpOf[c] = "use" => call'[c].pc = "failed" /\ call'[c].late = call[c].late
                                /\ Running(c)
      BY <1>1, GotoCall DEF CallStep, FindUser, InsertUser, CheckPassword, IssueTokens, At,
           CheckBlacklist, VerifyOwn, ReadRow, AddToBlacklist, CommitRevoked, CallFails, Running,
           keyVars, TypeInv, Pcs
    <2>2. \A d \in Calls \ {c} : call'[d] = call[d]
      BY <1>1, GotoCall, ArriveCall DEF CallStep, FindUser, InsertUser, CheckPassword, IssueTokens,
           CheckBlacklist, VerifyOwn, ReadRow, AddToBlacklist, CommitRevoked, CallFails, TypeInv, Pcs
    <2>3. CacheInv'
      BY <2>1 DEF VerifyInv, CacheInv, Kid, FilesExist
    <2>4. StillVerified'
      BY <2>1, <2>2 DEF VerifyInv, StillVerified
    <2>5. CASE IssueTokens(c)
      <3>1. Kid # NoKid /\ signed' = [signed EXCEPT ![c] = Kid]
        BY <2>5 DEF IssueTokens, At, Kid, NoKid, TypeInv, TypeOK
      <3> QED
        BY <2>2, <2>3, <2>4, <3>1 DEF VerifyInv, SignedInv, Issued, TypeInv, TypeOK
    <2>6. CASE ~IssueTokens(c)
      <3>1. signed' = signed
        BY <1>1, <2>6 DEF CallStep, FindUser, InsertUser, CheckPassword,
           CheckBlacklist, VerifyOwn, ReadRow, AddToBlacklist, CommitRevoked, CallFails, tokenVars
      <3>2. OpOf[c] \in {"login", "refresh"} => call'[c].pc # "ok"
        BY <1>1, <2>6, GotoCall, ArriveCall DEF CallStep, FindUser, InsertUser, CheckPassword, At,
           CheckBlacklist, VerifyOwn, ReadRow, AddToBlacklist, CommitRevoked, CallFails, TypeInv, Pcs
      <3> QED
        BY <2>2, <2>3, <2>4, <3>1, <3>2 DEF VerifyInv, SignedInv, Issued
    <2> QED
      BY <2>5, <2>6
  <1>2. ASSUME NEW c \in Calls, Verify(c) PROVE VerifyInv'
    <2> DEFINE kid == signed[TokenOf[c]]
    <2>1. PICK k \in {cache, Fetched} :
            /\ cache' = k
            /\ call' = [call EXCEPT ![c] = [pc |-> IF kid \in k.keys THEN "ok" ELSE "failed",
                                            late |-> proven]]
            /\ proven' = (proven \/ kid \in k.keys)
            /\ k = Fetched => auth = "up" \/ k = cache
      BY <1>2 DEF Verify, Served, KeptOnFailure
    <2>2. UNCHANGED <<tokenVars, disk, auth>> /\ OpOf[c] = "use" /\ Issued(TokenOf[c])
      BY <1>2 DEF Verify, Holds
    <2>3. kid = Kid
      BY <2>2 DEF VerifyInv, SignedInv, KeyInv, KeyOutlivesRestarts
    <2>4. CASE k = cache
      <3>1. proven => kid \in cache.keys
        BY <2>3 DEF VerifyInv, CacheInv
      <3> QED
        BY <2>1, <2>2, <2>3, <2>4, <3>1 DEF VerifyInv, SignedInv, CacheInv, StillVerified, Issued, Kid,
             FilesExist, tokenVars, TypeInv, TypeOK
    <2>5. CASE k = Fetched /\ auth = "up"
      <3>1. FilesExist /\ Fetched.keys = {Kid}
        BY <2>5 DEF TypeInv, TypeOK, FilesExist, Fetched
      <3> QED
        BY <2>1, <2>2, <2>3, <2>5, <3>1 DEF VerifyInv, SignedInv, CacheInv, StillVerified, Issued, Kid,
             FilesExist, tokenVars, TypeInv, TypeOK
    <2> QED
      BY <2>1, <2>4, <2>5
  <1>3. CASE Crash
    <2>1. \A d \in Calls : call[d] \in CallState
      BY DEF TypeInv, TypeOK, CallState, Pcs
    <2>2. \A d \in Calls : /\ call'[d].late = call[d].late
                          /\ call'[d].pc = IF Running(d) THEN "failed" ELSE call[d].pc
      BY <1>3, <2>1, CrashCalls DEF TypeInv, CallState
    <2>3. UNCHANGED <<tokenVars, disk, cache, proven>> /\ auth' = "down"
      BY <1>3 DEF Crash
    <2> QED
      BY <2>2, <2>3 DEF VerifyInv, SignedInv, CacheInv, StillVerified, Issued, Running, Kid, FilesExist,
           tokenVars
  <1>4. CASE BootStep
    <2>1. UNCHANGED <<call, signed, cache, proven>>
      BY <1>4 DEF BootStep, Load, OpenPrivate, WritePrivate, OpenPublic, WritePublic, Booted, tokenVars
    <2>2. CASE Load
      BY <2>1, <2>2 DEF Load, Booted, VerifyInv, SignedInv, CacheInv, StillVerified, Issued, Kid, FilesExist
    <2>3. CASE ~Load
      <3>1. cache.keys = {}
        BY <1>4, <2>3 DEF BootStep, OpenPrivate, WritePrivate, OpenPublic, WritePublic, Booted,
                          VerifyInv, CacheInv
      <3> QED
        BY <2>1, <3>1 DEF VerifyInv, SignedInv, CacheInv, StillVerified, Issued
    <2> QED
      BY <2>2, <2>3
  <1>5. CASE (\E c \in Calls : Forget(c)) \/ UNCHANGED vars
    <2>1. UNCHANGED <<call, signed, keyVars>>
      BY <1>5 DEF Forget, vars, tokenVars
    <2> QED
      BY <2>1 DEF VerifyInv, SignedInv, CacheInv, StillVerified, Issued, Kid, FilesExist, keyVars
  <1>6. CASE GrowStale \/ Restart
    <2>1. UNCHANGED <<call, signed, disk, auth>>
      BY <1>6 DEF GrowStale, Restart, tokenVars
    <2>2. \/ cache'.keys = cache.keys /\ proven' = proven
          \/ cache'.keys = {} /\ ~proven'
      <3>1. CASE GrowStale
        BY <3>1 DEF GrowStale, TypeInv, TypeOK
      <3>2. CASE Restart
        BY <3>2 DEF Restart
      <3> QED
        BY <1>6, <3>1, <3>2
    <2> QED
      BY <2>1, <2>2 DEF VerifyInv, SignedInv, CacheInv, StillVerified, Issued, Kid, FilesExist
  <1> QED
    BY <1>1, <1>2, <1>3, <1>4, <1>5, <1>6 DEF Next, CallStep, BootStep

\* A service that has verified a token verifies every later one, whether
\* auth-service is up, down or starting and whatever its requests meet.
THEOREM VerifiedStillVerified == Spec => []StillVerified
  <1>1. Init => KeyInv /\ VerifyInv
    BY CallsAssumption DEF Init, NewCall, KeyInv, KeyOutlivesRestarts, UnsignedInv, VerifyInv, SignedInv,
         CacheInv, StillVerified, Issued
  <1>2. Spec => [](TypeInv /\ KeyInv /\ VerifyInv)
    BY InitType, TypeStep, <1>1, KeyStep, VerifyStep, PTL DEF Spec
  <1>3. VerifyInv => StillVerified
    BY DEF VerifyInv
  <1> QED
    BY <1>2, <1>3, PTL
==============================================================================
