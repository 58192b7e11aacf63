------------------------ MODULE TokenRotationProofs ------------------------
(***************************************************************************)
(* Theorems about TokenRotation, for any number of PUT handlers, tokens    *)
(* and restarts and any set of faults: the mask always describes the       *)
(* secret, and the tokens of the secret always come from one login.  Two   *)
(* more say under which conditions a working token and the login of the    *)
(* administrator survive the refreshes: each condition is needed.          *)
(***************************************************************************)
EXTENDS TokenRotation, TLAPS

-----------------------------------------------------------------------------
(* Types                                                                   *)

\* The tokens are the numbers from None to MaxTokens; issued can be counted up.
LEMMA TokenNumbers ==
    /\ MaxTokens \in Nat /\ None \in Token /\ 1 \in Token
    /\ \A t \in Token : t \in Nat
    /\ \A t \in Token : t < MaxTokens => t + 1 \in Token
  BY RotationAssumption DEF Token, None

\* The null records are records of their types.
LEMMA NullRecords ==
    /\ NoCreds \in Credentials /\ NoMask \in Mask
    /\ NoTask \in TaskRecord /\ NoPut \in PutRecord
  BY TokenNumbers
     DEF NoCreds, Credentials, NoMask, Mask, NoTask, TaskRecord, Outcome,
         NoPut, PutRecord, Key

\* The mask of a secret is a mask.
LEMMA MaskType ==
    ASSUME NEW s \in Credentials
    PROVE  MaskBalanceCredentials(s) \in Mask
  BY DEF MaskBalanceCredentials, Credentials, Mask

\* What a step of the server's token counter does, and its types.
LEMMA IssueType ==
    ASSUME TypeOK, NEW origin \in Token, Issue(origin)
    PROVE  /\ issued' = issued + 1 /\ issued + 1 \in Token /\ issued \in Nat
           /\ login' \in [Token -> Token]
           /\ login'[issued + 1] = origin
           /\ \A t \in Token : t # issued + 1 => login'[t] = login[t]
           /\ validAccess' \in SUBSET Token
           /\ lapsed' = lapsed
<1>1. issued \in Nat /\ issued + 1 \in Token
  BY TokenNumbers DEF Issue, TypeOK
<1>2. login' = [login EXCEPT ![issued + 1] = origin]
  BY DEF Issue
<1>3. login' \in [Token -> Token] /\ login'[issued + 1] = origin
      /\ \A t \in Token : t # issued + 1 => login'[t] = login[t]
  BY <1>1, <1>2 DEF TypeOK
<1>4. QED
  BY <1>1, <1>3 DEF Issue, TypeOK

\* A rotation keeps the types of the server's variables.
LEMMA RotateType ==
    ASSUME TypeOK, NEW old \in Token, NEW kept \in BOOLEAN, Rotate(old, kept)
    PROVE  /\ issued' \in Token
           /\ login' \in [Token -> Token]
           /\ validRefresh' \in SUBSET Token
           /\ validAccess' \in SUBSET Token
           /\ lapsed' \in SUBSET Token
<1>1. login[old] \in Token
  BY DEF TypeOK
<1>2. Issue(login[old])
  BY DEF Rotate
<1>3. validRefresh' \in SUBSET Token
  BY <1>1, <1>2, IssueType DEF Rotate, TypeOK
<1>4. QED
  BY <1>1, <1>2, <1>3, IssueType DEF TypeOK

\* The initial states have the types.
LEMMA InitType == Init => TypeOK
<1> SUFFICES ASSUME Init PROVE TypeOK
  OBVIOUS
<1>1. secret \in Credentials
  BY TokenNumbers DEF Init, Credentials
<1>2. mask \in Mask
  BY <1>1, MaskType DEF Init
<1>3. task \in TaskRecord /\ put \in [Writers -> PutRecord]
  BY NullRecords DEF Init
<1>4. login \in [Token -> Token]
  BY TokenNumbers DEF Init
<1>5. issued \in Token /\ validRefresh \in SUBSET Token /\ validAccess \in SUBSET Token
      /\ lapsed \in SUBSET Token
  BY TokenNumbers DEF Init
<1>6. restarts \in 0 .. MaxRestarts /\ shown \in Outcome \cup {"none"}
  BY RotationAssumption DEF Init
<1>7. QED
  BY <1>1, <1>2, <1>3, <1>4, <1>5, <1>6 DEF TypeOK

\* Each step of the refresh keeps the types.
LEMMA TaskStepType ==
    ASSUME TypeOK, TaskStep
    PROVE  TypeOK'
<1> USE DEF stored, server
<1>t. task.creds \in Credentials /\ task.creds.refresh \in Token
      /\ task.creds.call \in Key /\ task.outcome \in Outcome
  BY DEF TypeOK, TaskRecord, Credentials
<1>w. ASSUME NEW s PROVE WithoutBalance(s) \in Outcome
  BY DEF WithoutBalance, Outcome
<1>d. ASSUME NEW o \in Outcome, Done(o)
      PROVE  task' \in TaskRecord /\ shown' \in Outcome \cup {"none"}
  BY <1>d, NullRecords DEF Done
<1>1. CASE BeginRefresh
  <2>1. ASSUME NEW pc \in {"cached", "refreshing"}
        PROVE  [NoTask EXCEPT !.pc = pc, !.creds = secret] \in TaskRecord
    BY NullRecords DEF TypeOK, TaskRecord
  <2>2. task' \in TaskRecord /\ shown' \in Outcome \cup {"none"}
    BY <1>1, <2>1, <1>d DEF BeginRefresh, TypeOK, Outcome
  <2>3. QED
    BY <1>1, <2>2 DEF BeginRefresh, TypeOK
<1>2. CASE CachedOK
  <2>1. Done("balance") /\ "balance" \in Outcome
    BY <1>2 DEF CachedOK, Outcome
  <2>2. QED
    BY <1>2, <2>1, <1>d DEF CachedOK, TypeOK
<1>3. CASE CachedFails
  <2>1. [task EXCEPT !.pc = "refreshing"] \in TaskRecord
    BY DEF TypeOK, TaskRecord
  <2>2. task' \in TaskRecord /\ shown' \in Outcome \cup {"none"}
    BY <1>3, <2>1, <1>d, <1>w DEF CachedFails, TypeOK
  <2>3. QED
    BY <1>3, <2>2 DEF CachedFails, TypeOK
<1>4. CASE RefreshAccessToken
  <2>1. PICK kept \in BOOLEAN :
          /\ Rotate(task.creds.refresh, kept)
          /\ task' = [task EXCEPT !.pc = "probing",
                        !.creds = [refresh |-> IF kept THEN task.creds.refresh ELSE issued + 1,
                                   access  |-> issued + 1,
                                   expires |-> TRUE,
                                   call    |-> task.creds.call]]
    BY <1>4 DEF RefreshAccessToken, TypeOK, TaskRecord
  <2>2. issued + 1 \in Token
    BY <2>1, TokenNumbers DEF Rotate, Issue, TypeOK
  <2>3. task' \in TaskRecord
    BY <2>1, <2>2, <1>t DEF TypeOK, TaskRecord, Credentials
  <2>4. QED
    BY <1>4, <2>1, <2>3, <1>t, RotateType DEF RefreshAccessToken, TypeOK
<1>5. CASE RefreshFails
  <2>1. task' \in TaskRecord /\ shown' \in Outcome \cup {"none"}
    BY <1>5, <1>d, <1>w DEF RefreshFails
  <2>2. CASE UNCHANGED server
    BY <1>5, <2>1, <2>2 DEF RefreshFails, TypeOK
  <2>3. CASE \E kept \in BOOLEAN : Rotate(task.creds.refresh, kept)
    BY <1>5, <1>t, <2>1, <2>3, RotateType DEF RefreshFails, TypeOK
  <2>4. QED
    BY <1>5, <2>2, <2>3 DEF RefreshFails
<1>6. CASE Probe
  <2>1. ASSUME NEW o \in Outcome
        PROVE  [task EXCEPT !.pc = "saving", !.outcome = o] \in TaskRecord
    BY DEF TypeOK, TaskRecord
  <2>2. task' \in TaskRecord /\ shown' \in Outcome \cup {"none"}
    BY <1>6, <2>1, <1>d DEF Probe, TypeOK, Outcome
  <2>3. QED
    BY <1>6, <2>2 DEF Probe, TypeOK
<1>7. CASE SaveSecret
  <2>1. task' \in TaskRecord /\ shown' \in Outcome \cup {"none"}
    BY <1>7, <1>d, <1>t DEF SaveSecret, Outcome
  <2>2. secret' \in Credentials /\ mask' \in Mask
    BY <1>7, <1>t, MaskType DEF SaveSecret, TypeOK
  <2>3. QED
    BY <1>7, <2>1, <2>2 DEF SaveSecret, TypeOK
<1>8. QED
  BY <1>1, <1>2, <1>3, <1>4, <1>5, <1>6, <1>7 DEF TaskStep

\* Each step of a PUT handler keeps the types.
LEMMA PutStepType ==
    ASSUME TypeOK, NEW w \in Writers, PutStep(w)
    PROVE  TypeOK'
<1> USE DEF stored, server
<1>b. ASSUME NEW kind \in {"attach", "replace", "settings"}, NEW s \in Credentials,
             NEW m \in Mask, PutBuilt(w, kind, s, m)
      PROVE  put' \in [Writers -> PutRecord]
  <2>1. [pc |-> "writing", kind |-> kind, secret |-> s, mask |-> m] \in PutRecord
    BY DEF PutRecord
  <2>2. QED
    BY <1>b, <2>1 DEF PutBuilt, TypeOK
<1>1. CASE PutAttach(w)
  <2>1. ASSUME NEW key \in CallKeys
        PROVE  /\ AttachCallCredentials(secret, key) \in Credentials
               /\ appendCallMask(mask, key) \in Mask
    BY DEF TypeOK, AttachCallCredentials, appendCallMask, Credentials, Mask, Key
  <2>2. put' \in [Writers -> PutRecord]
    BY <1>1, <2>1, <1>b DEF PutAttach
  <2>3. QED
    BY <1>1, <2>2 DEF PutAttach, TypeOK
<1>2. CASE PutReplace(w)
  <2>1. issued + 1 \in Token
    BY <1>2, TokenNumbers DEF PutReplace, Issue, TypeOK
  <2>2. PICK refresh \in {None, issued + 1}, access \in {None, issued + 1},
             expires \in BOOLEAN, key \in Key :
          LET new == [refresh |-> refresh, access |-> access, expires |-> expires,
                      call |-> key]
          IN PutBuilt(w, "replace", new, MaskBalanceCredentials(new))
    BY <1>2 DEF PutReplace
  <2> DEFINE new == [refresh |-> refresh, access |-> access, expires |-> expires,
                     call |-> key]
  <2>3. new \in Credentials
    BY <2>1, TokenNumbers DEF Credentials
  <2>4. put' \in [Writers -> PutRecord]
    BY <2>2, <2>3, <1>b, MaskType
  <2>5. Issue(issued + 1)
    BY <1>2 DEF PutReplace
  <2>6. /\ issued' \in Token /\ login' \in [Token -> Token]
        /\ validAccess' \in SUBSET Token /\ lapsed' \in SUBSET Token
    BY <2>1, <2>5, IssueType DEF TypeOK
  <2>7. validRefresh' \in SUBSET Token
    BY <1>2, <2>1 DEF PutReplace, TypeOK
  <2>8. QED
    BY <1>2, <2>4, <2>6, <2>7 DEF PutReplace, TypeOK
<1>3. CASE PutSettings(w)
  <2>1. put' \in [Writers -> PutRecord]
    BY <1>3, <1>b, NullRecords DEF PutSettings, TypeOK
  <2>2. QED
    BY <1>3, <2>1 DEF PutSettings, TypeOK
<1>4. CASE PutWrite(w)
  <2>1. put[w].secret \in Credentials /\ put[w].mask \in Mask
    BY DEF TypeOK, PutRecord
  <2>2. secret' \in Credentials /\ mask' \in Mask
    BY <1>4, <2>1 DEF PutWrite, TypeOK
  <2>3. put' \in [Writers -> PutRecord]
    BY <1>4, NullRecords DEF PutWrite, TypeOK
  <2>4. QED
    BY <1>4, <2>2, <2>3 DEF PutWrite, TypeOK
<1>5. QED
  BY <1>1, <1>2, <1>3, <1>4 DEF PutStep

\* Every step keeps the types.
LEMMA NextType ==
    ASSUME TypeOK, [Next]_vars
    PROVE  TypeOK'
<1> USE DEF stored, server
<1>1. ASSUME NEW t \in Token, Lapse(t) \/ Revoke(t)
      PROVE  TypeOK'
  BY <1>1 DEF Lapse, Revoke, TypeOK
<1>2. CASE Restart
  <2>1. restarts' \in 0 .. MaxRestarts
    BY <1>2, RotationAssumption DEF Restart, TypeOK
  <2>2. QED
    BY <1>2, <2>1, NullRecords DEF Restart, TypeOK
<1>3. CASE UNCHANGED vars
  BY <1>3 DEF vars, TypeOK
<1>4. QED
  BY <1>1, <1>2, <1>3, TaskStepType, PutStepType DEF Next

\* Every variable keeps its type in every behaviour.
THEOREM RotationTypeCorrect == Spec => []TypeOK
<1>1. TypeOK /\ [Next]_vars => TypeOK'
  BY NextType
<1>2. QED
  BY InitType, <1>1, PTL DEF Spec

-----------------------------------------------------------------------------
(* The mask.  A PUT handler carries the secret and the mask it will write, *)
(* built from one read of the row, so what it carries must match as well.  *)

\* A PUT that will write the secret carries its mask.
PutMaskMatches ==
    \A w \in Writers : put[w].pc = "writing" /\ put[w].kind # "settings" =>
        put[w].mask = MaskBalanceCredentials(put[w].secret)

MaskInv == MaskDescribesSecret /\ PutMaskMatches

\* Adding a call key to the mask gives the mask of the secret with that key.
LEMMA AttachKeepsMask ==
    ASSUME NEW s \in Credentials, NEW key \in CallKeys
    PROVE  appendCallMask(MaskBalanceCredentials(s), key) =
               MaskBalanceCredentials(AttachCallCredentials(s, key))
  BY DEF appendCallMask, MaskBalanceCredentials, AttachCallCredentials, Credentials

\* A handler that has built its update leaves the others as they are.
LEMMA PutBuiltOne ==
    ASSUME TypeOK, NEW w \in Writers, NEW kind, NEW s, NEW m, PutBuilt(w, kind, s, m)
    PROVE  /\ put'[w].kind = kind /\ put'[w].secret = s /\ put'[w].mask = m
           /\ \A x \in Writers : x # w => put'[x] = put[x]
  BY DEF PutBuilt, TypeOK

\* No step separates the mask from the secret.
LEMMA MaskStep ==
    ASSUME TypeOK, MaskInv, [Next]_vars
    PROVE  MaskInv'
<1> USE DEF stored, server
<1>1. CASE TaskStep
  <2>1. put' = put
    BY <1>1 DEF TaskStep, BeginRefresh, CachedOK, CachedFails, RefreshAccessToken,
                RefreshFails, Probe, SaveSecret
  <2>2. CASE SaveSecret
    BY <2>1, <2>2 DEF SaveSecret, MaskInv, MaskDescribesSecret, PutMaskMatches
  <2>3. CASE UNCHANGED stored
    BY <2>1, <2>3 DEF MaskInv, MaskDescribesSecret, PutMaskMatches
  <2>4. QED
    BY <1>1, <2>2, <2>3 DEF TaskStep, BeginRefresh, CachedOK, CachedFails,
                            RefreshAccessToken, RefreshFails, Probe
<1>2. ASSUME NEW w \in Writers, PutAttach(w) PROVE MaskInv'
  <2>1. PICK key \in CallKeys :
          PutBuilt(w, "attach", AttachCallCredentials(secret, key),
                                appendCallMask(mask, key))
    BY <1>2 DEF PutAttach
  <2>2. appendCallMask(mask, key) =
            MaskBalanceCredentials(AttachCallCredentials(secret, key))
    BY AttachKeepsMask DEF MaskInv, MaskDescribesSecret, TypeOK
  <2>3. PutMaskMatches'
    BY <2>1, <2>2, PutBuiltOne DEF PutMaskMatches, MaskInv
  <2>4. QED
    BY <1>2, <2>3 DEF PutAttach, MaskInv, MaskDescribesSecret
<1>3. ASSUME NEW w \in Writers, PutReplace(w) PROVE MaskInv'
  <2>1. PICK new : PutBuilt(w, "replace", new, MaskBalanceCredentials(new))
    BY <1>3 DEF PutReplace
  <2>2. PutMaskMatches'
    BY <2>1, PutBuiltOne DEF PutMaskMatches, MaskInv
  <2>3. QED
    BY <1>3, <2>2 DEF PutReplace, MaskInv, MaskDescribesSecret
<1>4. ASSUME NEW w \in Writers, PutSettings(w) PROVE MaskInv'
  <2>1. PutBuilt(w, "settings", NoCreds, mask)
    BY <1>4 DEF PutSettings
  <2>2. PutMaskMatches'
    BY <2>1, PutBuiltOne DEF PutMaskMatches, MaskInv
  <2>3. QED
    BY <1>4, <2>2 DEF PutSettings, MaskInv, MaskDescribesSecret
<1>5. ASSUME NEW w \in Writers, PutWrite(w) PROVE MaskInv'
  <2>1. MaskDescribesSecret'
    BY <1>5 DEF PutWrite, MaskInv, MaskDescribesSecret, PutMaskMatches
  <2>2. put'[w].pc = "idle" /\ \A x \in Writers : x # w => put'[x] = put[x]
    BY <1>5 DEF PutWrite, TypeOK, NoPut
  <2>3. PutMaskMatches'
    BY <2>2 DEF PutMaskMatches, MaskInv
  <2>4. QED
    BY <2>1, <2>3 DEF MaskInv
<1>6. CASE Restart
  BY <1>6 DEF Restart, MaskInv, MaskDescribesSecret, PutMaskMatches, NoPut
<1>7. CASE UNCHANGED <<stored, put>>
  BY <1>7 DEF MaskInv, MaskDescribesSecret, PutMaskMatches
<1>8. QED
  BY <1>1, <1>2, <1>3, <1>4, <1>5, <1>6, <1>7 DEF Next, PutStep, Lapse, Revoke, vars

\* The mask the API shows is always that of the stored secret, whoever writes.
THEOREM MaskIsTruthful == Spec => []MaskDescribesSecret
<1>1. Init => MaskInv
  <2> SUFFICES ASSUME Init PROVE MaskInv
    OBVIOUS
  <2>1. \A w \in Writers : put[w].pc = "idle"
    BY DEF Init, NoPut
  <2>2. QED
    BY <2>1 DEF Init, MaskInv, MaskDescribesSecret, PutMaskMatches
<1>2. TypeOK /\ MaskInv /\ [Next]_vars => MaskInv'
  BY MaskStep
<1>3. MaskInv => MaskDescribesSecret
  BY DEF MaskInv
<1>4. QED
  BY <1>1, <1>2, <1>3, RotationTypeCorrect, PTL DEF Spec

-----------------------------------------------------------------------------
(* One login.  Every secret in the system, in the row, in the memory of    *)
(* the refresh and of each PUT handler, holds only tokens that have been   *)
(* issued (a token issued later cannot change what they descend from) and  *)
(* both of its tokens descend from one login.                              *)

\* The tokens of s are issued and descend from one login.
Coherent(s) ==
    /\ s.refresh <= issued /\ s.access <= issued
    /\ s.refresh # None /\ s.access # None => login[s.refresh] = login[s.access]

LoginInv ==
    /\ Coherent(secret)
    /\ Coherent(task.creds)
    /\ \A w \in Writers : Coherent(put[w].secret)

\* Issuing a token leaves coherent secrets coherent.
LEMMA IssueKeepsCoherent ==
    ASSUME TypeOK, NEW origin \in Token, Issue(origin), NEW s \in Credentials, Coherent(s)
    PROVE  Coherent(s)'
<1>1. s.refresh \in Nat /\ s.access \in Nat /\ s.refresh \in Token /\ s.access \in Token
  BY TokenNumbers DEF Credentials
<1>2. /\ issued \in Nat /\ issued' = issued + 1
      /\ \A t \in Token : t # issued + 1 => login'[t] = login[t]
  BY IssueType
<1>3. login'[s.refresh] = login[s.refresh] /\ login'[s.access] = login[s.access]
  BY <1>1, <1>2 DEF Coherent
<1>4. QED
  BY <1>1, <1>2, <1>3 DEF Coherent

\* The secrets of the state are credentials.
LEMMA SecretsTyped ==
    ASSUME TypeOK
    PROVE  /\ secret \in Credentials /\ task.creds \in Credentials
           /\ \A w \in Writers : put[w].secret \in Credentials
  BY DEF TypeOK, TaskRecord, PutRecord

\* No step mixes the tokens of two logins.
LEMMA LoginStep ==
    ASSUME TypeOK, LoginInv, [Next]_vars
    PROVE  LoginInv'
<1> USE DEF stored, server
<1>k. ASSUME UNCHANGED <<issued, login>>, NEW s, Coherent(s) PROVE Coherent(s)'
  BY <1>k DEF Coherent
<1>e. Coherent(NoCreds)'
  <2>1. TypeOK'
    BY NextType
  <2>2. issued' \in Nat
    BY <2>1, TokenNumbers DEF TypeOK
  <2>3. QED
    BY <2>2 DEF Coherent, NoCreds, None
<1>i. ASSUME NEW origin \in Token, Issue(origin), UNCHANGED <<secret, put>>
      PROVE  /\ Coherent(secret)'
             /\ \A w \in Writers : Coherent(put[w].secret)'
  BY <1>i, IssueKeepsCoherent, SecretsTyped DEF LoginInv
<1>1. CASE RefreshAccessToken
  <2>1. PICK kept \in BOOLEAN :
          /\ Rotate(task.creds.refresh, kept)
          /\ task' = [task EXCEPT !.pc = "probing",
                        !.creds = [refresh |-> IF kept THEN task.creds.refresh ELSE issued + 1,
                                   access  |-> issued + 1,
                                   expires |-> TRUE,
                                   call    |-> task.creds.call]]
    BY <1>1 DEF RefreshAccessToken, TypeOK, TaskRecord
  <2> DEFINE old == task.creds.refresh
  <2>2. old \in Token /\ old \in Nat /\ login[old] \in Token /\ old <= issued
    BY TokenNumbers, SecretsTyped DEF TypeOK, Credentials, LoginInv, Coherent
  <2>3. Issue(login[old])
    BY <2>1 DEF Rotate
  <2>4. /\ issued' = issued + 1 /\ issued \in Nat
        /\ login'[issued + 1] = login[old]
        /\ \A t \in Token : t # issued + 1 => login'[t] = login[t]
    BY <2>2, <2>3, IssueType
  <2>5. /\ task'.creds.access = issued + 1
        /\ task'.creds.refresh = IF kept THEN old ELSE issued + 1
    BY <2>1 DEF TypeOK, TaskRecord
  <2>6. login'[old] = login[old]
    BY <2>2, <2>4
  <2>7. Coherent(task.creds)'
    BY <2>2, <2>4, <2>5, <2>6 DEF Coherent
  <2>8. Coherent(secret)' /\ \A w \in Writers : Coherent(put[w].secret)'
    BY <1>1, <1>i, <2>2, <2>3 DEF RefreshAccessToken
  <2>9. QED
    BY <2>7, <2>8 DEF LoginInv
<1>2. CASE RefreshFails
  <2>1. task'.creds = NoCreds /\ UNCHANGED <<secret, put>>
    BY <1>2 DEF RefreshFails, Done, NoTask
  <2>2. Coherent(task.creds)'
    BY <1>e, <2>1 DEF Coherent
  <2>3. CASE UNCHANGED server
    BY <1>k, <2>1, <2>2, <2>3 DEF LoginInv
  <2>4. CASE \E kept \in BOOLEAN : Rotate(task.creds.refresh, kept)
    <3>1. login[task.creds.refresh] \in Token
      BY SecretsTyped DEF TypeOK, Credentials
    <3>2. Issue(login[task.creds.refresh])
      BY <2>4 DEF Rotate
    <3>3. QED
      BY <1>i, <2>1, <2>2, <3>1, <3>2 DEF LoginInv
  <2>5. QED
    BY <1>2, <2>3, <2>4 DEF RefreshFails
<1>3. CASE BeginRefresh \/ CachedOK \/ CachedFails \/ Probe
  <2>1. UNCHANGED <<secret, put, issued, login>>
    BY <1>3 DEF BeginRefresh, CachedOK, CachedFails, Probe
  <2>2. task'.creds \in {NoCreds, secret, task.creds}
    <3>1. NoTask.creds = NoCreds /\ NoTask \in TaskRecord /\ task \in TaskRecord
      BY NullRecords DEF NoTask, TypeOK
    <3>2. CASE BeginRefresh
      BY <3>1, <3>2 DEF BeginRefresh, Done, TaskRecord
    <3>3. CASE CachedOK
      BY <3>1, <3>3 DEF CachedOK, Done
    <3>4. CASE CachedFails
      BY <3>1, <3>4 DEF CachedFails, Done, TaskRecord
    <3>5. CASE Probe
      BY <3>1, <3>5 DEF Probe, Done, TaskRecord
    <3>6. QED
      BY <1>3, <3>2, <3>3, <3>4, <3>5
  <2>3. Coherent(task.creds)'
    BY <1>e, <2>1, <2>2 DEF LoginInv, Coherent
  <2>4. QED
    BY <1>k, <2>1, <2>3 DEF LoginInv
<1>4. CASE SaveSecret
  <2>1. UNCHANGED <<put, issued, login>> /\ task'.creds = NoCreds
        /\ secret' \in {secret, task.creds}
    BY <1>4 DEF SaveSecret, Done, NoTask
  <2>2. Coherent(secret)' /\ Coherent(task.creds)'
    BY <1>e, <2>1 DEF LoginInv, Coherent
  <2>3. QED
    BY <1>k, <2>1, <2>2 DEF LoginInv
<1>5. ASSUME NEW w \in Writers, PutAttach(w) \/ PutSettings(w) PROVE LoginInv'
  <2>1. UNCHANGED <<secret, task, issued, login>>
    BY <1>5 DEF PutAttach, PutSettings
  <2>2. \A key \in CallKeys :
          /\ AttachCallCredentials(secret, key).refresh = secret.refresh
          /\ AttachCallCredentials(secret, key).access = secret.access
    BY DEF AttachCallCredentials, TypeOK, Credentials
  <2>3. CASE PutAttach(w)
    <3>1. PICK key \in CallKeys :
            PutBuilt(w, "attach", AttachCallCredentials(secret, key),
                                  appendCallMask(mask, key))
      BY <2>3 DEF PutAttach
    <3>2. put'[w].secret = AttachCallCredentials(secret, key)
          /\ \A x \in Writers : x # w => put'[x] = put[x]
      BY <3>1, PutBuiltOne
    <3>3. QED
      BY <2>1, <2>2, <3>2 DEF LoginInv, Coherent
  <2>4. CASE PutSettings(w)
    <3>1. PutBuilt(w, "settings", NoCreds, mask)
      BY <2>4 DEF PutSettings
    <3>2. put'[w].secret = NoCreds /\ \A x \in Writers : x # w => put'[x] = put[x]
      BY <3>1, PutBuiltOne
    <3>3. QED
      BY <1>e, <2>1, <3>2 DEF LoginInv, Coherent
  <2>5. QED
    BY <1>5, <2>3, <2>4
<1>6. ASSUME NEW w \in Writers, PutReplace(w) PROVE LoginInv'
  <2>1. PICK refresh \in {None, issued + 1}, access \in {None, issued + 1},
             expires \in BOOLEAN, key \in Key :
          LET new == [refresh |-> refresh, access |-> access, expires |-> expires,
                      call |-> key]
          IN PutBuilt(w, "replace", new, MaskBalanceCredentials(new))
    BY <1>6 DEF PutReplace
  <2> DEFINE new == [refresh |-> refresh, access |-> access, expires |-> expires,
                     call |-> key]
  <2>2. Issue(issued + 1) /\ issued + 1 \in Token /\ UNCHANGED <<secret, task>>
    BY <1>6, TokenNumbers DEF PutReplace, Issue, TypeOK
  <2>3. issued' = issued + 1 /\ issued \in Nat
    BY <2>2, IssueType
  <2>4. put'[w].secret = new /\ \A x \in Writers : x # w => put'[x] = put[x]
    BY <2>1, PutBuiltOne
  <2>5. Coherent(new)'
    BY <2>3 DEF Coherent, None
  <2>6. \A s \in Credentials : Coherent(s) => Coherent(s)'
    BY <2>2, IssueKeepsCoherent
  <2>7. Coherent(secret)' /\ Coherent(task.creds)'
    BY <2>2, <2>6, SecretsTyped DEF LoginInv, Coherent
  <2>8. \A x \in Writers : Coherent(put[x].secret)'
    BY <2>4, <2>5, <2>6, SecretsTyped DEF LoginInv, Coherent
  <2>9. QED
    BY <2>7, <2>8 DEF LoginInv
<1>7. ASSUME NEW w \in Writers, PutWrite(w) PROVE LoginInv'
  <2>1. UNCHANGED <<task, issued, login>> /\ secret' \in {secret, put[w].secret}
    BY <1>7 DEF PutWrite
  <2>2. put'[w].secret = NoCreds /\ \A x \in Writers : x # w => put'[x] = put[x]
    BY <1>7 DEF PutWrite, TypeOK, NoPut
  <2>3. QED
    BY <1>e, <1>k, <2>1, <2>2 DEF LoginInv, Coherent
<1>8. CASE Restart
  <2>1. UNCHANGED <<secret, issued, login>> /\ task'.creds = NoCreds
        /\ \A w \in Writers : put'[w].secret = NoCreds
    BY <1>8 DEF Restart, NoTask, NoPut
  <2>2. QED
    BY <1>e, <1>k, <2>1 DEF LoginInv, Coherent
<1>9. CASE UNCHANGED <<secret, task, put, issued, login>>
  BY <1>9 DEF LoginInv, Coherent
<1>10. QED
  BY <1>1, <1>2, <1>3, <1>4, <1>5, <1>6, <1>7, <1>8, <1>9
     DEF Next, TaskStep, PutStep, Lapse, Revoke, vars

\* All secrets are coherent in every behaviour.
LEMMA LoginInvariant == Spec => []LoginInv
<1>1. Init => LoginInv
  <2> SUFFICES ASSUME Init PROVE LoginInv
    OBVIOUS
  <2>1. issued = 1 /\ secret.refresh = 1 /\ secret.access \in {None, 1}
        /\ task.creds = NoCreds /\ \A w \in Writers : put[w].secret = NoCreds
    BY DEF Init, NoTask, NoPut
  <2>2. QED
    BY <2>1 DEF LoginInv, Coherent, NoCreds, None
<1>2. TypeOK /\ LoginInv /\ [Next]_vars => LoginInv'
  BY LoginStep
<1>3. QED
  BY <1>1, <1>2, RotationTypeCorrect, PTL DEF Spec

\* The refresh token and the access token of the row never come from different
\* logins, however refreshes, rotations, PUTs and restarts interleave.
THEOREM TokensOfOneLogin == Spec => []OneLogin
<1>1. LoginInv => OneLogin
  BY DEF LoginInv, Coherent, OneLogin
<1>2. QED
  BY <1>1, LoginInvariant, PTL

-----------------------------------------------------------------------------
(* The rotated token.  With a call key the refresh hands over the rotated  *)
(* token whatever the balance endpoint says, so only four things can make  *)
(* the row lose it, and the theorem excludes each of them by name: the     *)
(* answer to the rotation or the save is lost (Faults); the process dies   *)
(* between the two (NoCrashMidRotation); a PUT of credentials is under way *)
(* during a refresh (PutsApart); what a PUT stores with a call key was     *)
(* worthless when it was stored (PutsWork).  TLC finds the token lost as   *)
(* soon as any one of them is allowed.                                     *)

\* A handler that has read the row and will write its secret.
CredentialPut(w) == put[w].pc = "writing" /\ put[w].kind # "settings"

\* Such handlers and refreshes do not overlap; handlers without credentials
\* come and go as they like.
PutsApart == \A w \in Writers : CredentialPut(w) => task.pc = "idle"

\* What is stored with a call key works when it is stored.
PutsWork ==
    \A w \in Writers :
        CredentialPut(w) /\ put[w].secret.call # NoKey => put[w].secret.refresh \in validRefresh

\* The process is not restarted while the new pair is in memory only.
NoCrashMidRotation ==
    task.pc \in {"probing", "saving"} => restarts' = restarts

Rotated == task.pc \in {"probing", "saving"}

\* The token that works is in the row, or, once the refresh has rotated it, in
\* the memory of the refresh, which knows of the call key it will be saved with.
ProtectInv ==
    /\ secret.call # NoKey /\ ~Rotated => secret.refresh \in validRefresh
    /\ Rotated => task.creds.refresh \in validRefresh
    /\ task.pc # "idle" => task.creds.call = secret.call

\* No step that is not excluded loses the token.
LEMMA ProtectStep ==
    ASSUME Faults \cap {"refresh", "store"} = {},
           TypeOK, ProtectInv, PutsApart, PutsWork,
           [Next]_vars, [NoCrashMidRotation]_vars
    PROVE  ProtectInv'
<1> USE DEF stored, server
<1>f. "refresh" \notin Faults /\ "store" \notin Faults
  OBVIOUS
<1>i. ASSUME task'.pc = "idle", ~Rotated, UNCHANGED <<secret, validRefresh>>
      PROVE  ProtectInv'
  BY <1>i DEF ProtectInv, Rotated
<1>1. CASE BeginRefresh
  <2>1. /\ UNCHANGED <<secret, validRefresh>> /\ task.pc = "idle"
        /\ \/ task'.pc = "idle"
           \/ task'.pc \in {"cached", "refreshing"} /\ task'.creds = secret
    <3>1. ASSUME NEW pc \in {"cached", "refreshing"},
                 task' = [NoTask EXCEPT !.pc = pc, !.creds = secret]
          PROVE  task'.pc \in {"cached", "refreshing"} /\ task'.creds = secret
      BY <3>1, NullRecords DEF TaskRecord
    <3>2. NoTask.pc = "idle"
      BY DEF NoTask
    <3>3. /\ UNCHANGED <<secret, validRefresh>> /\ task.pc = "idle"
          /\ \/ task' = NoTask
             \/ task' = [NoTask EXCEPT !.pc = "cached", !.creds = secret]
             \/ task' = [NoTask EXCEPT !.pc = "refreshing", !.creds = secret]
      BY <1>1 DEF BeginRefresh, Done
    <3>4. QED
      BY <3>1, <3>2, <3>3
  <2>2. QED
    BY <2>1 DEF ProtectInv, Rotated
<1>2. CASE CachedOK
  <2>1. task.pc = "cached" /\ task'.pc = "idle" /\ UNCHANGED <<secret, validRefresh>>
    BY <1>2 DEF CachedOK, Done, NoTask
  <2>2. QED
    BY <2>1, <1>i DEF Rotated
<1>3. CASE CachedFails
  <2>1. /\ task.pc = "cached" /\ UNCHANGED <<secret, validRefresh>>
        /\ \/ task'.pc = "idle"
           \/ task'.pc = "refreshing" /\ task'.creds = task.creds
    BY <1>3 DEF CachedFails, Done, NoTask, TypeOK, TaskRecord
  <2>2. QED
    BY <2>1 DEF ProtectInv, Rotated
<1>4. CASE RefreshAccessToken
  <2>1. PICK kept \in BOOLEAN :
          /\ Rotate(task.creds.refresh, kept)
          /\ task' = [task EXCEPT !.pc = "probing",
                        !.creds = [refresh |-> IF kept THEN task.creds.refresh ELSE issued + 1,
                                   access  |-> issued + 1,
                                   expires |-> TRUE,
                                   call    |-> task.creds.call]]
    BY <1>4 DEF RefreshAccessToken, TypeOK, TaskRecord
  <2>2. /\ task'.pc = "probing" /\ task'.creds.call = task.creds.call
        /\ task'.creds.refresh = IF kept THEN task.creds.refresh ELSE issued + 1
        /\ task.pc = "refreshing" /\ secret' = secret
    BY <1>4, <2>1 DEF RefreshAccessToken, TypeOK, TaskRecord
  <2>3. task'.creds.refresh \in validRefresh'
    BY <2>1, <2>2 DEF Rotate
  <2>4. QED
    BY <2>2, <2>3 DEF ProtectInv, Rotated
<1>5. CASE RefreshFails
  <2>1. task.pc = "refreshing" /\ task'.pc = "idle" /\ UNCHANGED <<secret, validRefresh>>
    BY <1>5, <1>f DEF RefreshFails, Done, NoTask
  <2>2. QED
    BY <2>1, <1>i DEF Rotated
<1>6. CASE Probe
  <2>1. /\ task.pc = "probing" /\ UNCHANGED <<secret, validRefresh>>
        /\ \/ task'.pc = "idle" /\ task.creds.call = NoKey
           \/ task'.pc = "saving" /\ task'.creds = task.creds
    <3>1. ASSUME NEW o, task' = [task EXCEPT !.pc = "saving", !.outcome = o]
          PROVE  task'.pc = "saving" /\ task'.creds = task.creds
      BY <3>1 DEF TypeOK, TaskRecord
    <3>2. NoTask.pc = "idle"
      BY DEF NoTask
    <3>3. /\ task.pc = "probing" /\ UNCHANGED <<secret, validRefresh>>
          /\ \/ task' = NoTask /\ task.creds.call = NoKey
             \/ task' = [task EXCEPT !.pc = "saving", !.outcome = "balance"]
             \/ task' = [task EXCEPT !.pc = "saving", !.outcome = "call_only"]
      BY <1>6 DEF Probe, Done
    <3>4. QED
      BY <3>1, <3>2, <3>3
  <2>2. QED
    BY <2>1 DEF ProtectInv, Rotated
<1>7. CASE SaveSecret
  <2>1. /\ task.pc = "saving" /\ task'.pc = "idle" /\ secret' = task.creds
        /\ UNCHANGED validRefresh
    BY <1>7, <1>f DEF SaveSecret, Done, NoTask
  <2>2. QED
    BY <2>1 DEF ProtectInv, Rotated
<1>8. ASSUME NEW w \in Writers, PutAttach(w) \/ PutSettings(w)
      PROVE  ProtectInv'
  BY <1>8 DEF PutAttach, PutSettings, ProtectInv, Rotated
<1>9. ASSUME NEW w \in Writers, PutReplace(w)
      PROVE  ProtectInv'
  <2>1. UNCHANGED <<secret, task>> /\ validRefresh \subseteq validRefresh'
    BY <1>9 DEF PutReplace
  <2>2. QED
    BY <2>1 DEF ProtectInv, Rotated
<1>10. ASSUME NEW w \in Writers, PutWrite(w)
       PROVE  ProtectInv'
  <2>1. UNCHANGED <<task, validRefresh>>
    BY <1>10 DEF PutWrite
  <2>2. CASE secret' = secret
    BY <2>1, <2>2 DEF ProtectInv, Rotated
  <2>3. CASE put[w].kind # "settings" /\ secret' = put[w].secret
    <3>1. /\ task.pc = "idle"
          /\ put[w].secret.call # NoKey => put[w].secret.refresh \in validRefresh
      BY <1>10, <2>3 DEF PutWrite, PutsApart, PutsWork, CredentialPut
    <3>2. QED
      BY <2>1, <2>3, <3>1 DEF ProtectInv, Rotated
  <2>4. QED
    BY <1>10, <2>2, <2>3 DEF PutWrite
<1>11. ASSUME NEW t \in Token, Lapse(t) \/ Revoke(t)
       PROVE  ProtectInv'
  BY <1>11 DEF Lapse, Revoke, ProtectInv, Rotated
<1>12. CASE Restart
  <2>1. task'.pc = "idle" /\ UNCHANGED <<secret, validRefresh>> /\ restarts' # restarts
    BY <1>12, RotationAssumption DEF Restart, NoTask, TypeOK
  <2>2. ~Rotated
    BY <2>1 DEF NoCrashMidRotation, Rotated, vars
  <2>3. QED
    BY <2>1, <2>2, <1>i
<1>13. CASE UNCHANGED vars
  BY <1>13 DEF vars, ProtectInv, Rotated
<1>14. QED
  BY <1>1, <1>2, <1>3, <1>4, <1>5, <1>6, <1>7, <1>8, <1>9, <1>10, <1>11, <1>12, <1>13
     DEF Next, TaskStep, PutStep

\* Between refreshes a row with a call key holds a refresh token the server
\* accepts, however often the balance endpoint fails, tokens lapse or are
\* revoked and settings are changed, unless one of the four things happens that
\* lose the token for good.
THEOREM CallKeyKeepsToken ==
    ASSUME Faults \cap {"refresh", "store"} = {}
    PROVE  Spec /\ []PutsApart /\ []PutsWork /\ [][NoCrashMidRotation]_vars
               => []CallKeyProtectsRotation
<1>1. Init => ProtectInv
  <2>1. Init => secret.refresh = 1 /\ validRefresh = {1} /\ task.pc = "idle"
    BY DEF Init, NoTask
  <2>2. QED
    BY <2>1 DEF ProtectInv, Rotated
<1>2. TypeOK /\ ProtectInv /\ PutsApart /\ PutsWork /\ [Next]_vars
          /\ [NoCrashMidRotation]_vars => ProtectInv'
  BY ProtectStep
<1>3. ProtectInv => CallKeyProtectsRotation
  BY DEF ProtectInv, Rotated, CallKeyProtectsRotation, Quiet
<1>4. QED
  BY <1>1, <1>2, <1>3, RotationTypeCorrect, PTL DEF Spec

-----------------------------------------------------------------------------
(* What the administrator sent last.  A refresh saves a secret of its own, *)
(* so it undoes a PUT that came between its read and its save; that is the *)
(* only way.  Without such a PUT the login and the call key of the row are *)
(* what they were, whatever fails and however often the process restarts.  *)

\* The refresh has the call key of the row and tokens of the row's login.
KeepInv ==
    task.pc # "idle" =>
        /\ task.creds.call = secret.call
        /\ LoginOf(task.creds) = LoginOf(secret)
        /\ task.pc # "cached" => task.creds.refresh # None

\* The login of a secret is fixed once its tokens are issued.
LEMMA LoginFixed ==
    ASSUME TypeOK, NEW origin \in Token, Issue(origin), NEW s \in Credentials, Coherent(s)
    PROVE  LoginOf(s)' = LoginOf(s)
<1>1. /\ s.refresh \in Nat /\ s.access \in Nat /\ s.refresh \in Token /\ s.access \in Token
      /\ s.refresh <= issued /\ s.access <= issued
  BY TokenNumbers DEF Credentials, Coherent
<1>2. /\ issued \in Nat
      /\ \A t \in Token : t # issued + 1 => login'[t] = login[t]
  BY IssueType
<1>3. login'[s.refresh] = login[s.refresh] /\ login'[s.access] = login[s.access]
  BY <1>1, <1>2
<1>4. QED
  BY <1>3 DEF LoginOf

\* Only a refresh that began before, or a PUT without a refresh under way, comes
\* between the refresh and the row.
LEMMA KeepStep ==
    ASSUME TypeOK, LoginInv, KeepInv, PutsApart, [Next]_vars
    PROVE  KeepInv'
<1> USE DEF stored, server
<1>t. secret \in Credentials /\ task.creds \in Credentials
      /\ Coherent(secret) /\ Coherent(task.creds)
  BY SecretsTyped DEF LoginInv
<1>n. NoTask.pc = "idle"
  BY DEF NoTask
<1>q. ASSUME UNCHANGED <<secret, login>>,
             \/ task'.pc = "idle"
             \/ /\ task'.creds = task.creds /\ task.pc # "idle"
                /\ task'.pc # "cached" => task.creds.refresh # None
      PROVE  KeepInv'
  BY <1>q DEF KeepInv, LoginOf
<1>i. ASSUME NEW origin \in Token, Issue(origin), NEW s \in Credentials, Coherent(s)
      PROVE  login'[IF s.refresh # None THEN s.refresh ELSE s.access] = LoginOf(s)
  BY <1>i, LoginFixed DEF LoginOf
<1>1. CASE BeginRefresh
  <2>1. /\ UNCHANGED <<secret, login>>
        /\ \/ task' = NoTask
           \/ task' = [NoTask EXCEPT !.pc = "cached", !.creds = secret]
           \/ /\ task' = [NoTask EXCEPT !.pc = "refreshing", !.creds = secret]
              /\ secret.refresh # None
    BY <1>1 DEF BeginRefresh, Done
  <2>2. ASSUME NEW pc \in {"cached", "refreshing"},
               task' = [NoTask EXCEPT !.pc = pc, !.creds = secret]
        PROVE  task'.pc = pc /\ task'.creds = secret
    BY <2>2, NullRecords DEF TaskRecord
  <2>3. QED
    BY <1>n, <2>1, <2>2 DEF KeepInv, LoginOf
<1>2. CASE CachedFails
  <2>1. /\ task.pc = "cached" /\ UNCHANGED <<secret, login>>
        /\ \/ task' = NoTask
           \/ task' = [task EXCEPT !.pc = "refreshing"] /\ task.creds.refresh # None
    BY <1>2 DEF CachedFails, Done
  <2>2. task' = [task EXCEPT !.pc = "refreshing"] => task'.creds = task.creds
    BY DEF TypeOK, TaskRecord
  <2>3. QED
    BY <1>n, <1>q, <2>1, <2>2
<1>3. CASE RefreshAccessToken
  <2>1. PICK kept \in BOOLEAN :
          /\ Rotate(task.creds.refresh, kept)
          /\ task' = [task EXCEPT !.pc = "probing",
                        !.creds = [refresh |-> IF kept THEN task.creds.refresh ELSE issued + 1,
                                   access  |-> issued + 1,
                                   expires |-> TRUE,
                                   call    |-> task.creds.call]]
    BY <1>3 DEF RefreshAccessToken, TypeOK, TaskRecord
  <2> DEFINE old == task.creds.refresh
  <2>2. /\ old \in Token /\ login[old] \in Token
        /\ task.pc = "refreshing" /\ secret' = secret
    BY <1>3, <1>t DEF RefreshAccessToken, TypeOK, Credentials
  <2>3. old # None /\ task.creds.call = secret.call /\ login[old] = LoginOf(secret)
    BY <2>2 DEF KeepInv, LoginOf
  <2>4. Issue(login[old])
    BY <2>1 DEF Rotate
  <2>5. /\ issued + 1 # None /\ login'[issued + 1] = login[old] /\ login'[old] = login[old]
    <3>1. issued \in Nat /\ login'[issued + 1] = login[old]
      BY <2>2, <2>4, IssueType
    <3>2. login'[old] = login[old]
      BY <1>i, <1>t, <2>2, <2>3, <2>4 DEF LoginOf
    <3>3. QED
      BY <3>1, <3>2 DEF None
  <2>6. /\ task'.creds.call = task.creds.call
        /\ task'.creds.refresh = IF kept THEN old ELSE issued + 1
    BY <2>1 DEF TypeOK, TaskRecord
  <2>7. login'[IF secret.refresh # None THEN secret.refresh ELSE secret.access]
            = LoginOf(secret)
    BY <1>i, <1>t, <2>2, <2>4
  <2>8. QED
    BY <2>2, <2>3, <2>5, <2>6, <2>7 DEF KeepInv, LoginOf
<1>4. CASE Probe
  <2>1. /\ task.pc = "probing" /\ UNCHANGED <<secret, login>>
        /\ \/ task' = NoTask
           \/ task' = [task EXCEPT !.pc = "saving", !.outcome = "balance"]
           \/ task' = [task EXCEPT !.pc = "saving", !.outcome = "call_only"]
    BY <1>4 DEF Probe, Done
  <2>2. ASSUME NEW o, task' = [task EXCEPT !.pc = "saving", !.outcome = o]
        PROVE  task'.creds = task.creds
    BY <2>2 DEF TypeOK, TaskRecord
  <2>3. task.creds.refresh # None
    BY <2>1 DEF KeepInv
  <2>4. QED
    BY <1>n, <1>q, <2>1, <2>2, <2>3
<1>5. CASE CachedOK \/ RefreshFails \/ SaveSecret \/ Restart
  <2>1. task' = NoTask
    BY <1>5 DEF CachedOK, RefreshFails, SaveSecret, Restart, Done
  <2>2. QED
    BY <1>n, <2>1 DEF KeepInv
<1>6. ASSUME NEW w \in Writers, PutReplace(w) PROVE KeepInv'
  <2>1. Issue(issued + 1) /\ UNCHANGED <<secret, task>>
    BY <1>6 DEF PutReplace
  <2>2. issued + 1 \in Token
    BY <2>1, TokenNumbers DEF Issue, TypeOK
  <2>3. /\ login'[IF secret.refresh # None THEN secret.refresh ELSE secret.access]
               = LoginOf(secret)
        /\ login'[IF task.creds.refresh # None THEN task.creds.refresh
                  ELSE task.creds.access] = LoginOf(task.creds)
    BY <1>i, <1>t, <2>1, <2>2
  <2>4. QED
    BY <2>1, <2>3 DEF KeepInv, LoginOf
<1>7. ASSUME NEW w \in Writers, PutWrite(w) PROVE KeepInv'
  <2>1. /\ UNCHANGED <<task, login>>
        /\ secret' = secret \/ task.pc = "idle"
    BY <1>7 DEF PutWrite, PutsApart, CredentialPut
  <2>2. QED
    BY <2>1 DEF KeepInv, LoginOf
<1>8. CASE UNCHANGED <<secret, task, login>>
  BY <1>8 DEF KeepInv, LoginOf
<1>9. QED
  BY <1>1, <1>2, <1>3, <1>4, <1>5, <1>6, <1>7, <1>8
     DEF Next, TaskStep, PutStep, PutAttach, PutSettings, Lapse, Revoke, vars

\* As long as no PUT of credentials and refresh overlap, a refresh that saves
\* leaves the row with the login and the call key the administrator sent last,
\* whatever fails and whenever the process restarts.
THEOREM WritesApartAreKept == Spec /\ []PutsApart => AdminWriteNotOverwritten
<1>1. Init => KeepInv
  BY DEF Init, KeepInv, NoTask
<1>2. TypeOK /\ LoginInv /\ KeepInv /\ PutsApart /\ [Next]_vars => KeepInv'
  BY KeepStep
<1>3. TypeOK /\ KeepInv /\ [Next]_vars =>
        [task.pc = "saving" /\ task' # task =>
             secret'.call = secret.call /\ LoginOf(secret)' = LoginOf(secret)]_vars
  <2> SUFFICES ASSUME TypeOK, KeepInv, Next, task.pc = "saving", task' # task
               PROVE  secret'.call = secret.call /\ LoginOf(secret)' = LoginOf(secret)
    OBVIOUS
  <2>1. SaveSecret \/ Restart
    BY DEF Next, TaskStep, PutStep, BeginRefresh, CachedOK, CachedFails,
           RefreshAccessToken, RefreshFails, Probe, PutAttach, PutReplace,
           PutSettings, PutWrite, Lapse, Revoke
  <2>2. login' = login /\ secret' \in {secret, task.creds}
    BY <2>1 DEF SaveSecret, Restart, stored, server
  <2>3. task.creds.call = secret.call /\ LoginOf(task.creds) = LoginOf(secret)
    BY DEF KeepInv
  <2>4. QED
    BY <2>2, <2>3 DEF LoginOf
<1>4. QED
  BY <1>1, <1>2, <1>3, LoginInvariant, RotationTypeCorrect, PTL
     DEF Spec, AdminWriteNotOverwritten
=============================================================================
