------------------------ MODULE RegisterProviderProofs ------------------------
(***************************************************************************)
(* For any number of registrations, accounts, versions and secrets: an     *)
(* active instance has its secrets, if a put leaves the other secrets      *)
(* alone or all versions of a provider need the same ones; and a           *)
(* registration commits with its own secrets in the store, if a put leaves *)
(* the others alone.                                                       *)
(***************************************************************************)
EXTENDS RegisterProvider, TLAPS

\* When may a put take a secret away that an older instance needs?  Not with a store
\* that merges, nor if every version needs what every other version needs.
SecretsStay == StoreMerges \/ \A v, w \in Versions : Needs[v] = Needs[w]

Supplied(r) == \A n \in Needs[cmd[r].version] : bag[cmd[r].account][n] # None

\* What the commit relies on: put_many has been called.
WrittenHaveSecrets == \A r \in Registrations : stage[r] = "written" => Supplied(r)

SecretsInv == RegisterTypeOK /\ WrittenHaveSecrets /\ InstancesHaveSecrets

LEMMA RegisterInitTyped == RegisterInit => RegisterTypeOK
  BY DEF RegisterInit, RegisterTypeOK, Stages

LEMMA PutTyped ==
  ASSUME NEW old \in [Names -> Registrations \cup {None}], NEW r \in Registrations,
         NEW names \in SUBSET Names
  PROVE  Put(old, r, names) \in [Names -> Registrations \cup {None}]
  BY DEF Put

LEMMA WriteTyped ==
  ASSUME RegisterTypeOK, NEW r \in Registrations, WriteSecrets(r)
  PROVE  /\ cmd[r] \in Commands
         /\ Needs[cmd[r].version] \subseteq cmd[r].supplied
         /\ bag' \in [Accounts -> [Names -> Registrations \cup {None}]]
<1>1. cmd[r] \in Commands /\ Needs[cmd[r].version] \subseteq cmd[r].supplied
  BY DEF RegisterTypeOK, WriteSecrets
<1>2. cmd[r].account \in Accounts /\ cmd[r].supplied \in SUBSET Names
  BY <1>1 DEF Commands
<1>3. Put(bag[cmd[r].account], r, cmd[r].supplied) \in [Names -> Registrations \cup {None}]
  BY <1>2, PutTyped DEF RegisterTypeOK
<1> QED
  BY <1>1, <1>2, <1>3 DEF RegisterTypeOK, WriteSecrets

LEMMA RegisterNextTyped == RegisterTypeOK /\ [RegisterNext]_registerVars => RegisterTypeOK'
<1> SUFFICES ASSUME RegisterTypeOK, [RegisterNext]_registerVars
             PROVE  RegisterTypeOK'
  OBVIOUS
<1>1. ASSUME NEW r \in Registrations, Refuse(r)
      PROVE  RegisterTypeOK'
  BY <1>1 DEF RegisterTypeOK, Refuse, Stages
<1>2. ASSUME NEW r \in Registrations, NEW c \in Commands, Accept(r, c)
      PROVE  RegisterTypeOK'
  BY <1>2 DEF RegisterTypeOK, Accept, Stages
<1>3. ASSUME NEW r \in Registrations, Upsert(r)
      PROVE  RegisterTypeOK'
  BY <1>3 DEF RegisterTypeOK, Upsert, Stages
<1>4. ASSUME NEW r \in Registrations, WriteSecrets(r)
      PROVE  RegisterTypeOK'
  BY <1>4, WriteTyped DEF RegisterTypeOK, WriteSecrets, Stages
<1>5. ASSUME NEW r \in Registrations, Commit(r)
      PROVE  RegisterTypeOK'
  <2>1. InstanceOf(r) \in Accounts \X Versions
    BY <1>5 DEF RegisterTypeOK, Commit, InstanceOf, Commands
  <2> QED
    BY <1>5, <2>1 DEF RegisterTypeOK, Commit, Stages
<1>6. ASSUME NEW r \in Registrations, Probe(r)
      PROVE  RegisterTypeOK'
  BY <1>6 DEF RegisterTypeOK, Probe, Stages
<1>7. ASSUME NEW r \in Registrations, Fails(r)
      PROVE  RegisterTypeOK'
  BY <1>7 DEF RegisterTypeOK, Fails, Stages
<1>8. CASE UNCHANGED registerVars
  BY <1>8 DEF RegisterTypeOK, registerVars
<1> QED
  BY <1>1, <1>2, <1>3, <1>4, <1>5, <1>6, <1>7, <1>8 DEF RegisterNext, RegisterStep

\* The shape of the tables, and that what passed validation supplies what it needs.
THEOREM RegisterTyped == RegisterSpec => []RegisterTypeOK
<1>1. RegisterInit => RegisterTypeOK
  BY RegisterInitTyped
<1>2. RegisterTypeOK /\ [RegisterNext]_registerVars => RegisterTypeOK'
  BY RegisterNextTyped
<1> QED
  BY <1>1, <1>2, PTL DEF RegisterSpec

-----------------------------------------------------------------------------
\* A put takes no needed secret away, and adds those the new manifest needs.
LEMMA PutKeepsSecrets ==
  ASSUME SecretsStay, RegisterTypeOK, NEW r \in Registrations, WriteSecrets(r),
         NEW a \in Accounts, NEW v \in Versions,
         \/ a = cmd[r].account /\ v = cmd[r].version
         \/ \A n \in Needs[v] : bag[a][n] # None
  PROVE  \A n \in Needs[v] : bag'[a][n] # None
<1>1. /\ cmd[r].account \in Accounts
      /\ cmd[r].version \in Versions
      /\ Needs[cmd[r].version] \subseteq cmd[r].supplied
  BY WriteTyped DEF Commands
<1>2. bag' = [bag EXCEPT ![cmd[r].account] =
                  Put(bag[cmd[r].account], r, cmd[r].supplied)]
  BY DEF WriteSecrets
<1>3. Needs[v] \subseteq Names /\ r # None
  BY RegistrationAssumption
<1>4. CASE a # cmd[r].account
  BY <1>1, <1>2, <1>4 DEF RegisterTypeOK
<1>5. CASE a = cmd[r].account
  <2> SUFFICES ASSUME NEW n \in Needs[v]
               PROVE  bag'[a][n] # None
    OBVIOUS
  <2>1. bag'[a] = Put(bag[a], r, cmd[r].supplied)
    BY <1>1, <1>2, <1>5 DEF RegisterTypeOK
  <2>2. bag'[a][n] = IF n \in cmd[r].supplied THEN r
                     ELSE IF StoreMerges THEN bag[a][n] ELSE None
    BY <1>3, <2>1 DEF Put
  <2>3. CASE n \in cmd[r].supplied
    BY <1>3, <2>2, <2>3
  <2>4. CASE n \notin cmd[r].supplied
    <3>1. Needs[v] # Needs[cmd[r].version]
      BY <1>1, <2>4
    <3>2. StoreMerges /\ bag[a][n] # None
      BY <1>1, <3>1 DEF SecretsStay
    <3> QED
      BY <2>2, <2>4, <3>2
  <2> QED
    BY <2>3, <2>4
<1> QED
  BY <1>4, <1>5

LEMMA WriteSecretsInv ==
  ASSUME SecretsStay, SecretsInv, NEW r \in Registrations, WriteSecrets(r)
  PROVE  WrittenHaveSecrets' /\ InstancesHaveSecrets'
<1>1. UNCHANGED <<cmd, instances>> /\ stage' = [stage EXCEPT ![r] = "written"]
  BY DEF WriteSecrets
<1>2. ASSUME NEW q \in Registrations, stage'[q] = "written"
      PROVE  \A n \in Needs[cmd[q].version] : bag'[cmd[q].account][n] # None
  <2>1. q = r \/ stage[q] = "written"
    BY <1>1, <1>2 DEF SecretsInv, RegisterTypeOK
  <2>2. cmd[q].account \in Accounts /\ cmd[q].version \in Versions
    BY <2>1 DEF SecretsInv, RegisterTypeOK, Commands, WriteSecrets
  <2>3. q # r => \A n \in Needs[cmd[q].version] : bag[cmd[q].account][n] # None
    BY <2>1 DEF SecretsInv, WrittenHaveSecrets, Supplied
  <2> QED
    BY <2>2, <2>3, PutKeepsSecrets DEF SecretsInv
<1>3. ASSUME NEW i \in instances
      PROVE  \A n \in Needs[i[2]] : bag'[i[1]][n] # None
  <2>1. i[1] \in Accounts /\ i[2] \in Versions
    BY <1>3 DEF SecretsInv, RegisterTypeOK
  <2>2. \A n \in Needs[i[2]] : bag[i[1]][n] # None
    BY <1>3 DEF SecretsInv, InstancesHaveSecrets
  <2> QED
    BY <2>1, <2>2, PutKeepsSecrets DEF SecretsInv
<1> QED
  BY <1>1, <1>2, <1>3 DEF WrittenHaveSecrets, InstancesHaveSecrets, Supplied

\* The other steps leave the store alone: written stays written, and only what is
\* written is committed.
LEMMA StoreUnchangedInv ==
  ASSUME SecretsInv, UNCHANGED bag,
         \A q \in Registrations : stage'[q] = "written" => stage[q] = "written" /\ cmd'[q] = cmd[q],
         \/ UNCHANGED instances
         \/ \E r \in Registrations : /\ stage[r] = "written"
                                     /\ instances' = instances \cup {InstanceOf(r)}
  PROVE  WrittenHaveSecrets' /\ InstancesHaveSecrets'
<1>1. WrittenHaveSecrets'
  BY DEF SecretsInv, WrittenHaveSecrets, Supplied
<1>2. InstancesHaveSecrets'
  BY DEF SecretsInv, WrittenHaveSecrets, InstancesHaveSecrets, Supplied, InstanceOf
<1> QED
  BY <1>1, <1>2

LEMMA SecretsNext ==
  ASSUME SecretsStay, SecretsInv, [RegisterNext]_registerVars
  PROVE  WrittenHaveSecrets' /\ InstancesHaveSecrets'
<1> USE DEF SecretsInv, RegisterTypeOK
<1>1. ASSUME NEW r \in Registrations,
             Refuse(r) \/ Upsert(r) \/ Probe(r) \/ Fails(r) \/ (\E c \in Commands : Accept(r, c))
      PROVE  WrittenHaveSecrets' /\ InstancesHaveSecrets'
  <2>1. UNCHANGED <<bag, instances>>
    BY <1>1 DEF Refuse, Upsert, Probe, Fails, Accept
  <2>2. ASSUME NEW q \in Registrations, stage'[q] = "written"
        PROVE  stage[q] = "written" /\ cmd'[q] = cmd[q]
    BY <1>1, <2>2 DEF Refuse, Upsert, Probe, Fails, Accept
  <2> QED
    BY <2>1, <2>2, StoreUnchangedInv
<1>2. ASSUME NEW r \in Registrations, Commit(r)
      PROVE  WrittenHaveSecrets' /\ InstancesHaveSecrets'
  <2>1. \A q \in Registrations : stage'[q] = "written" => stage[q] = "written" /\ cmd'[q] = cmd[q]
    BY <1>2 DEF Commit
  <2> QED
    BY <1>2, <2>1, StoreUnchangedInv DEF Commit
<1>3. CASE UNCHANGED registerVars
  BY <1>3, StoreUnchangedInv DEF registerVars
<1> QED
  BY <1>1, <1>2, <1>3, WriteSecretsInv DEF RegisterNext, RegisterStep

\* An active instance has the secrets its manifest names, whatever failed and however
\* registrations overlapped.
THEOREM ActiveInstancesHaveSecrets ==
  ASSUME SecretsStay
  PROVE  RegisterSpec => []InstancesHaveSecrets
<1>1. RegisterInit => SecretsInv
  BY RegisterInitTyped
  DEF RegisterInit, SecretsInv, WrittenHaveSecrets, InstancesHaveSecrets
<1>2. SecretsInv /\ [RegisterNext]_registerVars => SecretsInv'
  BY SecretsNext, RegisterNextTyped DEF SecretsInv
<1>3. SecretsInv => InstancesHaveSecrets
  BY DEF SecretsInv
<1> QED
  BY <1>1, <1>2, <1>3, PTL DEF RegisterSpec

-----------------------------------------------------------------------------
\* The row lock: open transactions are about different versions.
OneOpenPerVersion ==
    \A q, r \in Registrations :
        q # r /\ OpenTransaction(q) /\ OpenTransaction(r) => cmd[q].version # cmd[r].version

\* What a commit finds in the store, from the put on.
OwnSecrets ==
    \A r \in Registrations : stage[r] = "written" =>
        \A n \in cmd[r].supplied :
            LET writer == bag[cmd[r].account][n] IN
            writer # r => /\ writer \in Registrations
                          /\ stage[writer] # "new"
                          /\ cmd[writer].version # cmd[r].version

LockInv == RegisterTypeOK /\ OneOpenPerVersion /\ OwnSecrets

\* A step that opens no transaction, writes no secret and changes no command in use.
LEMMA QuietInv ==
  ASSUME LockInv, UNCHANGED bag,
         \A q \in Registrations :
             /\ OpenTransaction(q)' => OpenTransaction(q)
             /\ stage'[q] = "written" => stage[q] = "written"
             /\ stage[q] # "new" => stage'[q] # "new" /\ cmd'[q] = cmd[q]
  PROVE  OneOpenPerVersion' /\ OwnSecrets'
<1>1. OneOpenPerVersion'
  BY DEF LockInv, OneOpenPerVersion, OpenTransaction
<1>2. OwnSecrets'
  BY DEF LockInv, OwnSecrets
<1> QED
  BY <1>1, <1>2

LEMMA UpsertLocks ==
  ASSUME LockInv, NEW r \in Registrations, Upsert(r)
  PROVE  OneOpenPerVersion' /\ OwnSecrets'
<1>1. OneOpenPerVersion'
  BY DEF LockInv, RegisterTypeOK, OneOpenPerVersion, OpenTransaction, Upsert, RowFree
<1>2. OwnSecrets'
  BY DEF LockInv, RegisterTypeOK, OwnSecrets, Upsert
<1> QED
  BY <1>1, <1>2

LEMMA WriteLocks ==
  ASSUME StoreMerges, LockInv, NEW r \in Registrations, WriteSecrets(r)
  PROVE  OneOpenPerVersion' /\ OwnSecrets'
<1> USE DEF LockInv, RegisterTypeOK
<1>1. stage' = [stage EXCEPT ![r] = "written"] /\ stage[r] = "upserted" /\ UNCHANGED cmd
  BY DEF WriteSecrets
<1>2. OneOpenPerVersion'
  BY <1>1 DEF OneOpenPerVersion, OpenTransaction
<1>3. OwnSecrets'
  <2> SUFFICES ASSUME NEW q \in Registrations, stage'[q] = "written",
                      NEW n \in cmd[q].supplied,
                      bag'[cmd[q].account][n] # q
               PROVE  LET writer == bag'[cmd[q].account][n] IN
                      /\ writer \in Registrations
                      /\ stage'[writer] # "new"
                      /\ cmd[writer].version # cmd[q].version
    BY <1>1 DEF OwnSecrets
  <2>1. q = r \/ stage[q] = "written"
    BY <1>1
  <2>2. /\ cmd[q] \in Commands /\ cmd[q].account \in Accounts /\ n \in Names
        /\ cmd[r] \in Commands /\ cmd[r].account \in Accounts
    BY <1>1, <2>1 DEF Commands
  <2>3. bag'[cmd[q].account][n] =
            IF cmd[q].account = cmd[r].account /\ n \in cmd[r].supplied
            THEN r ELSE bag[cmd[q].account][n]
    BY <2>2 DEF WriteSecrets, Put
  <2>4. q # r
    BY <2>3
  <2>5. cmd[r].version # cmd[q].version
    BY <1>1, <2>1, <2>4 DEF OneOpenPerVersion, OpenTransaction
  <2>6. CASE bag'[cmd[q].account][n] = r
    BY <1>1, <2>5, <2>6
  <2>7. CASE bag'[cmd[q].account][n] = bag[cmd[q].account][n]
    BY <1>1, <2>1, <2>4, <2>7 DEF OwnSecrets
  <2> QED
    BY <2>3, <2>6, <2>7
<1> QED
  BY <1>2, <1>3

LEMMA LockNext ==
  ASSUME StoreMerges, LockInv, [RegisterNext]_registerVars
  PROVE  OneOpenPerVersion' /\ OwnSecrets'
<1>1. ASSUME NEW r \in Registrations, Refuse(r) \/ Probe(r) \/ Fails(r) \/ Commit(r)
      PROVE  OneOpenPerVersion' /\ OwnSecrets'
  BY <1>1, QuietInv
  DEF Refuse, Probe, Fails, Commit, OpenTransaction, LockInv, RegisterTypeOK
<1>2. ASSUME NEW r \in Registrations, NEW c \in Commands, Accept(r, c)
      PROVE  OneOpenPerVersion' /\ OwnSecrets'
  BY <1>2, QuietInv DEF Accept, OpenTransaction, LockInv, RegisterTypeOK
<1>3. CASE UNCHANGED registerVars
  BY <1>3, QuietInv DEF registerVars, OpenTransaction
<1> QED
  BY <1>1, <1>2, <1>3, UpsertLocks, WriteLocks DEF RegisterNext, RegisterStep

\* Registrations of one version do not mix their secrets: each commits with its own in
\* the store, unless another version's registration came between.
THEOREM RegistrationsDoNotMix ==
  ASSUME StoreMerges
  PROVE  RegisterSpec => CommitsItsOwnSecrets
<1>1. RegisterInit => LockInv
  BY RegisterInitTyped DEF RegisterInit, LockInv, OneOpenPerVersion, OwnSecrets, OpenTransaction
<1>2. LockInv /\ [RegisterNext]_registerVars => LockInv'
  BY LockNext, RegisterNextTyped DEF LockInv
<1>3. LockInv => \A r \in Registrations :
          stage[r] = "written" /\ stage'[r] \in {"probing", "201"} =>
              \A n \in cmd[r].supplied :
                  LET writer == bag[cmd[r].account][n] IN
                  writer # r => /\ writer \in Registrations
                                /\ cmd[writer].version # cmd[r].version
  BY DEF LockInv, OwnSecrets
<1> QED
  BY <1>1, <1>2, <1>3, PTL DEF RegisterSpec, CommitsItsOwnSecrets
=============================================================================
