------------------------- MODULE WebhookIngressProofs -------------------------
(***************************************************************************)
(* For any number of deliveries, instances, versions and secrets: rows     *)
(* belong to the instance that signed them, a key has one row, what was    *)
(* acknowledged is stored, and webhook ingress implements its inbox.       *)
(***************************************************************************)
EXTENDS WebhookIngress, TLAPS

LEMMA InitTyped == Init => TypeOK
  BY IngressAssumption DEF Init, TypeOK, Stages

LEMMA ExternalIdTyped ==
  ASSUME NEW d \in Deliveries, request[d] \in Requests, version[d] \in Versions
  PROVE  /\ request[d].event \in Events
         /\ IdOf[version[d]][request[d].event] \in EventIds \cup {None}
         /\ ExternalId(d) \in EventIds \cup Deliveries
  BY IngressAssumption DEF ExternalId

\* The part of every handler step that leaves the environment alone.
LEMMA RollBackTyped ==
  ASSUME TypeOK, NEW d \in Deliveries, NEW code \in Answers, RollBack(d, code)
  PROVE  /\ stage' \in [Deliveries -> Stages]
         /\ inserted' \in [Deliveries -> BOOLEAN]
         /\ answer' \in [Deliveries -> Answers \cup {None}]
  BY DEF TypeOK, RollBack, Stages

\* What the handler has found out by the stage it is at.
Located(d) == /\ request[d] \in Requests
              /\ version[d] \in Versions
              /\ instance[d] \in Instances

Authentic(d) ==
    \/ SchemeOf[version[d]].kind = "none"
    \/ \E n \in 1 .. secrets[instance[d]] : SignedWith(request[d], <<instance[d], n>>)

HandlerSound(d) ==
    /\ stage[d] = "resolving" => request[d] \in Requests /\ version[d] \in Versions
    /\ stage[d] \in {"reading", "verifying", "adding", "added", "committed"} => Located(d)
    /\ stage[d] = "verifying" =>
           \/ secret[d] = None
           \/ \E n \in 1 .. secrets[instance[d]] : secret[d] = <<instance[d], n>>
    /\ stage[d] \in {"adding", "added", "committed"} => Authentic(d)
    /\ inserted[d] => stage[d] = "added" /\ ~KeyCommitted(d)
    /\ stage[d] = "added" => inserted[d] \/ KeyCommitted(d)
    /\ stage[d] = "committed" => KeyCommitted(d)
    /\ answer[d] = "200" => stage[d] = "ended" /\ Located(d) /\ KeyCommitted(d)

HandlersSound == \A d \in Deliveries : HandlerSound(d)

\* Of the open transactions at most one has a row with a key.
InsertedAlone ==
    \A c, d \in Deliveries : inserted[c] /\ inserted[d] /\ Key(c) = Key(d) => c = d

RowSound(row) == /\ row.by \in Deliveries
                 /\ stage[row.by] \in {"committed", "ended"}
                 /\ Located(row.by)
                 /\ Authentic(row.by)
                 /\ row = RowOf(row.by)

RowsSound == \A row \in rows : RowSound(row)

RowsUnique == \A a, b \in rows : a.instance = b.instance /\ a.id = b.id => a = b

IngressInv == TypeOK /\ HandlersSound /\ InsertedAlone /\ RowsSound /\ RowsUnique

LEMMA AddedRowTyped ==
  ASSUME IngressInv, NEW d \in Deliveries, Commit(d), inserted[d]
  PROVE  RowOf(d) \in Rows
<1>1. Located(d)
  BY DEF IngressInv, HandlersSound, HandlerSound, Commit
<1> QED
  BY <1>1, ExternalIdTyped DEF Located, RowOf, Rows

LEMMA NextTyped == IngressInv /\ [Next]_vars => TypeOK'
<1> SUFFICES ASSUME IngressInv, [Next]_vars
             PROVE  TypeOK'
  OBVIOUS
<1> USE DEF IngressInv
<1>1. CASE Tick
  BY <1>1, IngressAssumption DEF TypeOK, Tick, handlerVars
<1>2. ASSUME NEW i \in Instances, PutSecret(i) \/ Activate(i)
      PROVE  TypeOK'
  BY <1>2, IngressAssumption DEF TypeOK, PutSecret, Activate, handlerVars
<1>3. ASSUME NEW v \in Versions, SetActive(v)
      PROVE  TypeOK'
  BY <1>3 DEF TypeOK, SetActive, handlerVars
<1>4. ASSUME NEW d \in Deliveries, Arrive(d)
      PROVE  TypeOK'
  BY <1>4, RollBackTyped DEF TypeOK, Arrive, envVars, Stages, Answers
<1>5. ASSUME NEW d \in Deliveries, Resolve(d)
      PROVE  TypeOK'
  BY <1>5, RollBackTyped DEF TypeOK, Resolve, envVars, Stages, Answers
<1>6. ASSUME NEW d \in Deliveries, ReadSecret(d)
      PROVE  TypeOK'
  <2>1. instance[d] \in Instances
    BY <1>6 DEF HandlersSound, HandlerSound, Located, ReadSecret
  <2> QED
    BY <1>6, <2>1 DEF TypeOK, ReadSecret, envVars, Stages
<1>7. ASSUME NEW d \in Deliveries, Verify(d)
      PROVE  TypeOK'
  BY <1>7, RollBackTyped DEF TypeOK, Verify, envVars, Stages, Answers
<1>8. ASSUME NEW d \in Deliveries, Add(d)
      PROVE  TypeOK'
  BY <1>8 DEF TypeOK, Add, envVars, Stages, KeyCommitted
<1>9. ASSUME NEW d \in Deliveries, Commit(d)
      PROVE  TypeOK'
  BY <1>9, AddedRowTyped DEF TypeOK, Commit, envVars, Stages
<1>10. ASSUME NEW d \in Deliveries, Reply(d) \/ Fails(d)
       PROVE  TypeOK'
  BY <1>10, RollBackTyped DEF TypeOK, Reply, Fails, envVars, Answers
<1>11. CASE UNCHANGED vars
  BY <1>11 DEF TypeOK, vars, envVars, handlerVars
<1> QED
  BY <1>1, <1>2, <1>3, <1>4, <1>5, <1>6, <1>7, <1>8, <1>9, <1>10, <1>11
     DEF Next, HandlerStep

-----------------------------------------------------------------------------
(* What a step leaves alone.                                                *)

SecretsGrow == \A i \in Instances : secrets[i] \in Nat /\ secrets'[i] \in Nat
                                     /\ secrets[i] <= secrets'[i]

SameFinds(d) == UNCHANGED <<request[d], version[d], instance[d]>>

SameHandler(d) == /\ SameFinds(d)
                  /\ UNCHANGED <<stage[d], secret[d], inserted[d], answer[d]>>

LEMMA AuthenticStays ==
  ASSUME NEW d \in Deliveries, SecretsGrow, SameFinds(d), instance[d] \in Instances,
         Authentic(d)
  PROVE  Authentic(d)'
  BY DEF SecretsGrow, SameFinds, Authentic

LEMMA HandlerStays ==
  ASSUME NEW d \in Deliveries, HandlerSound(d), SecretsGrow, SameHandler(d),
         UNCHANGED rows
  PROVE  HandlerSound(d)'
<1>1. KeyCommitted(d)' = KeyCommitted(d) /\ Located(d)' = Located(d)
  BY DEF SameHandler, SameFinds, KeyCommitted, Located, ExternalId
<1>2. stage[d] \in {"adding", "added", "committed"} => Authentic(d)'
  BY AuthenticStays DEF SameHandler, HandlerSound, Located
<1>3. ASSUME stage[d] = "verifying",
             NEW n \in 1 .. secrets[instance[d]], secret[d] = <<instance[d], n>>
      PROVE  \E m \in 1 .. secrets'[instance[d]] : secret[d] = <<instance[d], m>>
  BY <1>3 DEF HandlerSound, Located, SecretsGrow
<1> QED
  BY <1>1, <1>2, <1>3 DEF HandlerSound, SameHandler, SameFinds

\* A step without a commit: the rows stay sound if the handlers that have committed
\* keep what they found.
LEMMA RowsStay ==
  ASSUME RowsSound, RowsUnique, SecretsGrow, UNCHANGED rows,
         \A d \in Deliveries : stage[d] \in {"committed", "ended"} =>
             SameFinds(d) /\ stage'[d] \in {"committed", "ended"}
  PROVE  RowsSound' /\ RowsUnique'
<1>1. ASSUME NEW row \in rows
      PROVE  RowSound(row)'
  <2>1. RowSound(row) /\ SameFinds(row.by) /\ stage'[row.by] \in {"committed", "ended"}
    BY <1>1 DEF RowsSound, RowSound
  <2>2. Authentic(row.by)'
    BY <2>1, AuthenticStays DEF RowSound, Located
  <2>3. RowOf(row.by)' = RowOf(row.by) /\ Located(row.by)' = Located(row.by)
    BY <2>1 DEF SameFinds, RowOf, ExternalId, Located
  <2> QED
    BY <2>1, <2>2, <2>3 DEF RowSound
<1> QED
  BY <1>1 DEF RowsSound, RowsUnique

LEMMA AloneStays ==
  ASSUME InsertedAlone,
         \A d \in Deliveries : inserted'[d] => inserted[d] /\ SameFinds(d)
  PROVE  InsertedAlone'
<1> SUFFICES ASSUME NEW c \in Deliveries, NEW d \in Deliveries,
                    inserted'[c], inserted'[d], Key(c)' = Key(d)'
             PROVE  c = d
  BY DEF InsertedAlone
<1>1. Key(c)' = Key(c) /\ Key(d)' = Key(d)
  BY DEF SameFinds, Key, ExternalId
<1> QED
  BY <1>1 DEF InsertedAlone

\* A step of the environment touches no handler and no row.
LEMMA EnvironmentKeeps ==
  ASSUME IngressInv, SecretsGrow, UNCHANGED <<handlerVars, rows>>
  PROVE  HandlersSound' /\ InsertedAlone' /\ RowsSound' /\ RowsUnique'
<1>1. \A d \in Deliveries : SameHandler(d)
  BY DEF handlerVars, SameHandler, SameFinds
<1>2. HandlersSound'
  BY <1>1, HandlerStays DEF IngressInv, HandlersSound
<1>3. RowsSound' /\ RowsUnique'
  BY <1>1, RowsStay DEF IngressInv, SameHandler
<1>4. InsertedAlone'
  BY <1>1, AloneStays DEF IngressInv, SameHandler
<1> QED
  BY <1>2, <1>3, <1>4

\* A step of one delivery that neither inserts nor commits.
LEMMA HandlerKeeps ==
  ASSUME IngressInv, NEW d \in Deliveries, UNCHANGED <<secrets, rows>>,
         \A c \in Deliveries \ {d} : SameHandler(c),
         HandlerSound(d)',
         inserted'[d] => inserted[d] /\ SameFinds(d),
         stage[d] = "committed" => SameFinds(d) /\ stage'[d] = "ended",
         stage[d] # "ended"
  PROVE  HandlersSound' /\ InsertedAlone' /\ RowsSound' /\ RowsUnique'
<1>1. SecretsGrow
  BY DEF IngressInv, TypeOK, SecretsGrow
<1>2. \A c \in Deliveries \ {d} : HandlerSound(c)'
  BY <1>1, HandlerStays DEF IngressInv, HandlersSound
<1>3. RowsSound' /\ RowsUnique'
  BY <1>1, RowsStay DEF IngressInv, SameHandler
<1>4. InsertedAlone'
  BY AloneStays DEF IngressInv, SameHandler
<1> QED
  BY <1>2, <1>3, <1>4 DEF HandlersSound

LEMMA ArriveKeeps ==
  ASSUME IngressInv, NEW d \in Deliveries, Arrive(d)
  PROVE  HandlersSound' /\ InsertedAlone' /\ RowsSound' /\ RowsUnique'
<1> USE DEF IngressInv, TypeOK
<1>1. /\ \A c \in Deliveries \ {d} : SameHandler(c)
      /\ inserted'[d] => inserted[d] /\ SameFinds(d)
  BY DEF Arrive, RollBack, SameHandler, SameFinds, HandlersSound, HandlerSound
<1>2. ~inserted'[d] /\ answer'[d] # "200"
  BY DEF Arrive, RollBack, HandlersSound, HandlerSound
<1>3. \/ stage'[d] = "ended"
      \/ stage'[d] = "resolving" /\ request'[d] \in Requests /\ version'[d] \in Versions
  BY DEF Arrive, RollBack
<1>4. HandlerSound(d)'
  BY <1>2, <1>3 DEF HandlerSound
<1> QED
  BY <1>1, <1>4, HandlerKeeps DEF Arrive, envVars

LEMMA ResolveKeeps ==
  ASSUME IngressInv, NEW d \in Deliveries, Resolve(d)
  PROVE  HandlersSound' /\ InsertedAlone' /\ RowsSound' /\ RowsUnique'
<1> USE DEF IngressInv, TypeOK
<1>1. /\ \A c \in Deliveries \ {d} : SameHandler(c)
      /\ ~inserted[d] /\ ~inserted'[d] /\ answer'[d] # "200"
  BY DEF Resolve, RollBack, SameHandler, SameFinds, HandlersSound, HandlerSound
<1>2. \/ stage'[d] = "ended"
      \/ stage'[d] = "reading" /\ Located(d)'
  BY DEF Resolve, RollBack, HandlersSound, HandlerSound, Located
<1>3. HandlerSound(d)'
  BY <1>1, <1>2 DEF HandlerSound
<1> QED
  BY <1>1, <1>3, HandlerKeeps DEF Resolve, envVars

LEMMA ReadSecretKeeps ==
  ASSUME IngressInv, NEW d \in Deliveries, ReadSecret(d)
  PROVE  HandlersSound' /\ InsertedAlone' /\ RowsSound' /\ RowsUnique'
<1> USE DEF IngressInv, TypeOK
<1>1. /\ \A c \in Deliveries \ {d} : SameHandler(c)
      /\ ~inserted[d] /\ ~inserted'[d] /\ answer'[d] # "200" /\ stage'[d] = "verifying"
      /\ Located(d) /\ Located(d)'
  BY DEF ReadSecret, SameHandler, SameFinds, HandlersSound, HandlerSound, Located
<1>2. \/ secret'[d] = None
      \/ \E n \in 1 .. secrets'[instance'[d]] : secret'[d] = <<instance'[d], n>>
  <2>1. /\ instance'[d] = instance[d] /\ secrets' = secrets
        /\ secrets[instance[d]] \in Nat
    BY <1>1 DEF ReadSecret, envVars, Located
  <2>2. \/ secret'[d] = None
        \/ secrets[instance[d]] > 0 /\ secret'[d] = <<instance[d], secrets[instance[d]]>>
    BY DEF ReadSecret
  <2> QED
    BY <2>1, <2>2
<1>3. HandlerSound(d)'
  BY <1>1, <1>2 DEF HandlerSound
<1> QED
  BY <1>1, <1>3, HandlerKeeps DEF ReadSecret, envVars

LEMMA LastSignature ==
  ASSUME NEW q \in Requests, q.sigs # <<>>
  PROVE  Len(q.sigs) \in DOMAIN q.sigs
<1> DEFINE S == {q.sigs[k] : k \in DOMAIN q.sigs}
<1>1. q.sigs \in Seq(S)
  BY RequestAssumption
<1> HIDE DEF S
<1> QED
  BY <1>1

\* What verify_signature accepts carries a signature made with the secret it was given.
LEMMA AcceptedIsSigned ==
  ASSUME NEW q, q.sigs # <<>> => Len(q.sigs) \in DOMAIN q.sigs,
         NEW scheme, NEW s, NEW t, Accepts(scheme, q, s, t), scheme.kind # "none"
  PROVE  s # None /\ SignedWith(q, s)
<1>1. CASE HmacAccepts(scheme, q, s, t)
  <2>1. /\ Len(q.sigs) \in DOMAIN q.sigs
        /\ \/ q.sigs[Len(q.sigs)] = Sign(s, q.ts, q.event)
           \/ q.sigs[Len(q.sigs)] = Sign(s, None, q.event)
    BY <1>1 DEF HmacAccepts, Received
  <2> QED
    BY <2>1 DEF SignedWith, Accepts
<1>2. CASE StripeAccepts(scheme, q, s, t)
  BY <1>2 DEF StripeAccepts, SignedWith, Accepts
<1> QED
  BY <1>1, <1>2 DEF Accepts

LEMMA VerifyKeeps ==
  ASSUME IngressInv, NEW d \in Deliveries, Verify(d)
  PROVE  HandlersSound' /\ InsertedAlone' /\ RowsSound' /\ RowsUnique'
<1> USE DEF IngressInv, TypeOK
<1> DEFINE accepts == Accepts(SchemeOf[version[d]], request[d], secret[d], now)
           code == IF Raises(SchemeOf[version[d]], request[d], secret[d], now)
                   THEN "500" ELSE "401"
<1>0. /\ stage[d] = "verifying"
      /\ UNCHANGED <<secrets, rows, request, version, instance, secret>>
      /\ \/ accepts /\ stage' = [stage EXCEPT ![d] = "adding"] /\ UNCHANGED <<inserted, answer>>
         \/ /\ stage' = [stage EXCEPT ![d] = "ended"]
            /\ answer' = [answer EXCEPT ![d] = code]
            /\ inserted' = [inserted EXCEPT ![d] = FALSE]
  BY DEF Verify, RollBack, envVars
<1> HIDE DEF accepts
<1>1. /\ \A c \in Deliveries \ {d} : SameHandler(c)
      /\ ~inserted[d] /\ ~inserted'[d] /\ answer'[d] # "200"
      /\ Located(d) /\ SameFinds(d) /\ UNCHANGED secrets
  <2>1. code # "200"
    OBVIOUS
  <2>2. ~inserted[d] /\ answer[d] # "200" /\ Located(d)
    BY <1>0 DEF HandlersSound, HandlerSound
  <2> HIDE DEF code
  <2>3. answer'[d] # "200" /\ ~inserted'[d]
    BY <1>0, <2>1, <2>2
  <2>4. \A c \in Deliveries \ {d} : SameHandler(c)
    BY <1>0 DEF SameHandler, SameFinds
  <2> QED
    BY <1>0, <2>2, <2>3, <2>4 DEF SameFinds
<1>2. Located(d)'
  BY <1>1 DEF SameFinds, Located
<1>3. stage'[d] = "ended" => HandlerSound(d)'
  BY <1>1 DEF HandlerSound
<1>4. ASSUME stage'[d] # "ended"
      PROVE  HandlerSound(d)'
  <2>1. /\ Accepts(SchemeOf[version[d]], request[d], secret[d], now)
        /\ stage'[d] = "adding"
    BY <1>0, <1>4 DEF accepts
  <2>2. \/ secret[d] = None
        \/ \E n \in 1 .. secrets[instance[d]] : secret[d] = <<instance[d], n>>
    BY <1>0 DEF HandlersSound, HandlerSound
  <2>3. request[d].sigs # <<>> => Len(request[d].sigs) \in DOMAIN request[d].sigs
    BY <1>1, LastSignature DEF Located
  <2>4. Authentic(d)
    <3>1. SchemeOf[version[d]].kind # "none" =>
              secret[d] # None /\ SignedWith(request[d], secret[d])
      BY <2>1, <2>3, AcceptedIsSigned
    <3> QED
      BY <2>2, <3>1 DEF Authentic
  <2>5. Authentic(d)'
    BY <1>1, <2>4 DEF SameFinds, Authentic
  <2> QED
    BY <1>1, <1>2, <2>1, <2>5 DEF HandlerSound
<1>5. HandlerSound(d)'
  BY <1>3, <1>4
<1> QED
  BY <1>0, <1>1, <1>5, HandlerKeeps

LEMMA ReplyOrFailsKeeps ==
  ASSUME IngressInv, NEW d \in Deliveries, Reply(d) \/ Fails(d)
  PROVE  HandlersSound' /\ InsertedAlone' /\ RowsSound' /\ RowsUnique'
<1> USE DEF IngressInv, TypeOK
<1>1. /\ \A c \in Deliveries \ {d} : SameHandler(c)
      /\ ~inserted'[d] /\ stage'[d] = "ended"
      /\ SameFinds(d) /\ UNCHANGED <<secrets, rows>>
      /\ stage[d] # "ended"
  BY DEF Reply, Fails, RollBack, SameHandler, SameFinds, envVars
<1>2. answer'[d] = "200" => stage[d] = "committed"
  BY DEF Reply, Fails, RollBack
<1>3. stage[d] = "committed" => Located(d)' /\ KeyCommitted(d)'
  BY <1>1 DEF SameFinds, HandlersSound, HandlerSound, Located, KeyCommitted, ExternalId
<1>4. HandlerSound(d)'
  BY <1>1, <1>2, <1>3 DEF HandlerSound
<1> QED
  BY <1>1, <1>4, HandlerKeeps

LEMMA AddKeeps ==
  ASSUME IngressInv, NEW d \in Deliveries, Add(d)
  PROVE  HandlersSound' /\ InsertedAlone' /\ RowsSound' /\ RowsUnique'
<1> USE DEF IngressInv, TypeOK
<1>1. /\ \A c \in Deliveries \ {d} : SameHandler(c)
      /\ SameFinds(d) /\ UNCHANGED <<secrets, rows, answer>>
      /\ stage[d] = "adding" /\ stage'[d] = "added" /\ answer[d] # "200"
      /\ inserted'[d] = ~KeyCommitted(d)
  BY DEF Add, SameHandler, SameFinds, HandlersSound, HandlerSound, envVars, KeyCommitted
<1>2. KeyCommitted(d)' = KeyCommitted(d) /\ Located(d)' = Located(d) /\ Authentic(d)' = Authentic(d)
  BY <1>1 DEF SameFinds, KeyCommitted, ExternalId, Located, Authentic
<1>3. HandlerSound(d)'
  BY <1>1, <1>2 DEF HandlersSound, HandlerSound
<1>4. SecretsGrow
  BY <1>1 DEF SecretsGrow
<1>5. HandlersSound'
  BY <1>1, <1>3, <1>4, HandlerStays DEF HandlersSound
<1>6. RowsSound' /\ RowsUnique'
  BY <1>1, <1>4, RowsStay DEF SameHandler
<1>7. \A c \in Deliveries : SameFinds(c)
  BY <1>1 DEF SameHandler
<1>8. \A c \in Deliveries : Key(c)' = Key(c)
  BY <1>7 DEF SameFinds, Key, ExternalId
<1>9. \A c \in Deliveries : inserted[c] => Key(c) # Key(d)
  BY DEF Add, KeyLocked
<1>10. InsertedAlone'
  BY <1>1, <1>8, <1>9 DEF InsertedAlone, SameHandler
<1> QED
  BY <1>5, <1>6, <1>10

LEMMA CommitKeeps ==
  ASSUME IngressInv, NEW d \in Deliveries, Commit(d)
  PROVE  HandlersSound' /\ InsertedAlone' /\ RowsSound' /\ RowsUnique'
<1> USE DEF IngressInv, TypeOK
<1>1. /\ \A c \in Deliveries \ {d} : SameHandler(c)
      /\ SameFinds(d) /\ UNCHANGED <<secrets, answer>>
      /\ stage[d] = "added" /\ stage'[d] = "committed" /\ ~inserted'[d]
      /\ answer[d] # "200" /\ Located(d) /\ Authentic(d)
  BY DEF Commit, SameHandler, SameFinds, HandlersSound, HandlerSound, envVars
<1>2. rows' = IF inserted[d] THEN rows \cup {RowOf(d)} ELSE rows
  BY DEF Commit
<1>3. \A c \in Deliveries : SameFinds(c)
  BY <1>1 DEF SameHandler
<1>4. \A c \in Deliveries : /\ Key(c)' = Key(c) /\ ExternalId(c)' = ExternalId(c)
                            /\ RowOf(c)' = RowOf(c) /\ Located(c)' = Located(c)
                            /\ Authentic(c)' = Authentic(c)
  BY <1>1, <1>3 DEF SameFinds, Key, ExternalId, RowOf, Located, Authentic
<1>5. KeyCommitted(d)'
  <2>1. instance'[d] = instance[d]
    BY <1>3 DEF SameFinds
  <2>2. CASE inserted[d]
    <3>1. RowOf(d) \in rows'
      BY <1>2, <2>2
    <3>2. RowOf(d).instance = instance[d] /\ RowOf(d).id = ExternalId(d)
      BY DEF RowOf
    <3> QED
      BY <1>4, <2>1, <3>1, <3>2 DEF KeyCommitted
  <2>3. CASE ~inserted[d]
    <3>1. KeyCommitted(d)
      BY <1>1, <2>3 DEF HandlersSound, HandlerSound
    <3> QED
      BY <1>2, <1>4, <2>1, <2>3, <3>1 DEF KeyCommitted
  <2> QED
    BY <2>2, <2>3
<1>6. HandlerSound(d)'
  BY <1>1, <1>4, <1>5 DEF HandlerSound
<1>7. ASSUME NEW c \in Deliveries \ {d}
      PROVE  HandlerSound(c)'
  <2>1. HandlerSound(c) /\ SameHandler(c)
    BY <1>1 DEF HandlersSound
  <2>2. KeyCommitted(c) => KeyCommitted(c)'
    BY <1>2, <1>3, <1>4 DEF KeyCommitted, SameFinds
  <2>3. inserted[c] => ~KeyCommitted(c)'
    <3>1. inserted[c] /\ inserted[d] => Key(c) # Key(d)
      BY DEF InsertedAlone
    <3>2. inserted[c] => ~KeyCommitted(c)
      BY <2>1 DEF HandlerSound
    <3>3. inserted[d] /\ Key(c) # Key(d) =>
              ~(RowOf(d).instance = instance[c] /\ RowOf(d).id = ExternalId(c))
      BY DEF RowOf, Key
    <3>4. instance'[c] = instance[c]
      BY <1>3 DEF SameFinds
    <3> QED
      BY <1>2, <1>4, <3>1, <3>2, <3>3, <3>4 DEF KeyCommitted
  <2> QED
    BY <1>1, <1>3, <1>4, <2>1, <2>2, <2>3 DEF HandlerSound, SameHandler, SameFinds
<1>8. HandlersSound'
  BY <1>6, <1>7 DEF HandlersSound
<1>9. InsertedAlone'
  BY <1>1, AloneStays DEF SameHandler
<1>10. RowsSound'
  <2>1. ASSUME NEW row \in rows
        PROVE  RowSound(row)'
    BY <1>1, <1>4, <2>1 DEF RowsSound, RowSound, SameHandler
  <2>2. RowOf(d).by = d
    BY DEF RowOf
  <2>3. ASSUME NEW row, row = RowOf(d)
        PROVE  RowSound(row)'
    BY <1>1, <1>4, <2>2, <2>3 DEF RowSound
  <2> QED
    BY <1>2, <2>1, <2>3 DEF RowsSound
<1>11. RowsUnique'
  <2>1. inserted[d] => \A row \in rows : ~(row.instance = RowOf(d).instance /\ row.id = RowOf(d).id)
    BY DEF HandlersSound, HandlerSound, KeyCommitted, RowOf
  <2> QED
    BY <1>2, <2>1 DEF RowsUnique
<1> QED
  BY <1>8, <1>9, <1>10, <1>11

LEMMA InvInit == Init => IngressInv
<1> SUFFICES ASSUME Init
             PROVE  IngressInv
  OBVIOUS
<1>1. TypeOK
  BY InitTyped
<1>2. \A d \in Deliveries : stage[d] = "new" /\ ~inserted[d] /\ answer[d] # "200"
  BY IngressAssumption DEF Init, Answers
<1>3. HandlersSound /\ InsertedAlone
  BY <1>2 DEF HandlersSound, HandlerSound, InsertedAlone
<1>4. RowsSound /\ RowsUnique
  BY DEF Init, RowsSound, RowsUnique
<1> QED
  BY <1>1, <1>3, <1>4 DEF IngressInv

LEMMA InvNext == IngressInv /\ [Next]_vars => IngressInv'
<1> SUFFICES ASSUME IngressInv, [Next]_vars
             PROVE  HandlersSound' /\ InsertedAlone' /\ RowsSound' /\ RowsUnique'
  BY NextTyped DEF IngressInv
<1>1. CASE Tick \/ \E v \in Versions : SetActive(v)
  <2>1. SecretsGrow /\ UNCHANGED <<handlerVars, rows>>
    BY <1>1 DEF Tick, SetActive, SecretsGrow, IngressInv, TypeOK
  <2> QED
    BY <2>1, EnvironmentKeeps
<1>2. ASSUME NEW i \in Instances, PutSecret(i) \/ Activate(i)
      PROVE  HandlersSound' /\ InsertedAlone' /\ RowsSound' /\ RowsUnique'
  <2>1. SecretsGrow /\ UNCHANGED <<handlerVars, rows>>
    BY <1>2 DEF PutSecret, Activate, SecretsGrow, IngressInv, TypeOK
  <2> QED
    BY <2>1, EnvironmentKeeps
<1>3. CASE UNCHANGED vars
  <2>1. SecretsGrow /\ UNCHANGED <<handlerVars, rows>>
    BY <1>3 DEF vars, envVars, SecretsGrow, IngressInv, TypeOK
  <2> QED
    BY <2>1, EnvironmentKeeps
<1> QED
  BY <1>1, <1>2, <1>3, ArriveKeeps, ResolveKeeps, ReadSecretKeeps, VerifyKeeps, AddKeeps,
     CommitKeeps, ReplyOrFailsKeeps DEF Next, HandlerStep

LEMMA InvHolds == Spec => []IngressInv
  BY InvInit, InvNext, PTL DEF Spec

-----------------------------------------------------------------------------
\* The shape of the handlers and of the table.
THEOREM IngressTyped == Spec => []TypeOK
<1>1. IngressInv => TypeOK
  BY DEF IngressInv
<1> QED
  BY <1>1, InvHolds, PTL

\* A row is stored under the instance whose secret its request was signed with,
\* whatever is rotated, registered or activated while it is handled.
THEOREM RowsAreSigned == Spec => []RowsBelongToTheirSigner
<1>1. IngressInv => RowsBelongToTheirSigner
  <2> SUFFICES ASSUME IngressInv, NEW row \in rows
               PROVE  \/ SchemeOf[version[row.by]].kind = "none"
                      \/ \E n \in 1 .. secrets[row.instance] :
                             SignedWith(request[row.by], <<row.instance, n>>)
    BY DEF RowsBelongToTheirSigner
  <2>1. Authentic(row.by) /\ row = RowOf(row.by)
    BY DEF IngressInv, RowsSound, RowSound
  <2>2. row.instance = instance[row.by]
    BY <2>1 DEF RowOf
  <2> QED
    BY <2>1, <2>2 DEF Authentic
<1> QED
  BY <1>1, InvHolds, PTL

\* An event is stored twice only for another instance, without an id, or where two
\* versions find different ids in it.
THEOREM DuplicatesExplained == Spec => []DuplicatesHaveACause
<1>1. IngressInv => DuplicatesHaveACause
  <2> SUFFICES ASSUME IngressInv, NEW a \in rows, NEW b \in rows,
                      a.by # b.by, a.instance = b.instance,
                      IdOf[version[a.by]][request[a.by].event] # None,
                      IdOf[version[a.by]][request[a.by].event]
                          = IdOf[version[b.by]][request[b.by].event]
               PROVE  FALSE
    BY DEF DuplicatesHaveACause
  <2>1. a = RowOf(a.by) /\ b = RowOf(b.by)
    BY DEF IngressInv, RowsSound, RowSound
  <2>2. a.id = ExternalId(a.by) /\ b.id = ExternalId(b.by)
    BY <2>1 DEF RowOf
  <2>3. a.id = b.id
    BY <2>2 DEF ExternalId
  <2> QED
    BY <2>3 DEF IngressInv, RowsUnique
<1> QED
  BY <1>1, InvHolds, PTL

\* An acknowledged event has its row, unless another event has its id.
THEOREM AcknowledgedStored == Spec => []AcknowledgedIsStored
<1>1. IngressInv => AcknowledgedIsStored
  <2> SUFFICES ASSUME IngressInv, NEW d \in Deliveries, answer[d] = "200"
               PROVE  \E row \in rows :
                        /\ row.instance = instance[d]
                        /\ row.id = ExternalId(d)
                        /\ \/ row.event = request[d].event
                           \/ request[d].event \in Unparsable
                           \/ /\ request[row.by].event # request[d].event
                              /\ IdOf[version[row.by]][request[row.by].event] = ExternalId(d)
    BY DEF AcknowledgedIsStored
  <2>1. Located(d) /\ KeyCommitted(d)
    BY DEF IngressInv, HandlersSound, HandlerSound
  <2>2. PICK row \in rows : row.instance = instance[d] /\ row.id = ExternalId(d)
    BY <2>1 DEF KeyCommitted
  <2>3. RowSound(row)
    BY DEF IngressInv, RowsSound
  <2>4. /\ row.id = ExternalId(row.by)
        /\ row.event = IF request[row.by].event \in Unparsable THEN None
                       ELSE request[row.by].event
    BY <2>3 DEF RowSound, RowOf
  <2>5. CASE request[row.by].event = request[d].event
    BY <2>2, <2>4, <2>5
  <2>6. CASE request[row.by].event # request[d].event
    <3> DEFINE mine == IdOf[version[d]][request[d].event]
               other == IdOf[version[row.by]][request[row.by].event]
    <3>1. mine \in EventIds \cup {None} /\ row.by \in Deliveries
      BY <2>1, <2>3, ExternalIdTyped DEF Located, RowSound
    <3>2. d # row.by
      BY <2>6
    <3>3. ExternalId(d) = IF mine = None THEN d ELSE mine
      BY DEF ExternalId
    <3>4. ExternalId(row.by) = IF other = None THEN row.by ELSE other
      BY DEF ExternalId
    <3>5. EventIds \cap Deliveries = {}
      BY IngressAssumption
    <3> HIDE DEF mine, other
    <3>6. other # None
      BY <2>2, <2>4, <3>1, <3>2, <3>3, <3>4, <3>5
    <3>7. other = ExternalId(d)
      BY <2>2, <2>4, <3>4, <3>6
    <3> QED
      BY <2>2, <2>6, <3>7 DEF other
  <2> QED
    BY <2>5, <2>6
<1> QED
  BY <1>1, InvHolds, PTL

-----------------------------------------------------------------------------
(* The inbox.                                                               *)

Acked == {Key(d) : d \in {c \in Deliveries : answer[c] = "200"}}

LEMMA InboxInitRefined == Init => Kept!InboxInit
  BY IngressAssumption DEF Init, Kept!InboxInit, Answers

\* A step that answers nobody with 200 leaves what was acknowledged alone.
LEMMA AckedStays ==
  ASSUME IngressInv,
         \A c \in Deliveries : /\ (answer'[c] = "200") = (answer[c] = "200")
                               /\ answer[c] = "200" => SameFinds(c)
  PROVE  Acked' = Acked
<1>1. \A c \in Deliveries : answer[c] = "200" => Key(c)' = Key(c)
  BY DEF SameFinds, Key, ExternalId
<1> QED
  BY <1>1 DEF Acked

LEMMA CommitRefined ==
  ASSUME IngressInv, NEW d \in Deliveries, Commit(d)
  PROVE  Kept!Keep \/ UNCHANGED <<rows, Acked>>
<1>1. UNCHANGED Acked
  <2>1. \A c \in Deliveries : answer'[c] = answer[c] /\ SameFinds(c)
    BY DEF Commit, SameFinds
  <2> QED
    BY <2>1, AckedStays
<1>2. CASE ~inserted[d]
  BY <1>1, <1>2 DEF Commit
<1>3. CASE inserted[d]
  <2>1. RowOf(d) \in Rows /\ rows' = rows \cup {RowOf(d)}
    BY <1>3, AddedRowTyped DEF Commit
  <2>2. ~KeyCommitted(d)
    BY <1>3 DEF IngressInv, HandlersSound, HandlerSound
  <2>3. \A old \in rows : ~Kept!SameRowKey(RowOf(d), old)
    BY <2>2 DEF KeyCommitted, Kept!SameRowKey, RowOf
  <2> QED
    BY <1>1, <2>1, <2>3 DEF Kept!Keep, Acked
<1> QED
  BY <1>2, <1>3

LEMMA ReplyRefined ==
  ASSUME IngressInv, NEW d \in Deliveries, Reply(d)
  PROVE  Kept!Acknowledge
<1> USE DEF IngressInv, TypeOK
<1>1. /\ \A c \in Deliveries : SameFinds(c)
      /\ \A c \in Deliveries : answer'[c] = "200" <=> c = d \/ answer[c] = "200"
      /\ UNCHANGED rows
      /\ stage[d] = "committed"
  BY DEF Reply, RollBack, SameFinds
<1>2. \A c \in Deliveries : Key(c)' = Key(c)
  BY <1>1 DEF SameFinds, Key, ExternalId
<1>3. Acked' = Acked \cup {Key(d)}
  BY <1>1, <1>2 DEF Acked
<1>4. PICK row \in rows : row.instance = instance[d] /\ row.id = ExternalId(d)
  BY <1>1 DEF HandlersSound, HandlerSound, KeyCommitted
<1>5. Acked' = Acked \cup {[instance |-> row.instance, id |-> row.id]}
  BY <1>3, <1>4 DEF Key
<1> QED
  BY <1>1, <1>5 DEF Kept!Acknowledge, Acked

LEMMA NextRefined == IngressInv /\ [Next]_vars => [Kept!InboxNext]_<<rows, Acked>>
<1> SUFFICES ASSUME IngressInv, [Next]_vars
             PROVE  Kept!InboxNext \/ UNCHANGED <<rows, Acked>>
  OBVIOUS
<1> USE DEF IngressInv, TypeOK
<1>1. CASE \/ Tick \/ UNCHANGED vars \/ (\E v \in Versions : SetActive(v))
           \/ \E i \in Instances : PutSecret(i) \/ Activate(i)
  <2>1. UNCHANGED <<handlerVars, rows>>
    BY <1>1 DEF Tick, SetActive, PutSecret, Activate, vars
  <2> QED
    BY <2>1, AckedStays DEF handlerVars, SameFinds
<1>2. ASSUME NEW d \in Deliveries,
             Arrive(d) \/ Resolve(d) \/ ReadSecret(d) \/ Verify(d) \/ Add(d) \/ Fails(d)
      PROVE  UNCHANGED <<rows, Acked>>
  <2>1. UNCHANGED rows
    BY <1>2 DEF Arrive, Resolve, ReadSecret, Verify, Add, Fails
  <2>2. answer[d] # "200"
    BY <1>2 DEF HandlersSound, HandlerSound, Arrive, Resolve, ReadSecret, Verify, Add, Fails
  <2>3. answer' = answer \/ \E code \in {"401", "404", "500"} : answer' = [answer EXCEPT ![d] = code]
    BY <1>2 DEF Arrive, Resolve, ReadSecret, Verify, Add, Fails, RollBack
  <2>4. \A c \in Deliveries \ {d} : SameFinds(c)
    BY <1>2 DEF Arrive, Resolve, ReadSecret, Verify, Add, Fails, SameFinds
  <2> QED
    BY <2>1, <2>2, <2>3, <2>4, AckedStays
<1> QED
  BY <1>1, <1>2, CommitRefined, ReplyRefined
     DEF Next, HandlerStep, Kept!InboxNext

\* The table implements the inbox: a key is kept once, and only what is kept is
\* acknowledged.
THEOREM IngressImplementsInbox == Spec => ImplementsInbox
<1>1. Init => Kept!InboxInit
  BY InboxInitRefined
<1>2. IngressInv /\ [Next]_vars => [Kept!InboxNext]_(Kept!inboxVars)
  BY NextRefined DEF Kept!inboxVars, Acked
<1> QED
  BY <1>1, <1>2, InvHolds, PTL DEF Spec, ImplementsInbox, Kept!InboxSpec
=============================================================================
