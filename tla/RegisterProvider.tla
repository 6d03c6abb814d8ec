--------------------------- MODULE RegisterProvider ---------------------------
(***************************************************************************)
(* RegisterProviderUseCase.execute (application/commands/                  *)
(* register_provider.py) behind POST /v1/providers: validate, then write   *)
(* the manifest and the instance in one database transaction and, inside   *)
(* it, the secrets to a store that takes no part in the transaction; then  *)
(* probe the provider.  Registrations run side by side and may stop at any *)
(* await.                                                                  *)
(***************************************************************************)
CONSTANTS Registrations, \* the POST /v1/providers requests
          Accounts,      \* a provider code with an account alias: one secret_ref
          Versions,      \* provider.version of the manifests
          Names,         \* names of secrets
          Needs,         \* Needs[v]: auth.secrets of version v
          StoreMerges,   \* InMemorySecretStore merges a put, VaultSecretStore replaces
          None

ASSUME RegistrationAssumption == /\ Needs \in [Versions -> SUBSET Names]
                                 /\ StoreMerges \in BOOLEAN
                                 /\ None \notin Registrations

Commands == [account: Accounts, version: Versions, supplied: SUBSET Names, probe: BOOLEAN]

VARIABLES stage,     \* stage[r]: where registration r stands, at last its answer
          cmd,       \* cmd[r]: its command, once it passed validation
          instances, \* the committed, active instances: <<account, version>>
          bag        \* bag[a][n]: the registration whose value of secret n is stored

registerVars == <<stage, cmd, instances, bag>>

Stages == {"new", "valid", "upserted", "written", "probing", "201", "400", "500"}

RegisterInit == /\ stage = [r \in Registrations |-> "new"]
                /\ cmd = [r \in Registrations |-> None]
                /\ instances = {}
                /\ bag = [a \in Accounts |-> [n \in Names |-> None]]

\* The manifest is invalid, a secret is missing or a template fails its dry run.
Refuse(r) == /\ stage[r] = "new"
             /\ stage' = [stage EXCEPT ![r] = "400"]
             /\ UNCHANGED <<cmd, instances, bag>>

\* validate_manifest_dict, _check_secrets_supplied and _dry_run_templates pass.
\* probe: run_healthcheck is set and the manifest declares the operation.
Accept(r, c) == /\ stage[r] = "new"
                /\ Needs[c.version] \subseteq c.supplied
                /\ stage' = [stage EXCEPT ![r] = "valid"]
                /\ cmd' = [cmd EXCEPT ![r] = c]
                /\ UNCHANGED <<instances, bag>>

InstanceOf(r) == <<cmd[r].account, cmd[r].version>>

\* A mutant of OpenTransaction: every statement commits by itself.
OpenTransactionNever(r) == FALSE

\* A mutant of OpenTransaction: an exception leaves it open.
OpenTransactionLeaks(r) == stage[r] \in {"upserted", "written", "500"}

\* async with uow_factory(): from the first write to the commit or the rollback.
OpenTransaction(r) == stage[r] \in {"upserted", "written"}

\* No open transaction has upserted the manifest row of r: UNIQUE (code, version)
\* makes the second one wait.  Accounts of one provider share the row.
RowFree(r) ==
    \A q \in Registrations :
        OpenTransaction(q) => cmd[q].version # cmd[r].version

\* A mutant of Upsert: the writes commit before the secrets are stored.
UpsertCommitted(r) == /\ stage[r] = "valid"
                      /\ RowFree(r)
                      /\ stage' = [stage EXCEPT ![r] = "upserted"]
                      /\ instances' = instances \cup {InstanceOf(r)}
                      /\ UNCHANGED <<cmd, bag>>

\* upsert_manifest and upsert_instance, in the open transaction.
Upsert(r) == /\ stage[r] = "valid"
             /\ RowFree(r)
             /\ stage' = [stage EXCEPT ![r] = "upserted"]
             /\ UNCHANGED <<cmd, instances, bag>>

\* put_many: dict.update for the one store, a new version of the secret for the other.
Put(old, r, names) ==
    [n \in Names |-> IF n \in names THEN r ELSE IF StoreMerges THEN old[n] ELSE None]

\* The secrets are stored, whatever becomes of the transaction.
WriteSecrets(r) ==
    /\ stage[r] = "upserted"
    /\ stage' = [stage EXCEPT ![r] = "written"]
    /\ bag' = [bag EXCEPT ![cmd[r].account] = Put(@, r, cmd[r].supplied)]
    /\ UNCHANGED <<cmd, instances>>

\* The unit of work commits.  The health check, if any, comes after it.
Commit(r) == /\ stage[r] = "written"
             /\ instances' = instances \cup {InstanceOf(r)}
             /\ stage' = [stage EXCEPT ![r] = IF cmd[r].probe THEN "probing" ELSE "201"]
             /\ UNCHANGED <<cmd, bag>>

\* _healthcheck: an answer with a 2xx status, whatever success_when says of it, is
\* good; HttpEgressError is not.
Probe(r) == /\ stage[r] = "probing"
            /\ \E answer \in {"201", "400"} : stage' = [stage EXCEPT ![r] = answer]
            /\ UNCHANGED <<cmd, instances, bag>>

\* A statement, the store or the commit raises, the probe raises anything else, or the
\* process stops: what is not committed is rolled back, the secrets are not.
Fails(r) == /\ stage[r] \in {"valid", "upserted", "written", "probing"}
            /\ stage' = [stage EXCEPT ![r] = "500"]
            /\ UNCHANGED <<cmd, instances, bag>>

RegisterStep(r) == \/ Upsert(r) \/ WriteSecrets(r) \/ Commit(r) \/ Probe(r)

RegisterNext == \E r \in Registrations : \/ Refuse(r)
                                         \/ \E c \in Commands : Accept(r, c)
                                         \/ RegisterStep(r)
                                         \/ Fails(r)

\* Every await of a registration that waits for no row lock returns or raises.
RegisterFairness == \A r \in Registrations : WF_registerVars(RegisterStep(r))

RegisterSpec == RegisterInit /\ [][RegisterNext]_registerVars /\ RegisterFairness

-----------------------------------------------------------------------------
\* The shape of the tables and of the store; a registration past validation has a
\* command with every secret its manifest needs.
RegisterTypeOK ==
    /\ stage \in [Registrations -> Stages]
    /\ cmd \in [Registrations -> Commands \cup {None}]
    /\ \A r \in Registrations : stage[r] \notin {"new", "400"} =>
           cmd[r] \in Commands /\ Needs[cmd[r].version] \subseteq cmd[r].supplied
    /\ instances \subseteq Accounts \X Versions
    /\ bag \in [Accounts -> [Names -> Registrations \cup {None}]]

\* Whoever finds an active instance finds the secrets its manifest names: put_many
\* precedes the commit, and what it wrote stays there (create_payment.py reads the
\* instance first and then the secrets).
InstancesHaveSecrets ==
    \A i \in instances : \A n \in Needs[i[2]] : bag[i[1]][n] # None

\* Registrations that rotate the secrets of one instance at once do not interleave: at
\* its commit the store has the values that came with it, except for those a
\* registration of another version has written (the upsert comes before put_many,
\* and its row lock lasts until the commit).
CommitsItsOwnSecrets ==
    [][\A r \in Registrations :
          stage[r] = "written" /\ stage'[r] \in {"probing", "201"} =>
              \A n \in cmd[r].supplied :
                  LET writer == bag[cmd[r].account][n] IN
                  writer # r => /\ writer \in Registrations
                                /\ cmd[writer].version # cmd[r].version]_registerVars

\* A registration that was accepted is answered: waiting for the row of another one
\* ends, whether that one commits or not.
RegistrationsEnd ==
    \A r \in Registrations : stage[r] = "valid" ~> stage[r] \in {"201", "400", "500"}

-----------------------------------------------------------------------------
\* "New manifests run through schema + semantic validation + dry-run + optional
\* healthcheck before persistence" (ARCHITECTURE.md:418; docs/manifest-spec.md:288
\* has steps 1-4 before manifests "hit the database"): a registration whose probe failed
\* has left no instance behind that no other registration wrote.
ProbedBeforePersisted ==
    \A r \in Registrations :
        stage[r] = "400" /\ cmd[r] # None /\ InstanceOf(r) \in instances =>
            \E q \in Registrations \ {r} : cmd[q] # None /\ InstanceOf(q) = InstanceOf(r)
=============================================================================
