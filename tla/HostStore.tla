----------------------------- MODULE HostStore -----------------------------
(***************************************************************************)
(* Host records and their credentials: the commands that create, edit,     *)
(* delete and import hosts, each a sequence of store and keyring calls     *)
(* that another command, a failure or a connect may fall between.  The     *)
(* store's lock makes one call atomic, never a command.                    *)
(***************************************************************************)
EXTENDS Credentials, Naturals, FiniteSets, FiniteSetsExt

CONSTANTS
    Ids,            \* bound on the row ids
    Chains,         \* [auth, auth_fallbacks]: what the form and an import may set
    Workers,        \* commands that may be under way at once
    MaxBirths,      \* bound: hosts ever created
    MaxCommands     \* bound: commands ever started

ASSUME HostStoreConstants ==
    /\ Ids \subseteq Nat \ {0} /\ MaxBirths \in Nat /\ MaxCommands \in Nat
    /\ \A c \in Chains : c.auth \in Kinds /\ \A n \in DOMAIN c.auth_fallbacks : c.auth_fallbacks[n] \in Kinds

VARIABLES
    rows,       \* hosts: id -> record; born tells one host from the next that has its id
    keyring,    \* the host each stored secret was typed for, by account
    job,        \* per worker: the command under way, its step and the record it holds
    births, commands,
    failed,     \* ghost: some keyring or store call has failed
    overlapped  \* ghost: two commands on one row id have overlapped
vars == <<rows, keyring, job, births, commands, failed, overlapped>>

Idle == [step |-> "idle"]
Sources == {"manual", "ssh_config"}

Init ==
    /\ rows = <<>> /\ keyring = [locked |-> FALSE, entries |-> <<>>]
    /\ job = [w \in Workers |-> Idle]
    /\ births = 0 /\ commands = 0 /\ failed = FALSE /\ overlapped = FALSE

\* A row id is one more than the largest in use, so the last one deleted is next.
NewId == 1 + Max(DOMAIN rows \union {0})
Put(table, key, value) == [k \in DOMAIN table \union {key} |-> IF k = key THEN value ELSE table[k]]
Without(table, keys) == [k \in DOMAIN table \ keys |-> table[k]]

Busy(w, id) == \E v \in Workers \ {w} : job[v].step # "idle" /\ job[v].id = id
Starts(w) == job[w].step = "idle" /\ commands < MaxCommands /\ commands' = commands + 1
Touches(w, id) == overlapped' = (overlapped \/ Busy(w, id))
Become(w, j) == job' = [job EXCEPT ![w] = j]
\* host is the record the command holds, form the host its form was opened for.
Job(step, id, host, form) == [step |-> step, id |-> id, host |-> host, form |-> form]
NoHost == <<>>
WithChain(host, chain) == [host EXCEPT !.auth = chain.auth, !.auth_fallbacks = chain.auth_fallbacks]

\* A new row never has a secret_ref.
Draft(id, chain, source) ==
    [id |-> id, born |-> births + 1, auth |-> chain.auth, auth_fallbacks |-> chain.auth_fallbacks,
     secret_ref |-> NoAccount, source |-> source]

-----------------------------------------------------------------------------
(* create_host and update_host, and the secret steps both end in.           *)

\* The row and its tags; a failure in between leaves the row and ends the command.
CreateHost(w, chain, secret) ==
    /\ Starts(w) /\ births < MaxBirths /\ NewId \in Ids
    /\ rows' = Put(rows, NewId, Draft(NewId, chain, "manual")) /\ births' = births + 1
    /\ Touches(w, NewId)
    /\ \/ Become(w, IF secret = "set" THEN Job("open set", NewId, NoHost, births + 1) ELSE Idle) /\ UNCHANGED failed
       \/ Become(w, Idle) /\ failed' = TRUE
    /\ UNCHANGED keyring

\* get: the whole record is read, secret_ref included.
UpdateRead(w, id) ==
    /\ Starts(w) /\ id \in DOMAIN rows
    /\ Become(w, Job("edit", id, rows[id], rows[id].born)) /\ Touches(w, id)
    /\ UNCHANGED <<rows, keyring, births, failed>>

\* update writes it back whole, with the form's fields; the row may be gone, and
\* set_tags may fail behind it, which ends the command before the secret.
UpdateWrite(w, chain, secret) ==
    /\ job[w].step = "edit"
    /\ LET host == WithChain(job[w].host, chain)
       IN  \/ /\ host.id \in DOMAIN rows
              /\ rows' = Put(rows, host.id, host) /\ UNCHANGED failed
              /\ Become(w, CASE secret = "unchanged" -> Idle
                             [] secret = "set" -> Job("open set", host.id, NoHost, host.born)
                             [] OTHER -> Job("open clear", host.id, NoHost, host.born))
           \/ /\ Become(w, Idle) /\ failed' = TRUE
              /\ \/ UNCHANGED rows
                 \/ host.id \in DOMAIN rows /\ rows' = Put(rows, host.id, host)
    /\ UNCHANGED <<keyring, births, commands, overlapped>>

\* store_secret_for and clear_secret_for read the record again, and have nothing
\* to do for a chain without a credential, or a record without a secret_ref.
SecretRead(w) ==
    /\ job[w].step \in {"open set", "open clear"}
    /\ LET id == job[w].id
           sets == job[w].step = "open set"
           account == IF sets THEN account_for(rows[id]) ELSE rows[id].secret_ref
       IN  Become(w, IF id \notin DOMAIN rows \/ account = NoAccount THEN Idle
                     ELSE Job(IF sets THEN "set" ELSE "clear", id, rows[id], job[w].form))
    /\ UNCHANGED <<rows, keyring, births, commands, failed, overlapped>>

\* Mutant: a keyring that refuses the secret does not keep it off the record.
SetSecret_IgnoresFailure(w) ==
    /\ job[w].step = "set"
    /\ LET account == account_for(job[w].host)
       IN  /\ Become(w, Job("write", job[w].id, [job[w].host EXCEPT !.secret_ref = account], job[w].form))
           /\ \/ keyring' = [keyring EXCEPT !.entries = Put(@, account, job[w].form)] /\ UNCHANGED failed
              \/ failed' = TRUE /\ UNCHANGED keyring
    /\ UNCHANGED <<rows, births, commands, overlapped>>
\* set_secret under the account of the chain, the reference still to be written.
SetSecret(w) ==
    /\ job[w].step = "set"
    /\ LET account == account_for(job[w].host)
       IN  \/ /\ keyring' = [keyring EXCEPT !.entries = Put(@, account, job[w].form)]
              /\ Become(w, Job("write", job[w].id, [job[w].host EXCEPT !.secret_ref = account], job[w].form))
              /\ UNCHANGED failed
           \/ Become(w, Idle) /\ failed' = TRUE /\ UNCHANGED keyring
    /\ UNCHANGED <<rows, births, commands, overlapped>>

\* clear_secret removes the account on record; a missing entry is success.
ClearSecret(w) ==
    /\ job[w].step = "clear"
    /\ \/ /\ keyring' = [keyring EXCEPT !.entries = Without(@, {job[w].host.secret_ref})]
          /\ Become(w, Job("write", job[w].id, [job[w].host EXCEPT !.secret_ref = NoAccount], job[w].form))
          /\ UNCHANGED failed
       \/ Become(w, Idle) /\ failed' = TRUE /\ UNCHANGED keyring
    /\ UNCHANGED <<rows, births, commands, overlapped>>

\* The record is written back whole.
WriteBack(w) ==
    /\ job[w].step = "write"
    /\ Become(w, Idle)
    /\ \/ job[w].id \in DOMAIN rows /\ rows' = Put(rows, job[w].id, job[w].host) /\ UNCHANGED failed
       \/ failed' = TRUE /\ UNCHANGED rows
    /\ UNCHANGED <<keyring, births, commands, overlapped>>

-----------------------------------------------------------------------------
(* delete_host.                                                             *)

\* Mutant: the account on record is cleared, and no other.
AccountsOf_OnRecord(id) == {rows[id].secret_ref}
\* Both accounts are cleared by id, whatever the record says.
AccountsOf(id) == {password_account(id), passphrase_account(id)}

\* A keyring failure does not block the delete: any of the entries may stay.
DeleteClear(w, id) ==
    /\ Starts(w) /\ id \in DOMAIN rows
    /\ \E stuck \in SUBSET (AccountsOf(id) \intersect DOMAIN keyring.entries) :
          /\ keyring' = [keyring EXCEPT !.entries = Without(@, AccountsOf(id) \ stuck)]
          /\ failed' = (failed \/ stuck # {})
    /\ Become(w, Job("delete", id, rows[id], rows[id].born)) /\ Touches(w, id)
    /\ UNCHANGED <<rows, births>>

\* The row goes last; a store that refuses leaves it, without its secrets.
DeleteRow(w) ==
    /\ job[w].step = "delete" /\ Become(w, Idle)
    /\ \/ rows' = Without(rows, {job[w].id}) /\ UNCHANGED failed
       \/ failed' = TRUE /\ UNCHANGED rows
    /\ UNCHANGED <<keyring, births, commands, overlapped>>

-----------------------------------------------------------------------------
(* Importing one alias of ssh_config.                                       *)

\* Mutant: a hand-made host of that name is taken for an imported one.
Imported_AnySource == DOMAIN rows
\* find_by_source_alias: hosts the user made by hand are not looked at.
Imported == {id \in DOMAIN rows : rows[id].source = "ssh_config"}

ImportFind(w, chain) ==
    /\ Starts(w) /\ chain.auth # "password" /\ chain.auth_fallbacks = <<>>
    /\ IF Imported = {}
       THEN Become(w, Job("import", 0, chain, 0)) /\ UNCHANGED overlapped
       ELSE \E id \in Imported :
              /\ Become(w, Job("reimport", id, [rows[id] EXCEPT !.auth = chain.auth], rows[id].born))
              /\ Touches(w, id)
    /\ UNCHANGED <<rows, keyring, births, failed>>

\* The unique index on the alias refuses a second row for it.
ImportCreate(w) ==
    /\ job[w].step = "import" /\ Become(w, Idle)
    /\ IF Imported = {} /\ births < MaxBirths /\ NewId \in Ids
       THEN /\ rows' = Put(rows, NewId, Draft(NewId, job[w].host, "ssh_config")) /\ births' = births + 1
            /\ Touches(w, NewId) /\ UNCHANGED failed
       ELSE failed' = TRUE /\ UNCHANGED <<rows, births, overlapped>>
    /\ UNCHANGED <<keyring, commands>>

\* The file's settings replace the record's; name, fallbacks and secret_ref stay.
ImportUpdate(w) ==
    /\ job[w].step = "reimport" /\ Become(w, Idle)
    /\ \/ job[w].id \in DOMAIN rows /\ rows' = Put(rows, job[w].id, job[w].host) /\ UNCHANGED failed
       \/ failed' = TRUE /\ UNCHANGED rows
    /\ UNCHANGED <<keyring, births, commands, overlapped>>

Finished == commands = MaxCommands /\ \A w \in Workers : job[w].step = "idle"
Rest == Finished /\ UNCHANGED vars

Next ==
    \/ Rest
    \/ \E w \in Workers :
        \/ \E chain \in Chains, secret \in {"unchanged", "set"} : CreateHost(w, chain, secret)
        \/ \E chain \in Chains, secret \in {"unchanged", "set", "clear"} : UpdateWrite(w, chain, secret)
        \/ \E id \in Ids : UpdateRead(w, id) \/ DeleteClear(w, id)
        \/ \E chain \in Chains : ImportFind(w, chain)
        \/ SecretRead(w) \/ SetSecret(w) \/ ClearSecret(w) \/ WriteBack(w)
        \/ DeleteRow(w) \/ ImportCreate(w) \/ ImportUpdate(w)

Spec == Init /\ [][Next]_vars

-----------------------------------------------------------------------------
\* Types; a record's secret_ref is empty or one of the two accounts of its own id.
TypeOK ==
    /\ DOMAIN rows \subseteq Ids
    /\ \A id \in DOMAIN rows :
          /\ rows[id].id = id /\ rows[id].born \in 1 .. MaxBirths /\ rows[id].source \in Sources
          /\ rows[id].secret_ref \in AccountsOf(id) \union {NoAccount}
    /\ DOMAIN keyring.entries \subseteq Ids \X SecretKinds
    /\ \A a \in DOMAIN keyring.entries : keyring.entries[a] \in 1 .. MaxBirths

\* A connect never sends the secret of another host: whatever calls failed, and
\* although a new row takes over the id, and with it the accounts, of a deleted
\* one, the secret that a record resolves to was typed for that record.
OwnSecret ==
    /\ TypeOK
    /\ ~overlapped => \A id \in DOMAIN rows :
        AccountRead(rows[id]) \in DOMAIN keyring.entries => keyring.entries[AccountRead(rows[id])] = rows[id].born

\* Deleting a host leaves nothing in the keyring, even when its method of
\* authentication changed over its life (store_commands.rs, delete_host).
NothingStranded ==
    ~overlapped /\ ~failed => \A a \in DOMAIN keyring.entries : a[1] \in DOMAIN rows

\* When no command is under way and none has failed, a record that claims a
\* stored credential has one: the form's "saved" is true.
RefIsTrue ==
    (\A w \in Workers : job[w].step = "idle") /\ ~failed /\ ~overlapped =>
        \A id \in DOMAIN rows : rows[id].secret_ref # NoAccount => rows[id].secret_ref \in DOMAIN keyring.entries

\* Records and keyring stay in step: no secret without a host, and no record that
\* claims a secret it does not have.
KeyringInStep == NothingStranded /\ RefIsTrue

\* An import never touches a host that was made by hand, and never makes a second
\* row for its alias (ssh_config/mod.rs, apply).
ImportKeepsToItself ==
    [][~overlapped /\ (\E w \in Workers : job[w].step \in {"import", "reimport"} /\ job'[w].step = "idle") =>
        /\ \A id \in DOMAIN rows : rows[id].source = "manual" => rows'[id] = rows[id]
        /\ Cardinality(Imported') <= 1]_vars

\* What ADR-0018 says: secret_ref marks that a credential is stored, and the
\* account that is read at connect follows from the chain.
AccountFollowsChain ==
    ~overlapped /\ ~failed =>
        \A id \in DOMAIN rows : AccountRead(rows[id]) \in DOMAIN keyring.entries /\ account_for(rows[id]) # NoAccount =>
            AccountRead(rows[id]) = account_for(rows[id])

=============================================================================
