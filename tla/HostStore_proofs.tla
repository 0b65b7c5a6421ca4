---------------------------- MODULE HostStore_proofs ----------------------------
(***************************************************************************)
(* Proofs about module HostStore, for any number of workers, hosts and     *)
(* commands, and any set of authentication chains.                         *)
(***************************************************************************)
EXTENDS HostStore, FiniteSetTheorems, WellFoundedInduction, TLAPS

Fallbacks == {c.auth_fallbacks : c \in Chains}
Refs(id) == AccountsOf(id) \union {NoAccount}
HostRecords(id) ==
    [id : {id}, born : 1 .. MaxBirths, auth : Kinds, auth_fallbacks : Fallbacks, secret_ref : Refs(id),
     source : Sources]

\* A command past its first step holds a row id, and at most of these steps a record of it.
RecordSteps == {"edit", "set", "clear", "write", "delete", "reimport"}
OpenSteps == {"open set", "open clear"}
HeldSteps == RecordSteps \union OpenSteps
Held(w) == job[w].step \in HeldSteps

JobShape(w) ==
    /\ job[w].step \in HeldSteps \union {"idle", "import"}
    /\ job[w].step = "import" => job[w].host \in Chains /\ job[w].id = 0
    /\ Held(w) => job[w].id \in Ids /\ job[w].form \in 1 .. MaxBirths
    /\ job[w].step \in RecordSteps => job[w].host \in HostRecords(job[w].id)
    /\ job[w].step = "set" => account_for(job[w].host) \in AccountsOf(job[w].id)

\* A row id is at most the number of hosts ever created, which is why one more
\* than the largest is an id nobody uses.
RowShape ==
    /\ births \in 0 .. MaxBirths
    /\ DOMAIN rows \subseteq Ids /\ DOMAIN rows \subseteq 1 .. births
    /\ \A id \in DOMAIN rows : rows[id] \in HostRecords(id)

KeyringShape ==
    /\ keyring = [locked |-> FALSE, entries |-> keyring.entries]
    /\ DOMAIN keyring.entries \subseteq Ids \X SecretKinds
    /\ \A a \in DOMAIN keyring.entries : keyring.entries[a] \in 1 .. MaxBirths

Shapes ==
    /\ job = [w \in Workers |-> job[w]] /\ \A w \in Workers : JobShape(w)
    /\ RowShape /\ KeyringShape
    /\ overlapped \in BOOLEAN /\ failed \in BOOLEAN

\* What a command knows of the row it holds: nobody else has touched it since.
Holds(w) ==
    LET id == job[w].id
        host == job[w].host
    IN  Held(w) =>
        /\ id \in DOMAIN rows /\ rows[id].born = job[w].form
        /\ job[w].step \in RecordSteps => host.born = rows[id].born /\ host.source = rows[id].source
        /\ job[w].step \in RecordSteps \ {"write"} => host.secret_ref = rows[id].secret_ref
        /\ job[w].step = "reimport" => host.source = "ssh_config"
        /\ job[w].step = "write" =>
              \/ host.secret_ref = NoAccount
              \/ host.secret_ref \in DOMAIN keyring.entries /\ keyring.entries[host.secret_ref] = job[w].form
        /\ job[w].step = "delete" /\ ~failed => AccountsOf(id) \intersect DOMAIN keyring.entries = {}

\* One row id and its two accounts: the secret a record names was typed for it;
\* no entry without a row; and a reference is true unless a command is about to
\* write the record back or to delete it.
Settled(id) == \A w \in Workers : job[w].step \in {"write", "delete"} => job[w].id # id
IdGood(id) ==
    /\ id \in DOMAIN rows /\ rows[id].secret_ref \in DOMAIN keyring.entries =>
          keyring.entries[rows[id].secret_ref] = rows[id].born
    /\ ~failed => \A a \in AccountsOf(id) : a \in DOMAIN keyring.entries => id \in DOMAIN rows
    /\ ~failed /\ Settled(id) /\ id \in DOMAIN rows =>
          rows[id].secret_ref \in DOMAIN keyring.entries \union {NoAccount}

Distinct == \A v, w \in Workers : v # w /\ Held(v) /\ Held(w) => job[v].id # job[w].id
OneImport == \A i, j \in Imported : i = j

Apart ==
    /\ Distinct /\ OneImport
    /\ \A w \in Workers : Holds(w)
    /\ \A id \in Ids : IdGood(id)

IInv == Shapes /\ (~overlapped => Apart)

-----------------------------------------------------------------------------
(* Row ids.                                                                 *)

\* Numbers up to a bound have a largest.
LEMMA MaxOfBounded ==
    ASSUME NEW n \in Nat, NEW S, S \subseteq 0 .. n, S # {}
    PROVE  Max(S) \in S /\ \A y \in S : Max(S) >= y
<1> DEFINE Bounds == {u \in Nat : \A y \in S : u >= y}
<1> DEFINE Less == {ss \in Nat \X Nat : ss[1] < ss[2]}
<1>1. n \in Bounds /\ Bounds \subseteq Nat
  OBVIOUS
<1>0. IsWellFoundedOn(Less, Nat)
  BY NatLessThanWellFounded, Zenon DEF OpToRel
<1> HIDE DEF Bounds, Less
<1>2. PICK m \in Bounds : \A u \in Bounds : ~ (<<u, m>> \in Less)
  BY <1>0, <1>1, WFMin, Zenon
<1> USE DEF Bounds, Less
<1>3. ASSUME NEW u \in Bounds, u < m
      PROVE  FALSE
  <2>1. u \in Nat /\ m \in Nat
    OBVIOUS
  <2>2. <<u, m>>[1] = u /\ <<u, m>>[2] = m /\ <<u, m>> \in Nat \X Nat
    BY <2>1
  <2>3. <<u, m>> \in Less
    BY <1>3, <2>2
  <2> QED
    BY <1>2, <2>3, Zenon
<1>4. m \in S
  <2>1. SUFFICES ASSUME m \notin S PROVE FALSE
    OBVIOUS
  <2>2. PICK y \in S : y \in Nat /\ y <= m
    <3>1. PICK y \in S : TRUE
      OBVIOUS
    <3>2. y \in Nat /\ m >= y
      BY <3>1
    <3> QED
      BY <3>1, <3>2
  <2>3. m - 1 \in Nat /\ \A z \in S : m - 1 >= z
    BY <2>1, <2>2
  <2>4. m - 1 \in Bounds
    BY <2>3
  <2> QED
    BY <1>3, <2>3, <2>4
<1>5. \E x \in S : \A y \in S : x >= y
  BY <1>4
<1> QED
  BY <1>5 DEF Max

\* An insert takes an id no row has, and ids stay within the number of hosts made.
LEMMA NewIdIsNew ==
    ASSUME Shapes
    PROVE  NewId \notin DOMAIN rows /\ NewId \in 1 .. births + 1
<1>1. births \in Nat /\ DOMAIN rows \union {0} \subseteq 0 .. births
  BY HostStoreConstants DEF Shapes, RowShape
<1>2. /\ Max(DOMAIN rows \union {0}) \in DOMAIN rows \union {0}
      /\ \A y \in DOMAIN rows \union {0} : Max(DOMAIN rows \union {0}) >= y
  BY <1>1, MaxOfBounded
<1>3. PICK m \in 0 .. births : m = Max(DOMAIN rows \union {0})
  BY <1>1, <1>2
<1>4. NewId = m + 1 /\ \A y \in DOMAIN rows : m >= y /\ y \in Nat
  BY <1>1, <1>2, <1>3 DEF NewId
<1> QED
  BY <1>1, <1>3, <1>4

-----------------------------------------------------------------------------
(* Tables, accounts and jobs.                                               *)

\* A table without some keys is the same table on the others.
LEMMA WithoutLemma ==
    ASSUME NEW table, NEW keys
    PROVE  /\ DOMAIN Without(table, keys) = DOMAIN table \ keys
           /\ \A k \in DOMAIN table \ keys : Without(table, keys)[k] = table[k]
BY DEF Without

\* An account tells whose it is.
LEMMA AccountsApart ==
    ASSUME NEW i, NEW k, NEW a \in AccountsOf(i), a \in AccountsOf(k)
    PROVE  i = k
BY DEF AccountsOf, password_account, passphrase_account

\* The accounts of a host are keyring accounts that carry its id.
LEMMA AccountsTyped ==
    /\ \A i \in Ids : AccountsOf(i) \subseteq Ids \X SecretKinds
    /\ \A a \in Ids \X SecretKinds : a[1] \in Ids /\ a \in AccountsOf(a[1])
    /\ \A i : \A a \in AccountsOf(i) : a[1] = i
<1>1. \A i \in Ids : AccountsOf(i) \subseteq Ids \X SecretKinds
  BY DEF AccountsOf, password_account, passphrase_account, SecretKinds
<1>2. \A a \in Ids \X SecretKinds : a[1] \in Ids /\ a \in AccountsOf(a[1])
  <2> TAKE a \in Ids \X SecretKinds
  <2>1. PICK i \in Ids, s \in SecretKinds : a = <<i, s>>
    OBVIOUS
  <2>2. a[1] = i
    BY <2>1
  <2>3. <<i, s>> \in AccountsOf(i)
    BY DEF AccountsOf, password_account, passphrase_account, SecretKinds
  <2> QED
    BY <2>1, <2>2, <2>3
<1>3. \A i : \A a \in AccountsOf(i) : a[1] = i
  BY DEF AccountsOf, password_account, passphrase_account
<1> QED
  BY <1>1, <1>2, <1>3

\* account_for names an account of the host, or none.
LEMMA AccountForTyped ==
    ASSUME NEW host
    PROVE  account_for(host) \in AccountsOf(host.id) \union {NoAccount}
BY DEF account_for, AccountsOf

\* The fields of a worker's job.
LEMMA JobLemma ==
    ASSUME NEW step, NEW id, NEW host, NEW form
    PROVE  /\ Job(step, id, host, form).step = step /\ Job(step, id, host, form).id = id
           /\ Job(step, id, host, form).host = host /\ Job(step, id, host, form).form = form
BY DEF Job

\* A worker that takes up a job leaves the jobs of the others.
LEMMA BecomeLemma ==
    ASSUME Shapes, NEW w \in Workers, NEW j, Become(w, j)
    PROVE  /\ job' = [v \in Workers |-> job'[v]] /\ job'[w] = j
           /\ \A v \in Workers \ {w} : job'[v] = job[v]
<1>1. job = [v \in Workers |-> job[v]] /\ job' = [job EXCEPT ![w] = j]
  BY DEF Shapes, Become
<1> QED
  BY <1>1

\* The keyring with its entries replaced.
LEMMA KeyringLemma ==
    ASSUME Shapes, NEW e
    PROVE  /\ [keyring EXCEPT !.entries = e] = [locked |-> FALSE, entries |-> e]
           /\ [keyring EXCEPT !.entries = e].entries = e
<1>1. \A l, f : /\ [[locked |-> l, entries |-> f] EXCEPT !.entries = e] = [locked |-> l, entries |-> e]
               /\ [locked |-> l, entries |-> e].entries = e
  OBVIOUS
<1>2. PICK f : keyring = [locked |-> FALSE, entries |-> f]
  BY Zenon DEF Shapes, KeyringShape
<1> QED
  BY <1>1, <1>2, Zenon

\* Records with one field replaced.
LEMMA RecordLemma ==
    ASSUME NEW id, NEW host \in HostRecords(id)
    PROVE  /\ host.id = id /\ host.born \in 1 .. MaxBirths /\ host.source \in Sources
           /\ host.secret_ref \in Refs(id)
           /\ \A a \in Refs(id) : /\ [host EXCEPT !.secret_ref = a] \in HostRecords(id)
                                  /\ [host EXCEPT !.secret_ref = a].secret_ref = a
                                  /\ [host EXCEPT !.secret_ref = a].born = host.born
                                  /\ [host EXCEPT !.secret_ref = a].source = host.source
           /\ \A c \in Chains : /\ WithChain(host, c) \in HostRecords(id)
                                /\ WithChain(host, c).secret_ref = host.secret_ref
                                /\ WithChain(host, c).born = host.born
                                /\ WithChain(host, c).source = host.source
           /\ \A c \in Chains : /\ [host EXCEPT !.auth = c.auth] \in HostRecords(id)
                                /\ [host EXCEPT !.auth = c.auth].secret_ref = host.secret_ref
                                /\ [host EXCEPT !.auth = c.auth].born = host.born
                                /\ [host EXCEPT !.auth = c.auth].source = host.source
<1>1. \A c \in Chains : c.auth \in Kinds /\ c.auth_fallbacks \in Fallbacks
  BY HostStoreConstants DEF Fallbacks
<1>2. /\ host.id = id /\ host.born \in 1 .. MaxBirths /\ host.source \in Sources
      /\ host.secret_ref \in Refs(id)
  BY DEF HostRecords
<1>3. ASSUME NEW a \in Refs(id)
      PROVE  /\ [host EXCEPT !.secret_ref = a] \in HostRecords(id)
             /\ [host EXCEPT !.secret_ref = a].secret_ref = a
             /\ [host EXCEPT !.secret_ref = a].born = host.born
             /\ [host EXCEPT !.secret_ref = a].source = host.source
  BY DEF HostRecords
<1>4. ASSUME NEW c \in Chains
      PROVE  /\ WithChain(host, c) \in HostRecords(id)
             /\ WithChain(host, c).secret_ref = host.secret_ref
             /\ WithChain(host, c).born = host.born
             /\ WithChain(host, c).source = host.source
  BY <1>1 DEF HostRecords, WithChain
<1>5. ASSUME NEW c \in Chains
      PROVE  /\ [host EXCEPT !.auth = c.auth] \in HostRecords(id)
             /\ [host EXCEPT !.auth = c.auth].secret_ref = host.secret_ref
             /\ [host EXCEPT !.auth = c.auth].born = host.born
             /\ [host EXCEPT !.auth = c.auth].source = host.source
  BY <1>1 DEF HostRecords
<1> QED
  BY <1>2, <1>3, <1>4, <1>5

\* A new record has its id and the next birth, and no stored secret.
LEMMA DraftLemma ==
    ASSUME Shapes, births < MaxBirths, NEW id, NEW c \in Chains, NEW src \in Sources
    PROVE  /\ Draft(id, c, src) \in HostRecords(id) /\ Draft(id, c, src).born = births + 1
           /\ Draft(id, c, src).secret_ref = NoAccount /\ Draft(id, c, src).source = src
           /\ births + 1 \in 1 .. MaxBirths
<1>1. births + 1 \in 1 .. MaxBirths /\ c.auth \in Kinds /\ c.auth_fallbacks \in Fallbacks
  BY HostStoreConstants DEF Shapes, RowShape, Fallbacks
<1>2. NoAccount \in Refs(id)
  BY DEF Refs
<1> QED
  BY <1>1, <1>2 DEF Draft, HostRecords

-----------------------------------------------------------------------------
(* A step touches one row id and its accounts; the rest keeps its invariant. *)

SameEntry(a) ==
    /\ a \in DOMAIN keyring.entries' <=> a \in DOMAIN keyring.entries
    /\ a \in DOMAIN keyring.entries => keyring.entries'[a] = keyring.entries[a]
SameRow(k) ==
    /\ k \in DOMAIN rows' <=> k \in DOMAIN rows
    /\ k \in DOMAIN rows => rows'[k] = rows[k]
TouchesOnly(i) == \A k \in Ids : k # i => SameRow(k) /\ \A a \in AccountsOf(k) : SameEntry(a)

\* Nothing is stored under no account.
LEMMA NoAccountEmpty == NoAccount \notin Ids \X SecretKinds
<1>1. \A i, s : NoAccount # <<i, s>>
  BY DEF NoAccount
<1> QED
  BY <1>1

\* A step that touches one id, alone, keeps the commands apart.
LEMMA Local ==
    ASSUME IInv, Shapes', ~overlapped, NEW w \in Workers, NEW i, NEW j, Become(w, j), failed => failed',
           TouchesOnly(i), Held(w) => job[w].id = i, \A v \in Workers \ {w} : Held(v) => job[v].id # i,
           Held(w)' => job'[w].id = i, Holds(w)', i \in Ids => IdGood(i)', OneImport'
    PROVE  Apart'
<1>1. Shapes /\ Distinct /\ (\A v \in Workers : Holds(v)) /\ \A id \in Ids : IdGood(id)
  BY DEF IInv, Apart
<1>2. \A v \in Workers \ {w} : job'[v] = job[v]
  BY <1>1, BecomeLemma
<1>3. \A v \in Workers \ {w} : Held(v)' <=> Held(v)
  BY <1>2 DEF Held
<1>4. Distinct'
  <2>1. SUFFICES ASSUME NEW u \in Workers, NEW v \in Workers, u # v, Held(u)', Held(v)'
                 PROVE  job'[u].id # job'[v].id
    BY DEF Distinct
  <2>2. CASE u = w
    BY <1>2, <1>3, <2>1, <2>2
  <2>3. CASE v = w
    BY <1>2, <1>3, <2>1, <2>3
  <2>4. CASE u # w /\ v # w
    BY <1>1, <1>2, <1>3, <2>1, <2>4 DEF Distinct
  <2> QED
    BY <2>2, <2>3, <2>4
<1>5. NoAccount \notin DOMAIN keyring.entries /\ NoAccount \notin DOMAIN keyring.entries'
  BY <1>1, NoAccountEmpty DEF Shapes, KeyringShape
<1>6. ASSUME NEW k \in Ids, k # i
      PROVE  SameRow(k) /\ \A a \in Refs(k) : SameEntry(a)
  <2>1. SameRow(k) /\ \A a \in AccountsOf(k) : SameEntry(a)
    BY <1>6 DEF TouchesOnly
  <2>2. SameEntry(NoAccount)
    BY <1>5 DEF SameEntry
  <2> QED
    BY <2>1, <2>2 DEF Refs
<1>7. ASSUME NEW k \in Ids, k \in DOMAIN rows
      PROVE  rows[k].secret_ref \in Refs(k)
  BY <1>1, <1>7, RecordLemma DEF Shapes, RowShape
<1>8. ASSUME NEW v \in Workers \ {w}
      PROVE  Holds(v)'
  <2>1. SUFFICES ASSUME Held(v)' PROVE Holds(v)'
    BY DEF Holds
  <2>2. Held(v) /\ job'[v] = job[v] /\ job[v].id # i /\ job[v].id \in Ids /\ JobShape(v)
    BY <1>1, <1>2, <1>3, <2>1 DEF Shapes, JobShape
  <2>3. PICK k \in Ids : k = job[v].id
    BY <2>2
  <2>4. k \in DOMAIN rows /\ k \in DOMAIN rows' /\ rows'[k] = rows[k] /\ \A a \in Refs(k) : SameEntry(a)
    BY <1>1, <1>6, <2>2, <2>3 DEF Holds, SameRow
  <2>5. job[v].step \in RecordSteps => job[v].host.secret_ref \in Refs(k)
    BY <2>2, <2>3, RecordLemma DEF JobShape
  <2>6. AccountsOf(k) \subseteq Refs(k)
    BY DEF Refs
  <2>7. AccountsOf(k) \intersect DOMAIN keyring.entries = {} => AccountsOf(k) \intersect DOMAIN keyring.entries' = {}
    BY <2>4, <2>6 DEF SameEntry
  <2>8. "write" \in RecordSteps
    BY DEF RecordSteps
  <2>9. Holds(v)
    BY <1>1
  <2> QED
    BY <2>1, <2>2, <2>3, <2>4, <2>5, <2>7, <2>8, <2>9 DEF Holds, SameEntry
<1>9. ASSUME NEW k \in Ids, k # i
      PROVE  IdGood(k)'
  <2>1. IdGood(k) /\ SameRow(k) /\ \A a \in Refs(k) : SameEntry(a)
    BY <1>1, <1>6, <1>9
  <2>2. Settled(k)' => Settled(k)
    <3>1. ASSUME Settled(k)', NEW v \in Workers, job[v].step \in {"write", "delete"}, job[v].id = k
          PROVE  FALSE
      <4>1. CASE v = w
        BY <1>9, <3>1, <4>1 DEF Held, HeldSteps, OpenSteps, RecordSteps
      <4>2. CASE v # w
        BY <1>2, <3>1, <4>2 DEF Settled
      <4> QED
        BY <4>1, <4>2
    <3> QED
      BY <3>1 DEF Settled
  <2>3. k \in DOMAIN rows => rows[k].secret_ref \in Refs(k)
    BY <1>7
  <2>4. AccountsOf(k) \subseteq Refs(k) /\ NoAccount \in Refs(k)
    BY DEF Refs
  <2> QED
    BY <2>1, <2>2, <2>3, <2>4 DEF IdGood, SameRow, SameEntry
<1> QED
  BY <1>4, <1>8, <1>9 DEF Apart

-----------------------------------------------------------------------------
(* What becomes of the shapes.                                              *)

\* A step replaces one job.
LEMMA ShapesNext ==
    ASSUME Shapes, NEW w \in Workers, NEW j, Become(w, j), JobShape(w)', RowShape', KeyringShape',
           overlapped' \in BOOLEAN, failed' \in BOOLEAN
    PROVE  Shapes'
<1>1. job' = [v \in Workers |-> job'[v]] /\ \A v \in Workers \ {w} : job'[v] = job[v]
  BY BecomeLemma
<1>2. \A v \in Workers \ {w} : JobShape(v)'
  BY <1>1 DEF Shapes, JobShape, Held
<1>3. \A v \in Workers : JobShape(v)'
  BY <1>2
<1> QED
  BY <1>1, <1>3 DEF Shapes

\* A worker that has nothing to do holds nothing.
LEMMA IdleJob ==
    ASSUME NEW w \in Workers, job'[w] = Idle
    PROVE  JobShape(w)' /\ ~Held(w)' /\ Holds(w)' /\ job'[w].step \notin {"write", "delete"}
<1>1. job'[w].step = "idle"
  BY DEF Idle
<1>2. ~Held(w)' /\ job'[w].step \notin RecordSteps
  BY <1>1 DEF Held, HeldSteps, OpenSteps, RecordSteps
<1> QED
  BY <1>1, <1>2 DEF JobShape, Holds

\* A worker that goes on with a row.
LEMMA HeldJob ==
    ASSUME NEW w \in Workers, NEW st \in HeldSteps, NEW id \in Ids, NEW host, NEW form \in 1 .. MaxBirths,
           st \in RecordSteps => host \in HostRecords(id),
           st = "set" => account_for(host) \in AccountsOf(id), job'[w] = Job(st, id, host, form)
    PROVE  /\ JobShape(w)' /\ Held(w)' /\ job'[w].step = st /\ job'[w].id = id
           /\ job'[w].host = host /\ job'[w].form = form
<1>1. job'[w].step = st /\ job'[w].id = id /\ job'[w].host = host /\ job'[w].form = form
  BY JobLemma
<1>2. Held(w)' /\ st # "import"
  BY <1>1 DEF Held, HeldSteps, OpenSteps, RecordSteps
<1> QED
  BY <1>1, <1>2 DEF JobShape

\* It is about to read the record again, for the secret.
LEMMA OpenJob ==
    ASSUME NEW w \in Workers, NEW st \in OpenSteps, NEW id \in Ids, NEW form \in 1 .. MaxBirths,
           NEW h, job'[w] = Job(st, id, h, form)
    PROVE  /\ JobShape(w)' /\ Held(w)' /\ job'[w].step \in OpenSteps
           /\ job'[w].id = id /\ job'[w].form = form
<1>1. st \in HeldSteps /\ st \notin RecordSteps /\ st # "set"
  BY DEF OpenSteps, HeldSteps, RecordSteps
<1>2. JobShape(w)' /\ Held(w)'
  BY <1>1, HeldJob
<1>3. job'[w].step = st /\ job'[w].id = id /\ job'[w].form = form
  BY JobLemma
<1> QED
  BY <1>2, <1>3

\* Ids stay within the number of hosts made.
LEMMA BirthsLemma ==
    ASSUME Shapes
    PROVE  births \in 0 .. MaxBirths /\ births <= births /\ \A id \in DOMAIN rows : id \in 1 .. births
BY HostStoreConstants DEF Shapes, RowShape

\* The rows are left alone,
LEMMA RowsKept ==
    ASSUME Shapes, UNCHANGED <<rows, births>>
    PROVE  RowShape' /\ \A k : SameRow(k)
BY DEF Shapes, RowShape, SameRow

\* one is inserted or written back,
LEMMA RowPut ==
    ASSUME Shapes, NEW id \in Ids, NEW host \in HostRecords(id), rows' = Put(rows, id, host),
           births' \in 0 .. MaxBirths, births <= births', id \in 1 .. births'
    PROVE  /\ RowShape' /\ DOMAIN rows' = DOMAIN rows \union {id} /\ rows'[id] = host
           /\ \A k : k # id => SameRow(k)
<1>1. /\ DOMAIN rows' = DOMAIN rows \union {id} /\ rows'[id] = host
      /\ \A k \in DOMAIN rows : k # id => rows'[k] = rows[k]
  BY DEF Put
<1>2. DOMAIN rows \subseteq 1 .. births /\ DOMAIN rows \subseteq Ids /\ births \in Nat /\ births' \in Nat
  BY HostStoreConstants DEF Shapes, RowShape
<1>3. DOMAIN rows' \subseteq 1 .. births' /\ DOMAIN rows' \subseteq Ids
  BY <1>1, <1>2
<1>4. \A k \in DOMAIN rows' : rows'[k] \in HostRecords(k)
  BY <1>1 DEF Shapes, RowShape
<1> QED
  BY <1>1, <1>3, <1>4 DEF RowShape, SameRow

\* or one is deleted: the others stay.
LEMMA RowGone ==
    ASSUME Shapes, NEW id, rows' = Without(rows, {id}), births' = births
    PROVE  /\ RowShape' /\ DOMAIN rows' = DOMAIN rows \ {id}
           /\ (\A k \in DOMAIN rows' : rows'[k] = rows[k]) /\ \A k : k # id => SameRow(k)
<1>1. DOMAIN rows' = DOMAIN rows \ {id} /\ \A k \in DOMAIN rows \ {id} : rows'[k] = rows[k]
  BY WithoutLemma
<1> QED
  BY <1>1 DEF Shapes, RowShape, SameRow

\* The keyring is left alone,
LEMMA KeyringKept ==
    ASSUME Shapes, UNCHANGED keyring
    PROVE  KeyringShape' /\ \A a : SameEntry(a)
<1>1. keyring' = keyring
  OBVIOUS
<1>2. KeyringShape'
  BY <1>1 DEF Shapes, KeyringShape
<1> QED
  BY <1>1, <1>2 DEF SameEntry

\* a secret is stored under one account,
LEMMA KeyringPut ==
    ASSUME Shapes, NEW a \in Ids \X SecretKinds, NEW form \in 1 .. MaxBirths,
           keyring' = [keyring EXCEPT !.entries = Put(@, a, form)]
    PROVE  /\ KeyringShape' /\ DOMAIN keyring.entries' = DOMAIN keyring.entries \union {a}
           /\ keyring.entries'[a] = form /\ \A b : b # a => SameEntry(b)
<1>1. PICK e : e = Put(keyring.entries, a, form)
  OBVIOUS
<1>2. keyring' = [locked |-> FALSE, entries |-> e] /\ keyring'.entries = e
  BY <1>1, KeyringLemma, Zenon
<1>3. /\ DOMAIN e = DOMAIN keyring.entries \union {a} /\ e[a] = form
      /\ \A b \in DOMAIN keyring.entries : b # a => e[b] = keyring.entries[b]
  BY <1>1 DEF Put
<1>4. \A b \in DOMAIN e : e[b] \in 1 .. MaxBirths
  BY <1>3 DEF Shapes, KeyringShape
<1>5. DOMAIN e \subseteq Ids \X SecretKinds
  BY <1>3 DEF Shapes, KeyringShape
<1>6. KeyringShape'
  BY <1>2, <1>4, <1>5, Zenon DEF KeyringShape
<1> QED
  BY <1>2, <1>3, <1>6 DEF SameEntry

\* or accounts are cleared: the others keep their secrets.
LEMMA KeyringWithout ==
    ASSUME Shapes, NEW gone, keyring' = [keyring EXCEPT !.entries = Without(@, gone)]
    PROVE  /\ KeyringShape' /\ DOMAIN keyring.entries' = DOMAIN keyring.entries \ gone
           /\ (\A b \in DOMAIN keyring.entries' : keyring.entries'[b] = keyring.entries[b])
           /\ \A b : b \notin gone => SameEntry(b)
<1>1. PICK e : e = Without(keyring.entries, gone)
  OBVIOUS
<1>2. keyring' = [locked |-> FALSE, entries |-> e] /\ keyring'.entries = e
  BY <1>1, KeyringLemma, Zenon
<1>3. /\ DOMAIN e = DOMAIN keyring.entries \ gone
      /\ \A b \in DOMAIN keyring.entries \ gone : e[b] = keyring.entries[b]
  BY <1>1, WithoutLemma
<1>4. \A b \in DOMAIN e : e[b] \in 1 .. MaxBirths
  BY <1>3 DEF Shapes, KeyringShape
<1>5. DOMAIN e \subseteq Ids \X SecretKinds
  BY <1>3 DEF Shapes, KeyringShape
<1>6. KeyringShape'
  BY <1>2, <1>4, <1>5, Zenon DEF KeyringShape
<1> QED
  BY <1>2, <1>3, <1>6 DEF SameEntry

\* Rows that come from rows of the same source make no second imported one.
LEMMA OneImportKept ==
    ASSUME OneImport, \A k \in DOMAIN rows' : rows'[k].source = "ssh_config" =>
                          k \in DOMAIN rows /\ rows[k].source = "ssh_config"
    PROVE  OneImport'
BY DEF OneImport, Imported

-----------------------------------------------------------------------------
(* The kinds of step that commands are made of.                             *)

\* Two commands that hold rows hold different ones, and a row is never number 0.
LEMMA OthersElsewhere ==
    ASSUME IInv, ~overlapped, NEW w \in Workers, NEW i, i = IF Held(w) THEN job[w].id ELSE 0
    PROVE  (\A v \in Workers \ {w} : Held(v) => job[v].id # i) /\ 0 \notin Ids
<1>1. 0 \notin Ids
  BY HostStoreConstants
<1>2. ASSUME NEW v \in Workers \ {w}, Held(v) PROVE job[v].id # i
  <2>1. job[v].id \in Ids
    BY <1>2 DEF IInv, Shapes, JobShape
  <2>2. Held(w) => job[v].id # job[w].id
    BY <1>2 DEF IInv, Apart, Distinct
  <2> QED
    BY <1>1, <2>1, <2>2
<1> QED
  BY <1>1, <1>2

\* A command ends and leaves rows and keyring alone: an error, or nothing to do.
LEMMA GivesUp ==
    ASSUME IInv, NEW w \in Workers, Become(w, Idle), UNCHANGED <<rows, keyring, births, overlapped>>,
           failed' = TRUE \/ (failed' = failed /\ job[w].step \notin {"write", "delete"})
    PROVE  IInv'
<1>1. Shapes /\ job'[w] = Idle /\ \A v \in Workers \ {w} : job'[v] = job[v]
  BY BecomeLemma DEF IInv
<1>2. JobShape(w)' /\ ~Held(w)' /\ Holds(w)'
  BY <1>1, IdleJob
<1>3. RowShape' /\ KeyringShape' /\ (\A k : SameRow(k)) /\ \A a : SameEntry(a)
  BY <1>1, RowsKept, KeyringKept
<1>4. overlapped' \in BOOLEAN /\ failed' \in BOOLEAN /\ (failed => failed')
  BY <1>1, Zenon DEF Shapes
<1>5. Shapes'
  BY <1>1, <1>2, <1>3, <1>4, ShapesNext
<1>6. ASSUME ~overlapped PROVE Apart'
  <2>1. PICK i : i = IF Held(w) THEN job[w].id ELSE 0
    OBVIOUS
  <2>2. (\A v \in Workers \ {w} : Held(v) => job[v].id # i) /\ 0 \notin Ids
    BY <1>6, <2>1, OthersElsewhere
  <2>3. TouchesOnly(i)
    BY <1>3 DEF TouchesOnly
  <2>4. OneImport'
    BY <1>6 DEF IInv, Apart, OneImport, Imported
  <2>5. i \in Ids => IdGood(i)'
    <3>1. SUFFICES ASSUME i \in Ids PROVE IdGood(i)'
      OBVIOUS
    <3>2. IdGood(i) /\ rows' = rows /\ keyring' = keyring
      BY <1>6, <3>1 DEF IInv, Apart
    <3>3. ~failed' /\ Settled(i)' => ~failed /\ Settled(i)
      BY <1>1, <1>4 DEF Settled
    <3> QED
      BY <1>4, <3>2, <3>3 DEF IdGood
  <2>6. Held(w) => job[w].id = i
    BY <2>1
  <2> QED
    BY <1>2, <1>4, <1>5, <1>6, <2>2, <2>3, <2>4, <2>5, <2>6, Local
<1> QED
  BY <1>5, <1>6 DEF IInv

\* A command writes back the record of the row it holds.
LEMMA RowWritten ==
    ASSUME IInv, NEW w \in Workers, Held(w), NEW id, id = job[w].id, NEW host \in HostRecords(id),
           id \in DOMAIN rows, rows' = Put(rows, id, host), UNCHANGED <<keyring, births, overlapped>>,
           failed' = TRUE \/ failed' = failed, NEW j, Become(w, j),
           j = Idle \/ \E st \in OpenSteps : \E h : j = Job(st, id, h, host.born),
           ~overlapped =>
              /\ host.born = rows[id].born /\ host.source = rows[id].source
              /\ \/ host.secret_ref = rows[id].secret_ref /\ job[w].step \notin {"write", "delete"}
                 \/ host.secret_ref = NoAccount
                 \/ host.secret_ref \in DOMAIN keyring.entries /\ keyring.entries[host.secret_ref] = host.born
    PROVE  IInv'
<1>1. Shapes /\ job'[w] = j /\ \A v \in Workers \ {w} : job'[v] = job[v]
  BY BecomeLemma DEF IInv
<1>2. id \in Ids /\ host.born \in 1 .. MaxBirths
  BY <1>1, RecordLemma DEF Shapes, JobShape
<1>3. births' \in 0 .. MaxBirths /\ births <= births' /\ id \in 1 .. births'
  <2>1. births' = births
    OBVIOUS
  <2> QED
    BY <1>1, <2>1, BirthsLemma, Zenon
<1>4. /\ RowShape' /\ DOMAIN rows' = DOMAIN rows \union {id} /\ rows'[id] = host
      /\ \A k : k # id => SameRow(k)
  BY <1>1, <1>2, <1>3, RowPut
<1>5. KeyringShape' /\ \A a : SameEntry(a)
  BY <1>1, KeyringKept
<1>6. overlapped' \in BOOLEAN /\ failed' \in BOOLEAN /\ (failed => failed')
  BY <1>1, Zenon DEF Shapes
<1>7. \/ j = Idle /\ JobShape(w)' /\ ~Held(w)' /\ Holds(w)'
      \/ /\ JobShape(w)' /\ Held(w)' /\ job'[w].step \in OpenSteps /\ job'[w].id = id
         /\ job'[w].form = host.born
  <2>1. CASE j = Idle
    BY <1>1, <2>1, IdleJob
  <2>2. ASSUME NEW st \in OpenSteps, NEW h, j = Job(st, id, h, host.born)
        PROVE  /\ JobShape(w)' /\ Held(w)' /\ job'[w].step \in OpenSteps /\ job'[w].id = id
               /\ job'[w].form = host.born
    <3>1. job'[w] = Job(st, id, h, host.born)
      BY <1>1, <2>2
    <3>2. JobShape(w)' /\ Held(w)'
      BY <1>2, <3>1, OpenJob
    <3>3. job'[w].step = st /\ job'[w].id = id /\ job'[w].form = host.born
      BY <3>1, JobLemma
    <3> QED
      BY <3>2, <3>3
  <2> QED
    BY <2>1, <2>2
<1>8. Shapes'
  BY <1>1, <1>4, <1>5, <1>6, <1>7, ShapesNext
<1>9. ASSUME ~overlapped PROVE Apart'
  <2>1. /\ host.born = rows[id].born /\ host.source = rows[id].source /\ IdGood(id) /\ OneImport
    BY <1>2, <1>9 DEF IInv, Apart
  <2>2. \A v \in Workers \ {w} : Held(v) => job[v].id # id
    BY <1>9, OthersElsewhere
  <2>3. TouchesOnly(id)
    BY <1>4, <1>5 DEF TouchesOnly
  <2>4. OneImport'
    <3>1. \A k \in DOMAIN rows' : k \in DOMAIN rows /\ rows'[k].source = rows[k].source
      BY <1>4, <2>1 DEF SameRow
    <3> QED
      BY <2>1, <3>1, OneImportKept
  <2>5. Holds(w)'
    BY <1>4, <1>7 DEF Holds, OpenSteps, RecordSteps
  <2>6. IdGood(id)'
    <3>1. keyring' = keyring /\ rows'[id] = host /\ id \in DOMAIN rows /\ id \in DOMAIN rows'
      BY <1>4
    <3>2. job[w].step \notin {"write", "delete"} => (Settled(id)' => Settled(id))
      BY <1>1 DEF Settled
    <3>3. ~failed' => ~failed
      BY <1>6
    <3>4. CASE host.secret_ref = rows[id].secret_ref /\ job[w].step \notin {"write", "delete"}
      BY <2>1, <3>1, <3>2, <3>3, <3>4 DEF IdGood
    <3>5. CASE \/ host.secret_ref = NoAccount
               \/ host.secret_ref \in DOMAIN keyring.entries /\ keyring.entries[host.secret_ref] = host.born
      <4>1. NoAccount \notin DOMAIN keyring.entries
        BY <1>1, NoAccountEmpty DEF Shapes, KeyringShape
      <4> QED
        BY <3>1, <3>5, <4>1 DEF IdGood
    <3> QED
      BY <1>9, <3>4, <3>5
  <2>7. Held(w)' => job'[w].id = id
    BY <1>7
  <2> QED
    BY <1>6, <1>8, <1>9, <2>2, <2>3, <2>4, <2>5, <2>6, <2>7, Local
<1> QED
  BY <1>8, <1>9 DEF IInv

\* What is known after a step on a row that did not overlap another command.
LEMMA TouchesLemma ==
    ASSUME Shapes, NEW w \in Workers, NEW id, Touches(w, id)
    PROVE  /\ overlapped' \in BOOLEAN
           /\ ~overlapped' => ~overlapped /\ \A v \in Workers \ {w} : Held(v) => job[v].id # id
<1>1. overlapped' \in BOOLEAN
  BY DEF Touches
<1>2. ~overlapped' => ~overlapped /\ ~Busy(w, id)
  BY Zenon DEF Touches, Shapes
<1>3. \A v \in Workers : Held(v) => job[v].step # "idle"
  BY DEF Held, HeldSteps, OpenSteps, RecordSteps
<1> QED
  BY <1>1, <1>2, <1>3 DEF Busy

\* A new row, made by hand or by an import that found none.
LEMMA RowCreated ==
    ASSUME IInv, NEW w \in Workers, ~Held(w), NEW c \in Chains, NEW src \in Sources,
           births < MaxBirths, NewId \in Ids, rows' = Put(rows, NewId, Draft(NewId, c, src)),
           births' = births + 1, UNCHANGED keyring, Touches(w, NewId), NEW j, Become(w, j),
           failed' \in BOOLEAN, failed => failed', src = "ssh_config" => Imported = {},
           j = Idle \/ \E st \in OpenSteps : \E h : j = Job(st, NewId, h, births + 1)
    PROVE  IInv'
<1>1. Shapes /\ job'[w] = j /\ \A v \in Workers \ {w} : job'[v] = job[v]
  BY BecomeLemma DEF IInv
<1>2. PICK id \in Ids : id = NewId
  OBVIOUS
<1>3. id \notin DOMAIN rows /\ id \in 1 .. births + 1
  BY <1>1, <1>2, NewIdIsNew
<1>4. PICK host : host = Draft(id, c, src)
  OBVIOUS
<1>5. /\ host \in HostRecords(id) /\ host.born = births + 1 /\ host.secret_ref = NoAccount
      /\ host.source = src /\ births + 1 \in 1 .. MaxBirths
  BY <1>1, <1>4, DraftLemma
<1>6. births' \in 0 .. MaxBirths /\ births <= births' /\ id \in 1 .. births'
  BY <1>1, <1>3, <1>5, HostStoreConstants DEF Shapes, RowShape
<1>7. rows' = Put(rows, id, host)
  BY <1>2, <1>4
<1>8. /\ RowShape' /\ DOMAIN rows' = DOMAIN rows \union {id} /\ rows'[id] = host
      /\ \A k : k # id => SameRow(k)
  BY <1>1, <1>5, <1>6, <1>7, RowPut
<1>9. KeyringShape' /\ \A a : SameEntry(a)
  BY <1>1, KeyringKept
<1>10. /\ overlapped' \in BOOLEAN
       /\ ~overlapped' => ~overlapped /\ \A v \in Workers \ {w} : Held(v) => job[v].id # id
  BY <1>1, <1>2, TouchesLemma
<1>11. \/ j = Idle /\ JobShape(w)' /\ ~Held(w)' /\ Holds(w)'
       \/ /\ JobShape(w)' /\ Held(w)' /\ job'[w].step \in OpenSteps /\ job'[w].id = id
          /\ job'[w].form = host.born
  <2>1. CASE j = Idle
    BY <1>1, <2>1, IdleJob
  <2>2. ASSUME NEW st \in OpenSteps, NEW h, j = Job(st, NewId, h, births + 1)
        PROVE  /\ JobShape(w)' /\ Held(w)' /\ job'[w].step \in OpenSteps /\ job'[w].id = id
               /\ job'[w].form = host.born
    <3>1. job'[w] = Job(st, id, h, host.born) /\ host.born \in 1 .. MaxBirths
      BY <1>1, <1>2, <1>5, <2>2
    <3>2. JobShape(w)' /\ Held(w)'
      BY <3>1, OpenJob
    <3>3. job'[w].step = st /\ job'[w].id = id /\ job'[w].form = host.born
      BY <3>1, JobLemma
    <3> QED
      BY <3>2, <3>3
  <2> QED
    BY <2>1, <2>2
<1>12. Shapes'
  BY <1>1, <1>8, <1>9, <1>10, <1>11, ShapesNext
<1>13. ASSUME ~overlapped' PROVE Apart'
  <2>1. ~overlapped /\ \A v \in Workers \ {w} : Held(v) => job[v].id # id
    BY <1>10, <1>13
  <2>2. TouchesOnly(id)
    BY <1>8, <1>9 DEF TouchesOnly
  <2>3. OneImport'
    <3>1. CASE src = "ssh_config"
      <4>1. Imported = {}
        BY <3>1
      <4>2. \A k \in DOMAIN rows : rows[k].source # "ssh_config" /\ rows'[k] = rows[k]
        BY <1>3, <1>8, <4>1 DEF Imported, SameRow
      <4>3. \A k \in DOMAIN rows' : rows'[k].source = "ssh_config" => k = id
        BY <1>8, <4>2
      <4> QED
        BY <4>3 DEF OneImport, Imported
    <3>2. CASE src # "ssh_config"
      <4>1. \A k \in DOMAIN rows' : rows'[k].source = "ssh_config" =>
                k \in DOMAIN rows /\ rows[k].source = "ssh_config"
        BY <1>5, <1>8, <3>2 DEF SameRow
      <4> QED
        BY <2>1, <4>1, OneImportKept DEF IInv, Apart
    <3> QED
      BY <3>1, <3>2
  <2>4. Holds(w)'
    BY <1>8, <1>11 DEF Holds, OpenSteps, RecordSteps
  <2>5. IdGood(id)'
    <3>1. rows'[id].secret_ref = NoAccount /\ id \in DOMAIN rows' /\ NoAccount \notin DOMAIN keyring.entries'
      BY <1>5, <1>8, <1>9, NoAccountEmpty DEF KeyringShape
    <3> QED
      BY <3>1 DEF IdGood
  <2>6. Held(w)' => job'[w].id = id
    BY <1>11
  <2> QED
    BY <1>12, <2>1, <2>2, <2>3, <2>4, <2>5, <2>6, Local
<1> QED
  BY <1>12, <1>13 DEF IInv

\* The steps that take hold of a row.
TakingSteps == {"edit", "delete", "reimport"}

\* A command starts on a row: it reads it, and a delete clears its accounts.
LEMMA RowTaken ==
    ASSUME IInv, NEW w \in Workers, ~Held(w), NEW id \in DOMAIN rows, NEW st \in TakingSteps,
           NEW host \in HostRecords(id), host.born = rows[id].born, host.source = rows[id].source,
           host.secret_ref = rows[id].secret_ref, st = "reimport" => host.source = "ssh_config",
           Become(w, Job(st, id, host, rows[id].born)), Touches(w, id), UNCHANGED <<rows, births>>,
           failed' \in BOOLEAN, failed => failed', KeyringShape',
           \A k \in Ids : k # id => \A a \in AccountsOf(k) : SameEntry(a),
           \A a \in DOMAIN keyring.entries' : a \in DOMAIN keyring.entries /\ SameEntry(a),
           IF st = "delete" THEN failed' \/ AccountsOf(id) \intersect DOMAIN keyring.entries' = {}
                            ELSE failed' = failed /\ keyring' = keyring
    PROVE  IInv'
<1>1. Shapes /\ job'[w] = Job(st, id, host, rows[id].born) /\ \A v \in Workers \ {w} : job'[v] = job[v]
  BY BecomeLemma DEF IInv
<1>2. id \in Ids /\ rows[id] \in HostRecords(id) /\ rows[id].born \in 1 .. MaxBirths
  BY <1>1, RecordLemma DEF Shapes, RowShape
<1>3. st \in HeldSteps /\ st # "set" /\ st # "write" /\ st \in RecordSteps
  BY DEF TakingSteps, HeldSteps, RecordSteps
<1>4. JobShape(w)' /\ Held(w)'
  BY <1>1, <1>2, <1>3, HeldJob
<1>5. /\ job'[w].step = st /\ job'[w].id = id /\ job'[w].host = host /\ job'[w].form = rows[id].born
  BY <1>1, JobLemma
<1>6. RowShape' /\ (\A k : SameRow(k)) /\ rows' = rows
  BY <1>1, RowsKept
<1>7. /\ overlapped' \in BOOLEAN
      /\ ~overlapped' => ~overlapped /\ \A v \in Workers \ {w} : Held(v) => job[v].id # id
  BY <1>1, TouchesLemma
<1>8. Shapes'
  BY <1>1, <1>4, <1>6, <1>7, ShapesNext
<1>9. ASSUME ~overlapped' PROVE Apart'
  <2>1. ~overlapped /\ (\A v \in Workers \ {w} : Held(v) => job[v].id # id) /\ OneImport /\ IdGood(id)
    BY <1>2, <1>7, <1>9 DEF IInv, Apart
  <2>2. TouchesOnly(id)
    BY <1>6 DEF TouchesOnly
  <2>3. OneImport'
    BY <1>6, <2>1 DEF OneImport, Imported
  <2>4. Holds(w)'
    BY <1>3, <1>5, <1>6 DEF Holds
  <2>5. IdGood(id)'
    <3>1. /\ rows'[id] = rows[id] /\ id \in DOMAIN rows'
          /\ rows[id].secret_ref \in DOMAIN keyring.entries' =>
                /\ rows[id].secret_ref \in DOMAIN keyring.entries
                /\ keyring.entries'[rows[id].secret_ref] = keyring.entries[rows[id].secret_ref]
      BY <1>6 DEF SameEntry
    <3>2. CASE st = "delete"
      <4>1. ~Settled(id)'
        BY <1>5, <3>2 DEF Settled
      <4> QED
        BY <2>1, <3>1, <4>1 DEF IdGood
    <3>3. CASE st # "delete"
      <4>1. failed' = failed /\ keyring' = keyring
        BY <3>3
      <4>2. job[w].step \notin {"write", "delete"}
        BY DEF Held, HeldSteps, RecordSteps
      <4>3. Settled(id)' => Settled(id)
        BY <1>1, <4>2 DEF Settled
      <4> QED
        BY <2>1, <3>1, <4>1, <4>3 DEF IdGood
    <3> QED
      BY <3>2, <3>3
  <2> QED
    BY <1>5, <1>8, <2>1, <2>2, <2>3, <2>4, <2>5, Local
<1> QED
  BY <1>8, <1>9 DEF IInv

\* A command moves on without touching rows or keyring.
LEMMA JobOnly ==
    ASSUME IInv, NEW w \in Workers, NEW j, Become(w, j), UNCHANGED <<rows, keyring, births, failed, overlapped>>,
           job[w].step \notin {"write", "delete"}, NEW i, i = IF Held(w) THEN job[w].id ELSE 0,
           JobShape(w)', Held(w)' => job'[w].id = i, ~overlapped => Holds(w)'
    PROVE  IInv'
<1>1. Shapes /\ job'[w] = j /\ \A v \in Workers \ {w} : job'[v] = job[v]
  BY BecomeLemma DEF IInv
<1>2. RowShape' /\ KeyringShape' /\ (\A k : SameRow(k)) /\ \A a : SameEntry(a)
  BY <1>1, RowsKept, KeyringKept
<1>3. overlapped' \in BOOLEAN /\ failed' \in BOOLEAN /\ (failed => failed') /\ (~overlapped' => ~overlapped)
  BY <1>1, Zenon DEF Shapes
<1>4. Shapes'
  BY <1>1, <1>2, <1>3, ShapesNext
<1>5. ASSUME ~overlapped PROVE Apart'
  <2>1. (\A v \in Workers \ {w} : Held(v) => job[v].id # i) /\ 0 \notin Ids
    BY <1>5, OthersElsewhere
  <2>2. TouchesOnly(i)
    BY <1>2 DEF TouchesOnly
  <2>3. OneImport'
    BY <1>5 DEF IInv, Apart, OneImport, Imported
  <2>4. i \in Ids => IdGood(i)'
    <3>1. SUFFICES ASSUME i \in Ids PROVE IdGood(i)'
      OBVIOUS
    <3>2. IdGood(i) /\ rows' = rows /\ keyring' = keyring /\ failed' = failed
      BY <1>5, <3>1 DEF IInv, Apart
    <3>3. Settled(i)' => Settled(i)
      BY <1>1 DEF Settled
    <3> QED
      BY <3>2, <3>3 DEF IdGood
  <2>5. Held(w) => job[w].id = i
    OBVIOUS
  <2> QED
    BY <1>3, <1>4, <1>5, <2>1, <2>2, <2>3, <2>4, <2>5, Local
<1> QED
  BY <1>3, <1>4, <1>5 DEF IInv

-----------------------------------------------------------------------------
(* The commands.                                                            *)

\* A failure is remembered.
LEMMA FailedLemma ==
    ASSUME Shapes, failed' = TRUE \/ failed' = failed
    PROVE  failed' \in BOOLEAN /\ (failed => failed')
BY Zenon DEF Shapes

\* What a worker's step says of it.
LEMMA StepLemma ==
    ASSUME IInv, NEW w \in Workers
    PROVE  /\ Shapes /\ JobShape(w) /\ (~overlapped => Holds(w))
           /\ job[w].step \in {"idle", "import"} => ~Held(w)
           /\ job[w].step \in HeldSteps => Held(w) /\ job[w].id \in Ids /\ job[w].form \in 1 .. MaxBirths
           /\ job[w].step \in RecordSteps =>
                 /\ Held(w) /\ job[w].id \in Ids /\ job[w].form \in 1 .. MaxBirths
                 /\ job[w].host \in HostRecords(job[w].id)
<1>1. Shapes /\ JobShape(w) /\ (~overlapped => Holds(w))
  BY DEF IInv, Shapes, Apart
<1>2. job[w].step \in {"idle", "import"} => ~Held(w)
  BY DEF Held, HeldSteps, OpenSteps, RecordSteps
<1>3. RecordSteps \subseteq HeldSteps
  BY DEF HeldSteps
<1> QED
  BY <1>1, <1>2, <1>3 DEF Held, JobShape

\* create_host: the row, then its secret if one was typed.
LEMMA CreateHostStep ==
    ASSUME IInv, NEW w \in Workers, NEW chain \in Chains, NEW secret, CreateHost(w, chain, secret)
    PROVE  IInv'
<1>1. /\ job[w].step = "idle" /\ births < MaxBirths /\ NewId \in Ids
      /\ rows' = Put(rows, NewId, Draft(NewId, chain, "manual")) /\ births' = births + 1
      /\ Touches(w, NewId) /\ UNCHANGED keyring
  BY DEF CreateHost, Starts
<1>2. PICK j : /\ Become(w, j) /\ (failed' = TRUE \/ failed' = failed)
               /\ j = Idle \/ j = Job("open set", NewId, NoHost, births + 1)
  BY Zenon DEF CreateHost
<1>3. ~Held(w) /\ Shapes /\ "manual" \in Sources /\ "manual" # "ssh_config" /\ "open set" \in OpenSteps
  BY <1>1, StepLemma DEF Sources, OpenSteps
<1>4. failed' \in BOOLEAN /\ (failed => failed')
  BY <1>2, <1>3, FailedLemma
<1>5. j = Idle \/ \E st \in OpenSteps : \E h : j = Job(st, NewId, h, births + 1)
  BY <1>2, <1>3, Zenon
<1> QED
  BY <1>1, <1>2, <1>3, <1>4, <1>5, RowCreated, Zenon

\* update_host reads the record.
LEMMA UpdateReadStep ==
    ASSUME IInv, NEW w \in Workers, NEW id \in Ids, UpdateRead(w, id)
    PROVE  IInv'
<1>1. /\ job[w].step = "idle" /\ id \in DOMAIN rows /\ Become(w, Job("edit", id, rows[id], rows[id].born))
      /\ Touches(w, id) /\ UNCHANGED <<rows, keyring, births, failed>>
  BY DEF UpdateRead, Starts
<1>2. ~Held(w) /\ Shapes /\ rows[id] \in HostRecords(id) /\ "edit" \in TakingSteps /\ "edit" # "reimport"
  BY <1>1, StepLemma DEF Shapes, RowShape, TakingSteps
<1>3. PICK host \in HostRecords(id) : host = rows[id]
  BY <1>2
<1>4. KeyringShape' /\ (\A a : SameEntry(a)) /\ keyring' = keyring /\ failed' = failed
  BY <1>1, <1>2, KeyringKept
<1>5. \A a \in DOMAIN keyring.entries' : a \in DOMAIN keyring.entries /\ SameEntry(a)
  BY <1>4
<1>6. failed' \in BOOLEAN /\ (failed => failed') /\ "edit" # "delete"
  BY <1>2, <1>4, FailedLemma
<1>7. Become(w, Job("edit", id, host, rows[id].born)) /\ UNCHANGED <<rows, births>>
  BY <1>1, <1>3
<1> QED
  BY <1>1, <1>2, <1>3, <1>4, <1>5, <1>6, <1>7, RowTaken, Zenon

\* update_host writes it back.
LEMMA UpdateWriteStep ==
    ASSUME IInv, NEW w \in Workers, NEW chain \in Chains, NEW secret, UpdateWrite(w, chain, secret)
    PROVE  IInv'
<1>1. job[w].step = "edit" /\ UNCHANGED <<keyring, births, commands, overlapped>>
  BY DEF UpdateWrite
<1>2. /\ "edit" \in RecordSteps /\ "edit" \notin {"write", "delete"} /\ "edit" # "write"
      /\ "open set" \in OpenSteps /\ "open clear" \in OpenSteps
  BY DEF RecordSteps, OpenSteps
<1>3. /\ Shapes /\ (~overlapped => Holds(w)) /\ Held(w) /\ job[w].id \in Ids
      /\ job[w].host \in HostRecords(job[w].id)
  BY <1>1, <1>2, StepLemma
<1>4. PICK id \in Ids : id = job[w].id
  BY <1>3
<1>5. PICK host : host = WithChain(job[w].host, chain)
  OBVIOUS
<1>6. /\ host \in HostRecords(id) /\ host.id = id /\ host.secret_ref = job[w].host.secret_ref
      /\ host.born = job[w].host.born /\ host.source = job[w].host.source
  BY <1>3, <1>4, <1>5, RecordLemma
<1>7. ~overlapped => /\ host.born = rows[id].born /\ host.source = rows[id].source
                     /\ host.secret_ref = rows[id].secret_ref /\ job[w].step \notin {"write", "delete"}
  BY <1>1, <1>2, <1>3, <1>4, <1>6 DEF Holds
<1>8. CASE id \in DOMAIN rows /\ rows' = Put(rows, id, host)
  <2>1. PICK j : /\ Become(w, j) /\ (failed' = TRUE \/ failed' = failed)
                 /\ \/ j = Idle \/ j = Job("open set", id, NoHost, host.born)
                    \/ j = Job("open clear", id, NoHost, host.born)
    BY <1>5, <1>6, Zenon DEF UpdateWrite
  <2>2. j = Idle \/ \E st \in OpenSteps : \E h : j = Job(st, id, h, host.born)
    BY <1>2, <2>1, Zenon
  <2>3. UNCHANGED <<keyring, births, overlapped>>
    BY <1>1
  <2> QED
    BY <1>3, <1>4, <1>6, <1>7, <1>8, <2>1, <2>2, <2>3, RowWritten, Zenon
<1>9. CASE ~(id \in DOMAIN rows /\ rows' = Put(rows, id, host))
  <2>1. rows' = rows /\ Become(w, Idle) /\ failed' = TRUE
    BY <1>5, <1>6, <1>9, Zenon DEF UpdateWrite
  <2>2. UNCHANGED <<rows, keyring, births, overlapped>>
    BY <1>1, <2>1
  <2> QED
    BY <2>1, <2>2, GivesUp, Zenon
<1> QED
  BY <1>8, <1>9

\* store_secret_for and clear_secret_for read the record again.
LEMMA SecretReadStep ==
    ASSUME IInv, NEW w \in Workers, SecretRead(w)
    PROVE  IInv'
<1>1. job[w].step \in {"open set", "open clear"} /\ UNCHANGED <<rows, keyring, births, failed, overlapped>>
  BY DEF SecretRead
<1>2. job[w].step \in HeldSteps /\ job[w].step \notin {"write", "delete"}
  BY <1>1 DEF HeldSteps, OpenSteps
<1>3. /\ Shapes /\ (~overlapped => Holds(w)) /\ Held(w) /\ job[w].id \in Ids
      /\ job[w].form \in 1 .. MaxBirths
  BY <1>2, StepLemma
<1>4. PICK id \in Ids : id = job[w].id
  BY <1>3
<1>5. PICK form \in 1 .. MaxBirths : form = job[w].form
  BY <1>3
<1>6. CASE Become(w, Idle)
  <2>1. failed' = failed /\ UNCHANGED <<rows, keyring, births, overlapped>>
    BY <1>1
  <2> QED
    BY <1>2, <1>6, <2>1, GivesUp, Zenon
<1>7. CASE ~Become(w, Idle)
  <2>1. PICK st : /\ st = IF job[w].step = "open set" THEN "set" ELSE "clear"
                  /\ id \in DOMAIN rows /\ Become(w, Job(st, id, rows[id], form))
                  /\ job[w].step = "open set" => account_for(rows[id]) # NoAccount
    BY <1>4, <1>5, <1>7, Zenon DEF SecretRead
  <2>2. /\ st \in HeldSteps /\ st \in RecordSteps /\ st # "reimport" /\ st # "write" /\ st # "delete"
        /\ st = "set" => job[w].step = "open set"
    BY <2>1 DEF HeldSteps, RecordSteps
  <2>3. rows[id] \in HostRecords(id) /\ rows[id].id = id
    BY <1>3, <2>1, RecordLemma DEF Shapes, RowShape
  <2>4. st = "set" => account_for(rows[id]) \in AccountsOf(id)
    <3>1. account_for(rows[id]) \in AccountsOf(rows[id].id) \union {NoAccount}
      BY AccountForTyped
    <3> QED
      BY <2>1, <2>2, <2>3, <3>1
  <2>5. PICK host \in HostRecords(id) : host = rows[id]
    BY <2>3
  <2>6. job'[w] = Job(st, id, host, form) /\ Become(w, Job(st, id, host, form))
    BY <1>3, <2>1, <2>5, BecomeLemma
  <2>7. JobShape(w)' /\ Held(w)'
    BY <2>2, <2>4, <2>5, <2>6, HeldJob
  <2>8. job'[w].step = st /\ job'[w].id = id /\ job'[w].host = host /\ job'[w].form = form
    BY <2>6, JobLemma
  <2>9. ~overlapped => Holds(w)'
    <3>1. ~overlapped => rows[id].born = form
      BY <1>3, <1>4, <1>5 DEF Holds
    <3>2. rows' = rows
      BY <1>1
    <3> QED
      BY <2>1, <2>2, <2>5, <2>8, <3>1, <3>2 DEF Holds
  <2>10. id = IF Held(w) THEN job[w].id ELSE 0
    BY <1>3, <1>4
  <2>11. Held(w)' => job'[w].id = id
    BY <2>8
  <2> QED
    BY <1>1, <1>2, <2>6, <2>7, <2>9, <2>10, <2>11, JobOnly, Zenon
<1> QED
  BY <1>6, <1>7

\* The keyring changes under the accounts of the row a command holds, which goes
\* on to write the record back with the reference that belongs to it.
LEMMA RefToWrite ==
    ASSUME IInv, NEW w \in Workers, job[w].step \in {"set", "clear"}, NEW id, id = job[w].id,
           NEW ref \in Refs(id), KeyringShape', UNCHANGED <<rows, births, failed, overlapped>>,
           Become(w, Job("write", id, [job[w].host EXCEPT !.secret_ref = ref], job[w].form)),
           \A k \in Ids : k # id => \A a \in AccountsOf(k) : SameEntry(a),
           \A a \in DOMAIN keyring.entries' : \/ a \in DOMAIN keyring.entries /\ SameEntry(a)
                                              \/ keyring.entries'[a] = job[w].form,
           ref = NoAccount \/ (ref \in DOMAIN keyring.entries' /\ keyring.entries'[ref] = job[w].form)
    PROVE  IInv'
<1>1. job[w].step \in RecordSteps /\ job[w].step # "write"
  BY DEF RecordSteps
<1>2. /\ Shapes /\ (~overlapped => Holds(w)) /\ Held(w) /\ id \in Ids
      /\ job[w].form \in 1 .. MaxBirths /\ job[w].host \in HostRecords(id)
  BY <1>1, StepLemma
<1>3. PICK form \in 1 .. MaxBirths : form = job[w].form
  BY <1>2
<1>4. PICK host : host = [job[w].host EXCEPT !.secret_ref = ref]
  OBVIOUS
<1>5. /\ host \in HostRecords(id) /\ host.secret_ref = ref /\ host.born = job[w].host.born
      /\ host.source = job[w].host.source
  BY <1>2, <1>4, RecordLemma
<1>6. "write" \in HeldSteps /\ "write" \in RecordSteps /\ "write" # "set"
  BY DEF HeldSteps, RecordSteps
<1>7. Become(w, Job("write", id, host, form))
  BY <1>3, <1>4
<1>8. job'[w] = Job("write", id, host, form) /\ \A v \in Workers \ {w} : job'[v] = job[v]
  BY <1>2, <1>7, BecomeLemma
<1>9. JobShape(w)' /\ Held(w)'
  BY <1>2, <1>5, <1>6, <1>8, HeldJob
<1>10. job'[w].step = "write" /\ job'[w].id = id /\ job'[w].host = host /\ job'[w].form = form
  BY <1>8, JobLemma
<1>11. RowShape' /\ (\A k : SameRow(k)) /\ rows' = rows
  BY <1>2, RowsKept
<1>12. overlapped' \in BOOLEAN /\ failed' \in BOOLEAN /\ (failed => failed') /\ (~overlapped' => ~overlapped)
  BY <1>2, Zenon DEF Shapes
<1>13. Shapes'
  BY <1>2, <1>7, <1>9, <1>11, <1>12, ShapesNext
<1>14. ASSUME ~overlapped PROVE Apart'
  <2>1. /\ id \in DOMAIN rows /\ rows[id].born = form /\ job[w].host.born = rows[id].born
        /\ job[w].host.source = rows[id].source /\ IdGood(id)
    BY <1>1, <1>2, <1>3, <1>14 DEF Holds, IInv, Apart
  <2>2. \A v \in Workers \ {w} : Held(v) => job[v].id # id
    BY <1>2, <1>14, OthersElsewhere
  <2>3. TouchesOnly(id)
    BY <1>11 DEF TouchesOnly
  <2>4. OneImport'
    BY <1>11, <1>14 DEF IInv, Apart, OneImport, Imported
  <2>5. Holds(w)'
    BY <1>3, <1>5, <1>10, <1>11, <2>1 DEF Holds
  <2>6. IdGood(id)'
    <3>1. ~Settled(id)'
      BY <1>10 DEF Settled
    <3>2. rows[id].secret_ref \in DOMAIN keyring.entries' => keyring.entries'[rows[id].secret_ref] = rows[id].born
      BY <1>3, <2>1 DEF IdGood, SameEntry
    <3> QED
      BY <1>11, <2>1, <3>1, <3>2 DEF IdGood
  <2>7. Held(w) => job[w].id = id
    OBVIOUS
  <2> QED
    BY <1>7, <1>10, <1>12, <1>13, <1>14, <2>2, <2>3, <2>4, <2>5, <2>6, <2>7, Local
<1> QED
  BY <1>12, <1>13, <1>14 DEF IInv

\* An account of one host is no account of another.
LEMMA OtherAccounts ==
    ASSUME NEW id \in Ids, NEW ref \in Refs(id), NEW k \in Ids, k # id, NEW a \in AccountsOf(k)
    PROVE  a # ref
<1>1. a # NoAccount
  BY NoAccountEmpty, AccountsTyped
<1>2. a \notin AccountsOf(id)
  BY AccountsApart
<1> QED
  BY <1>1, <1>2 DEF Refs

\* The secret goes into the keyring under the account of the chain.
LEMMA SetSecretStep ==
    ASSUME IInv, NEW w \in Workers, SetSecret(w)
    PROVE  IInv'
<1>1. job[w].step = "set" /\ UNCHANGED <<rows, births, overlapped>>
  BY DEF SetSecret
<1>2. "set" \in RecordSteps
  BY DEF RecordSteps
<1>3. Shapes /\ JobShape(w) /\ job[w].id \in Ids /\ job[w].form \in 1 .. MaxBirths
  BY <1>1, <1>2, StepLemma
<1>4. PICK id \in Ids : id = job[w].id
  BY <1>3
<1>5. PICK a : a = account_for(job[w].host)
  OBVIOUS
<1>6. a \in AccountsOf(id) /\ a \in Refs(id) /\ a \in Ids \X SecretKinds
  BY <1>1, <1>3, <1>4, <1>5, AccountsTyped DEF JobShape, Refs
<1>7. PICK form \in 1 .. MaxBirths : form = job[w].form
  BY <1>3
<1>8. CASE /\ keyring' = [keyring EXCEPT !.entries = Put(@, a, form)]
           /\ Become(w, Job("write", job[w].id, [job[w].host EXCEPT !.secret_ref = a], job[w].form))
           /\ UNCHANGED failed
  <2>1. /\ KeyringShape' /\ DOMAIN keyring.entries' = DOMAIN keyring.entries \union {a}
        /\ keyring.entries'[a] = form /\ \A b : b # a => SameEntry(b)
    BY <1>3, <1>6, <1>8, KeyringPut, Zenon
  <2>2. \A k \in Ids : k # id => \A b \in AccountsOf(k) : SameEntry(b)
    BY <1>6, <2>1, OtherAccounts
  <2>3. \A b \in DOMAIN keyring.entries' : \/ b \in DOMAIN keyring.entries /\ SameEntry(b)
                                           \/ keyring.entries'[b] = job[w].form
    BY <1>7, <2>1
  <2>4. a \in DOMAIN keyring.entries' /\ keyring.entries'[a] = job[w].form
    BY <1>7, <2>1
  <2>5. UNCHANGED <<rows, births, failed, overlapped>> /\ job[w].step \in {"set", "clear"}
    BY <1>1, <1>8
  <2>6. Become(w, Job("write", id, [job[w].host EXCEPT !.secret_ref = a], job[w].form))
    BY <1>4, <1>8, Zenon
  <2> QED
    BY <1>4, <1>6, <2>1, <2>2, <2>3, <2>4, <2>5, <2>6, RefToWrite, Zenon
<1>9. CASE Become(w, Idle) /\ failed' = TRUE /\ UNCHANGED keyring
  <2>1. UNCHANGED <<rows, keyring, births, overlapped>>
    BY <1>1, <1>9
  <2> QED
    BY <1>9, <2>1, GivesUp, Zenon
<1> QED
  BY <1>5, <1>7, <1>8, <1>9, Zenon DEF SetSecret

\* The account on record is cleared.
LEMMA ClearSecretStep ==
    ASSUME IInv, NEW w \in Workers, ClearSecret(w)
    PROVE  IInv'
<1>1. job[w].step = "clear" /\ UNCHANGED <<rows, births, overlapped>>
  BY DEF ClearSecret
<1>2. "clear" \in RecordSteps
  BY DEF RecordSteps
<1>3. Shapes /\ job[w].id \in Ids /\ job[w].host \in HostRecords(job[w].id)
  BY <1>1, <1>2, StepLemma
<1>4. PICK id \in Ids : id = job[w].id
  BY <1>3
<1>5. PICK a \in Refs(id) : a = job[w].host.secret_ref
  BY <1>3, <1>4, RecordLemma
<1>6. CASE /\ keyring' = [keyring EXCEPT !.entries = Without(@, {a})]
           /\ Become(w, Job("write", job[w].id, [job[w].host EXCEPT !.secret_ref = NoAccount], job[w].form))
           /\ UNCHANGED failed
  <2>1. /\ KeyringShape' /\ DOMAIN keyring.entries' = DOMAIN keyring.entries \ {a}
        /\ \A b : b \notin {a} => SameEntry(b)
    BY <1>3, <1>6, KeyringWithout, Zenon
  <2>2. \A k \in Ids : k # id => \A b \in AccountsOf(k) : SameEntry(b)
    BY <2>1, OtherAccounts
  <2>3. \A b \in DOMAIN keyring.entries' : b \in DOMAIN keyring.entries /\ SameEntry(b)
    BY <2>1
  <2>4. NoAccount \in Refs(id)
    BY DEF Refs
  <2>5. UNCHANGED <<rows, births, failed, overlapped>> /\ job[w].step \in {"set", "clear"}
    BY <1>1, <1>6
  <2>6. Become(w, Job("write", id, [job[w].host EXCEPT !.secret_ref = NoAccount], job[w].form))
    BY <1>4, <1>6, Zenon
  <2> QED
    BY <1>4, <2>1, <2>2, <2>3, <2>4, <2>5, <2>6, RefToWrite, Zenon
<1>7. CASE Become(w, Idle) /\ failed' = TRUE /\ UNCHANGED keyring
  <2>1. UNCHANGED <<rows, keyring, births, overlapped>>
    BY <1>1, <1>7
  <2> QED
    BY <1>7, <2>1, GivesUp, Zenon
<1> QED
  BY <1>5, <1>6, <1>7, Zenon DEF ClearSecret

\* The record goes back to the store: after its secret, or re-imported.
LEMMA WriteBackStep ==
    ASSUME IInv, NEW w \in Workers, WriteBack(w) \/ ImportUpdate(w)
    PROVE  IInv'
<1>1. /\ job[w].step \in {"write", "reimport"} /\ Become(w, Idle)
      /\ UNCHANGED <<keyring, births, overlapped>>
  BY DEF WriteBack, ImportUpdate
<1>2. job[w].step \in RecordSteps
  BY <1>1 DEF RecordSteps
<1>3. /\ Shapes /\ (~overlapped => Holds(w)) /\ Held(w) /\ job[w].id \in Ids
      /\ job[w].host \in HostRecords(job[w].id)
  BY <1>2, StepLemma
<1>4. PICK id \in Ids : id = job[w].id
  BY <1>3
<1>5. PICK host \in HostRecords(id) : host = job[w].host
  BY <1>3, <1>4
<1>6. CASE id \in DOMAIN rows /\ rows' = Put(rows, id, host) /\ failed' = failed
  <2>1. ~overlapped =>
           /\ host.born = rows[id].born /\ host.source = rows[id].source
           /\ \/ host.secret_ref = rows[id].secret_ref /\ job[w].step \notin {"write", "delete"}
              \/ host.secret_ref = NoAccount
              \/ host.secret_ref \in DOMAIN keyring.entries /\ keyring.entries[host.secret_ref] = host.born
    <3>1. SUFFICES ASSUME ~overlapped
                   PROVE  /\ host.born = rows[id].born /\ host.source = rows[id].source
                          /\ \/ host.secret_ref = rows[id].secret_ref /\ job[w].step \notin {"write", "delete"}
                             \/ host.secret_ref = NoAccount
                             \/ /\ host.secret_ref \in DOMAIN keyring.entries
                                /\ keyring.entries[host.secret_ref] = host.born
      OBVIOUS
    <3>2. Holds(w)
      BY <1>3, <3>1
    <3>3. host.born = rows[id].born /\ host.source = rows[id].source /\ rows[id].born = job[w].form
      BY <1>2, <1>3, <1>4, <1>5, <3>2 DEF Holds
    <3>4. CASE job[w].step = "write"
      BY <1>3, <1>4, <1>5, <3>2, <3>3, <3>4 DEF Holds
    <3>5. CASE job[w].step # "write"
      BY <1>1, <1>2, <1>3, <1>4, <1>5, <3>2, <3>3, <3>5 DEF Holds
    <3> QED
      BY <3>4, <3>5
  <2> QED
    BY <1>1, <1>3, <1>4, <1>5, <1>6, <2>1, RowWritten, Zenon
<1>7. CASE failed' = TRUE /\ UNCHANGED rows
  <2>1. UNCHANGED <<rows, keyring, births, overlapped>>
    BY <1>1, <1>7
  <2> QED
    BY <1>1, <1>7, <2>1, GivesUp, Zenon
<1> QED
  BY <1>4, <1>5, <1>6, <1>7, Zenon DEF WriteBack, ImportUpdate

\* delete_host clears both accounts, or leaves those it could not.
LEMMA DeleteClearStep ==
    ASSUME IInv, NEW w \in Workers, NEW id \in Ids, DeleteClear(w, id)
    PROVE  IInv'
<1>1. /\ job[w].step = "idle" /\ id \in DOMAIN rows /\ Become(w, Job("delete", id, rows[id], rows[id].born))
      /\ Touches(w, id) /\ UNCHANGED <<rows, births>>
  BY DEF DeleteClear, Starts
<1>2. PICK stuck : /\ keyring' = [keyring EXCEPT !.entries = Without(@, AccountsOf(id) \ stuck)]
                   /\ failed' = (failed \/ stuck # {})
  BY Zenon DEF DeleteClear
<1>3. ~Held(w) /\ Shapes /\ rows[id] \in HostRecords(id) /\ "delete" \in TakingSteps /\ "delete" # "reimport"
  BY <1>1, StepLemma DEF Shapes, RowShape, TakingSteps
<1>4. PICK host \in HostRecords(id) : host = rows[id]
  BY <1>3
<1>5. PICK gone : gone = AccountsOf(id) \ stuck
  OBVIOUS
<1>6. /\ KeyringShape' /\ DOMAIN keyring.entries' = DOMAIN keyring.entries \ gone
      /\ \A b : b \notin gone => SameEntry(b)
  BY <1>2, <1>3, <1>5, KeyringWithout, Zenon
<1>7. \A a \in DOMAIN keyring.entries' : a \in DOMAIN keyring.entries /\ SameEntry(a)
  BY <1>6
<1>8. \A k \in Ids : k # id => \A a \in AccountsOf(k) : SameEntry(a)
  BY <1>5, <1>6, AccountsApart
<1>9. failed' \in BOOLEAN /\ (failed => failed') /\ (~failed' => stuck = {})
  BY <1>2, Zenon
<1>10. failed' \/ AccountsOf(id) \intersect DOMAIN keyring.entries' = {}
  BY <1>5, <1>6, <1>9
<1>11. Become(w, Job("delete", id, host, rows[id].born)) /\ host.born = rows[id].born
       /\ host.source = rows[id].source /\ host.secret_ref = rows[id].secret_ref
  BY <1>1, <1>4
<1> QED
  BY <1>1, <1>3, <1>4, <1>6, <1>7, <1>8, <1>9, <1>10, <1>11, RowTaken, Zenon

\* The row goes last.
LEMMA DeleteRowStep ==
    ASSUME IInv, NEW w \in Workers, DeleteRow(w)
    PROVE  IInv'
<1>1. job[w].step = "delete" /\ Become(w, Idle) /\ UNCHANGED <<keyring, births, overlapped>>
  BY DEF DeleteRow
<1>2. job[w].step \in RecordSteps
  BY <1>1 DEF RecordSteps
<1>3. Shapes /\ (~overlapped => Holds(w)) /\ Held(w) /\ job[w].id \in Ids
  BY <1>2, StepLemma
<1>4. PICK id \in Ids : id = job[w].id
  BY <1>3
<1>5. CASE rows' = Without(rows, {id}) /\ failed' = failed
  <2>1. job'[w] = Idle /\ \A v \in Workers \ {w} : job'[v] = job[v]
    BY <1>1, <1>3, BecomeLemma
  <2>2. JobShape(w)' /\ ~Held(w)' /\ Holds(w)'
    BY <2>1, IdleJob
  <2>3. /\ RowShape' /\ DOMAIN rows' = DOMAIN rows \ {id}
        /\ (\A k \in DOMAIN rows' : rows'[k] = rows[k]) /\ \A k : k # id => SameRow(k)
    BY <1>1, <1>3, <1>5, RowGone
  <2>4. KeyringShape' /\ (\A a : SameEntry(a)) /\ keyring' = keyring
    BY <1>1, <1>3, KeyringKept
  <2>5. overlapped' \in BOOLEAN /\ failed' \in BOOLEAN /\ (failed => failed') /\ (~overlapped' => ~overlapped)
    BY <1>1, <1>3, <1>5, Zenon DEF Shapes
  <2>6. Shapes'
    BY <1>1, <1>3, <2>2, <2>3, <2>4, <2>5, ShapesNext
  <2>7. ASSUME ~overlapped PROVE Apart'
    <3>1. \A v \in Workers \ {w} : Held(v) => job[v].id # id
      BY <1>3, <1>4, <2>7, OthersElsewhere
    <3>2. TouchesOnly(id)
      BY <2>3, <2>4 DEF TouchesOnly
    <3>3. OneImport'
      BY <2>3, <2>7, OneImportKept DEF IInv, Apart
    <3>4. ~failed => AccountsOf(id) \intersect DOMAIN keyring.entries = {}
      BY <1>1, <1>3, <1>4, <2>7 DEF Holds
    <3>5. IdGood(id)'
      BY <1>5, <2>3, <2>4, <3>4 DEF IdGood
    <3>6. Held(w) => job[w].id = id
      BY <1>4
    <3> QED
      BY <1>1, <2>2, <2>5, <2>6, <2>7, <3>1, <3>2, <3>3, <3>5, <3>6, Local
  <2> QED
    BY <2>5, <2>6, <2>7 DEF IInv
<1>6. CASE failed' = TRUE /\ UNCHANGED rows
  <2>1. UNCHANGED <<rows, keyring, births, overlapped>>
    BY <1>1, <1>6
  <2> QED
    BY <1>1, <1>6, <2>1, GivesUp, Zenon
<1> QED
  BY <1>4, <1>5, <1>6, Zenon DEF DeleteRow

\* An import looks its alias up.
LEMMA ImportFindStep ==
    ASSUME IInv, NEW w \in Workers, NEW chain \in Chains, ImportFind(w, chain)
    PROVE  IInv'
<1>1. job[w].step = "idle" /\ UNCHANGED <<rows, keyring, births, failed>>
  BY DEF ImportFind, Starts
<1>2. ~Held(w) /\ Shapes /\ job[w].step \notin {"write", "delete"}
  BY <1>1, StepLemma
<1>3. CASE Imported = {}
  <2>1. Become(w, Job("import", 0, chain, 0)) /\ overlapped' = overlapped
    BY <1>3 DEF ImportFind
  <2>2. job'[w] = Job("import", 0, chain, 0)
    BY <1>2, <2>1, BecomeLemma
  <2>3. job'[w].step = "import" /\ job'[w].id = 0 /\ job'[w].host = chain
    BY <2>2, JobLemma
  <2>4. JobShape(w)' /\ ~Held(w)'
    BY <2>3 DEF JobShape, Held, HeldSteps, OpenSteps, RecordSteps
  <2>5. Holds(w)'
    BY <2>4 DEF Holds
  <2>6. UNCHANGED <<rows, keyring, births, failed, overlapped>>
    BY <1>1, <2>1
  <2>7. PICK i : i = IF Held(w) THEN job[w].id ELSE 0
    OBVIOUS
  <2> QED
    BY <1>2, <2>1, <2>4, <2>5, <2>6, <2>7, JobOnly, Zenon
<1>4. CASE Imported # {}
  <2>1. PICK id \in Imported :
            /\ Become(w, Job("reimport", id, [rows[id] EXCEPT !.auth = chain.auth], rows[id].born))
            /\ Touches(w, id)
    BY <1>4, Zenon DEF ImportFind
  <2>2. id \in DOMAIN rows /\ rows[id].source = "ssh_config" /\ rows[id] \in HostRecords(id)
    BY <1>2 DEF Imported, Shapes, RowShape
  <2>3. PICK host : host = [rows[id] EXCEPT !.auth = chain.auth]
    OBVIOUS
  <2>4. /\ host \in HostRecords(id) /\ host.secret_ref = rows[id].secret_ref /\ host.born = rows[id].born
        /\ host.source = rows[id].source
    BY <2>2, <2>3, RecordLemma
  <2>5. Become(w, Job("reimport", id, host, rows[id].born)) /\ host.source = "ssh_config"
    BY <2>1, <2>2, <2>3, <2>4, Zenon
  <2>6. KeyringShape' /\ (\A a : SameEntry(a)) /\ keyring' = keyring /\ failed' = failed
    BY <1>1, <1>2, KeyringKept
  <2>7. \A a \in DOMAIN keyring.entries' : a \in DOMAIN keyring.entries /\ SameEntry(a)
    BY <2>6
  <2>8. failed' \in BOOLEAN /\ (failed => failed') /\ "reimport" # "delete" /\ "reimport" \in TakingSteps
    BY <1>2, <2>6, FailedLemma DEF TakingSteps
  <2>9. UNCHANGED <<rows, births>>
    BY <1>1
  <2> QED
    BY <1>2, <2>1, <2>2, <2>4, <2>5, <2>6, <2>7, <2>8, <2>9, RowTaken, Zenon
<1> QED
  BY <1>3, <1>4

\* An import that found no row for its alias makes one, unless there is one by now.
LEMMA ImportCreateStep ==
    ASSUME IInv, NEW w \in Workers, ImportCreate(w)
    PROVE  IInv'
<1>1. job[w].step = "import" /\ Become(w, Idle) /\ UNCHANGED keyring
  BY DEF ImportCreate
<1>2. ~Held(w) /\ Shapes /\ job[w].host \in Chains /\ job[w].step \notin {"write", "delete"}
  BY <1>1, StepLemma DEF JobShape
<1>3. PICK c \in Chains : c = job[w].host
  BY <1>2
<1>4. CASE Imported = {} /\ births < MaxBirths /\ NewId \in Ids
  <2>1. /\ rows' = Put(rows, NewId, Draft(NewId, c, "ssh_config")) /\ births' = births + 1
        /\ Touches(w, NewId) /\ failed' = failed
    BY <1>3, <1>4, Zenon DEF ImportCreate
  <2>2. failed' \in BOOLEAN /\ (failed => failed') /\ "ssh_config" \in Sources
    BY <1>2, <2>1, FailedLemma DEF Sources
  <2> QED
    BY <1>1, <1>2, <1>4, <2>1, <2>2, RowCreated, Zenon
<1>5. CASE ~(Imported = {} /\ births < MaxBirths /\ NewId \in Ids)
  <2>1. failed' = TRUE /\ UNCHANGED <<rows, births, overlapped>>
    BY <1>5, Zenon DEF ImportCreate
  <2>2. UNCHANGED <<rows, keyring, births, overlapped>>
    BY <1>1, <2>1
  <2> QED
    BY <1>1, <2>1, <2>2, GivesUp, Zenon
<1> QED
  BY <1>4, <1>5

-----------------------------------------------------------------------------
(* The theorems.                                                            *)

\* An empty store and an empty keyring.
LEMMA InitIInv == Init => IInv
<1> SUFFICES ASSUME Init PROVE IInv
  OBVIOUS
<1>1. /\ rows = <<>> /\ keyring = [locked |-> FALSE, entries |-> <<>>] /\ job = [w \in Workers |-> Idle]
      /\ births = 0 /\ failed = FALSE /\ overlapped = FALSE
  BY DEF Init
<1>2. DOMAIN rows = {}
  BY <1>1
<1>3. keyring = [locked |-> FALSE, entries |-> keyring.entries] /\ DOMAIN keyring.entries = {}
  <2>1. \A l, f : [locked |-> l, entries |-> f].entries = f
    OBVIOUS
  <2>2. keyring.entries = <<>>
    BY <1>1, <2>1, Zenon
  <2>3. keyring = [locked |-> FALSE, entries |-> keyring.entries]
    BY <1>1, <2>2, Zenon
  <2>4. \A f : f = <<>> => DOMAIN f = {}
    OBVIOUS
  <2> QED
    BY <2>2, <2>3, <2>4, Zenon
<1>4. \A w \in Workers : job[w].step = "idle"
  BY <1>1 DEF Idle
<1>5. \A w \in Workers : ~Held(w) /\ JobShape(w)
  BY <1>4 DEF Held, JobShape, HeldSteps, OpenSteps, RecordSteps
<1>6. RowShape
  BY <1>1, <1>2, HostStoreConstants DEF RowShape
<1>7. KeyringShape
  BY <1>3, Zenon DEF KeyringShape
<1>8. overlapped \in BOOLEAN /\ failed \in BOOLEAN
  BY <1>1
<1>9. job = [w \in Workers |-> job[w]]
  BY <1>1
<1>10. Shapes
  BY <1>5, <1>6, <1>7, <1>8, <1>9, Zenon DEF Shapes
<1>11. Distinct /\ OneImport
  BY <1>2, <1>5 DEF Distinct, OneImport, Imported
<1>12. \A w \in Workers : Holds(w)
  BY <1>5 DEF Holds
<1>13. \A id \in Ids : IdGood(id)
  BY <1>2, <1>3 DEF IdGood
<1> QED
  BY <1>10, <1>11, <1>12, <1>13 DEF IInv, Apart

\* Every step of every command keeps the invariant.
LEMMA StepIInv == IInv /\ [Next]_vars => IInv'
<1> SUFFICES ASSUME IInv, [Next]_vars PROVE IInv'
  OBVIOUS
<1>1. CASE UNCHANGED vars
  <2>1. UNCHANGED <<rows, keyring, job, births, failed, overlapped>>
    BY <1>1 DEF vars
  <2>2. Shapes'
    <3>1. RowShape' /\ KeyringShape'
      BY <2>1, RowsKept, KeyringKept DEF IInv
    <3>2. \A w \in Workers : JobShape(w)'
      BY <2>1 DEF IInv, Shapes, JobShape, Held
    <3>3. /\ job' = [w \in Workers |-> job'[w]] /\ overlapped' \in BOOLEAN /\ failed' \in BOOLEAN
      BY <2>1 DEF IInv, Shapes
    <3> QED
      BY <3>1, <3>2, <3>3 DEF Shapes
  <2>3. ~overlapped => Apart'
    <3>1. SUFFICES ASSUME ~overlapped PROVE Apart'
      OBVIOUS
    <3>2. Distinct' /\ OneImport'
      BY <2>1, <3>1 DEF IInv, Apart, Distinct, OneImport, Imported, Held
    <3>3. \A w \in Workers : Holds(w)'
      BY <2>1, <3>1 DEF IInv, Apart, Holds, Held
    <3>4. \A id \in Ids : IdGood(id)'
      BY <2>1, <3>1 DEF IInv, Apart, IdGood, Settled
    <3> QED
      BY <3>2, <3>3, <3>4 DEF Apart
  <2> QED
    BY <2>1, <2>2, <2>3 DEF IInv
<1>2. CASE Next
  BY <1>1, <1>2, CreateHostStep, UpdateReadStep, UpdateWriteStep, SecretReadStep, SetSecretStep,
     ClearSecretStep, WriteBackStep, DeleteClearStep, DeleteRowStep, ImportFindStep, ImportCreateStep
     DEF Next, Rest
<1> QED
  BY <1>1, <1>2

\* The inductive invariant holds in every behaviour of the store's commands.
THEOREM Inductive == Spec => []IInv
BY InitIInv, StepIInv, PTL DEF Spec

\* A connect never sends the secret of another host, whatever calls failed and
\* although the id, and with it the accounts, of a deleted row are used again.
THEOREM SecretsAreOwn == Spec => []OwnSecret
<1>1. IInv => OwnSecret
  <2> SUFFICES ASSUME IInv PROVE OwnSecret
    OBVIOUS
  <2>1. RowShape /\ KeyringShape /\ DOMAIN rows \subseteq Ids
    BY DEF IInv, Shapes, RowShape
  <2>2. \A id \in DOMAIN rows :
          /\ rows[id].id = id /\ rows[id].born \in 1 .. MaxBirths /\ rows[id].source \in Sources
          /\ rows[id].secret_ref \in AccountsOf(id) \union {NoAccount}
    BY <2>1, RecordLemma DEF RowShape, Refs
  <2>3. TypeOK
    BY <2>1, <2>2 DEF TypeOK, KeyringShape
  <2>4. ~overlapped => \A id \in DOMAIN rows : IdGood(id)
    BY <2>1 DEF IInv, Apart
  <2> QED
    BY <2>3, <2>4 DEF OwnSecret, AccountRead, IdGood
<1> QED
  BY <1>1, Inductive, PTL

\* Records and keyring stay in step: deleting a host leaves nothing in the
\* keyring, and at rest a record that claims a stored secret has one.
THEOREM KeyringStaysInStep == Spec => []KeyringInStep
<1>1. IInv => KeyringInStep
  <2> SUFFICES ASSUME IInv PROVE KeyringInStep
    OBVIOUS
  <2>1. DOMAIN rows \subseteq Ids /\ DOMAIN keyring.entries \subseteq Ids \X SecretKinds
    BY DEF IInv, Shapes, RowShape, KeyringShape
  <2>2. ~overlapped => \A id \in Ids : IdGood(id)
    BY DEF IInv, Apart
  <2>3. NothingStranded
    <3>1. SUFFICES ASSUME ~overlapped, ~failed, NEW a \in DOMAIN keyring.entries PROVE a[1] \in DOMAIN rows
      BY DEF NothingStranded
    <3>2. a[1] \in Ids /\ a \in AccountsOf(a[1])
      BY <2>1, AccountsTyped
    <3> QED
      BY <2>2, <3>1, <3>2 DEF IdGood
  <2>4. RefIsTrue
    <3>1. SUFFICES ASSUME \A w \in Workers : job[w].step = "idle", ~failed, ~overlapped, NEW id \in DOMAIN rows
                   PROVE  rows[id].secret_ref # NoAccount => rows[id].secret_ref \in DOMAIN keyring.entries
      BY DEF RefIsTrue
    <3>2. Settled(id)
      BY <3>1 DEF Settled
    <3> QED
      BY <2>1, <2>2, <3>1, <3>2 DEF IdGood
  <2> QED
    BY <2>3, <2>4 DEF KeyringInStep
<1> QED
  BY <1>1, Inductive, PTL

\* A set without two different elements has at most one.
LEMMA AtMostOne ==
    ASSUME NEW S, \A i, j \in S : i = j
    PROVE  Cardinality(S) <= 1
<1>1. CASE S = {}
  BY <1>1, FS_EmptySet
<1>2. ASSUME NEW x \in S PROVE Cardinality(S) <= 1
  <2>1. S = {x}
    OBVIOUS
  <2> QED
    BY <2>1, FS_Singleton
<1> QED
  BY <1>1, <1>2

\* A step that ends an import or a re-import is that import's own.
LEMMA ImportEnds ==
    ASSUME IInv, Next, ~UNCHANGED vars, NEW w \in Workers, job[w].step \in {"import", "reimport"},
           job'[w].step = "idle"
    PROVE  ImportCreate(w) \/ ImportUpdate(w)
<1>1. \E v \in Workers : \/ ImportCreate(v) \/ ImportUpdate(v)
                         \/ job[v].step \notin {"import", "reimport"} /\ \E j : Become(v, j)
  <2>1. PICK v \in Workers :
            \/ \E chain \in Chains, secret \in {"unchanged", "set"} : CreateHost(v, chain, secret)
            \/ \E chain \in Chains, secret \in {"unchanged", "set", "clear"} : UpdateWrite(v, chain, secret)
            \/ \E id \in Ids : UpdateRead(v, id) \/ DeleteClear(v, id)
            \/ \E chain \in Chains : ImportFind(v, chain)
            \/ SecretRead(v) \/ SetSecret(v) \/ ClearSecret(v) \/ WriteBack(v)
            \/ DeleteRow(v) \/ ImportCreate(v) \/ ImportUpdate(v)
    BY DEF Next, Rest
  <2>2. ASSUME NEW chain, NEW secret, CreateHost(v, chain, secret)
        PROVE  job[v].step \notin {"import", "reimport"} /\ \E j : Become(v, j)
    <3>1. job[v].step = "idle" /\ \E j : Become(v, j)
      BY <2>2, Zenon DEF CreateHost, Starts
    <3> QED
      BY <3>1
  <2>3. ASSUME NEW chain, NEW secret, UpdateWrite(v, chain, secret)
        PROVE  job[v].step \notin {"import", "reimport"} /\ \E j : Become(v, j)
    <3>1. job[v].step = "edit" /\ \E j : Become(v, j)
      BY <2>3, Zenon DEF UpdateWrite
    <3> QED
      BY <3>1
  <2>4. ASSUME NEW id, UpdateRead(v, id) \/ DeleteClear(v, id)
        PROVE  job[v].step \notin {"import", "reimport"} /\ \E j : Become(v, j)
    <3>1. job[v].step = "idle" /\ \E j : Become(v, j)
      BY <2>4, Zenon DEF UpdateRead, DeleteClear, Starts
    <3> QED
      BY <3>1
  <2>5. ASSUME NEW chain, ImportFind(v, chain)
        PROVE  job[v].step \notin {"import", "reimport"} /\ \E j : Become(v, j)
    <3>1. job[v].step = "idle" /\ \E j : Become(v, j)
      BY <2>5, Zenon DEF ImportFind, Starts
    <3> QED
      BY <3>1
  <2>6. ASSUME SecretRead(v) \/ SetSecret(v) \/ ClearSecret(v) \/ WriteBack(v) \/ DeleteRow(v)
        PROVE  job[v].step \notin {"import", "reimport"} /\ \E j : Become(v, j)
    <3>1. /\ job[v].step \in {"open set", "open clear", "set", "clear", "write", "delete"}
          /\ \E j : Become(v, j)
      BY <2>6, Zenon DEF SecretRead, SetSecret, ClearSecret, WriteBack, DeleteRow
    <3> QED
      BY <3>1
  <2> QED
    BY <2>1, <2>2, <2>3, <2>4, <2>5, <2>6
<1>2. PICK v \in Workers : \/ ImportCreate(v) \/ ImportUpdate(v)
                           \/ job[v].step \notin {"import", "reimport"} /\ \E j : Become(v, j)
  BY <1>1
<1>3. PICK j : Become(v, j)
  BY <1>2 DEF ImportCreate, ImportUpdate
<1>4. v # w => job'[w] = job[w]
  BY <1>3, BecomeLemma DEF IInv
<1>5. v = w
  BY <1>4
<1> QED
  BY <1>2, <1>5

\* An import leaves the hosts that were made by hand alone, and never makes a
\* second row for its alias.
THEOREM ImportsKeepToThemselves == Spec => ImportKeepsToItself
<1> DEFINE Kept == /\ \A id \in DOMAIN rows : rows[id].source = "manual" => rows'[id] = rows[id]
                   /\ Cardinality(Imported') <= 1
<1>1. ASSUME IInv, IInv', Next, ~UNCHANGED vars, ~overlapped, NEW w \in Workers,
             job[w].step \in {"import", "reimport"}, job'[w].step = "idle"
      PROVE  Kept
  <2>1. Shapes /\ Holds(w) /\ OneImport
    BY <1>1 DEF IInv, Apart
  <2>2. CASE ImportCreate(w)
    <3>1. CASE Imported = {} /\ births < MaxBirths /\ NewId \in Ids
      <4>1. rows' = Put(rows, NewId, Draft(NewId, job[w].host, "ssh_config"))
        BY <2>2, <3>1 DEF ImportCreate
      <4>2. NewId \notin DOMAIN rows
        BY <2>1, NewIdIsNew
      <4>3. PICK id : id = NewId
        OBVIOUS
      <4>4. PICK host : host = Draft(NewId, job[w].host, "ssh_config")
        OBVIOUS
      <4>5. rows' = Put(rows, id, host) /\ id \notin DOMAIN rows
        BY <4>1, <4>2, <4>3, <4>4
      <4>6. DOMAIN rows' = DOMAIN rows \union {id} /\ \A k \in DOMAIN rows : rows'[k] = rows[k]
        BY <4>5 DEF Put
      <4>7. \A k \in DOMAIN rows : rows[k].source # "ssh_config"
        BY <3>1 DEF Imported
      <4>8. \A i, j \in Imported' : i = j
        BY <4>6, <4>7 DEF Imported
      <4> QED
        BY <4>6, <4>8, AtMostOne
    <3>2. CASE ~(Imported = {} /\ births < MaxBirths /\ NewId \in Ids)
      <4>1. rows' = rows
        BY <2>2, <3>2 DEF ImportCreate
      <4>2. \A i, j \in Imported' : i = j
        BY <2>1, <4>1 DEF OneImport, Imported
      <4> QED
        BY <4>1, <4>2, AtMostOne
    <3> QED
      BY <3>1, <3>2
  <2>3. CASE ImportUpdate(w)
    <3>1. job[w].step = "reimport" /\ overlapped' = overlapped
      BY <2>3 DEF ImportUpdate
    <3>2. job[w].step \in HeldSteps /\ job[w].step \in RecordSteps
      BY <3>1 DEF HeldSteps, RecordSteps
    <3>3. PICK id : id = job[w].id
      OBVIOUS
    <3>4. PICK host : host = job[w].host
      OBVIOUS
    <3>5. id \in DOMAIN rows /\ rows[id].source = "ssh_config"
      BY <2>1, <3>1, <3>2, <3>3 DEF Holds, Held
    <3>6. \A k \in DOMAIN rows : k # id => rows'[k] = rows[k]
      <4>1. rows' = rows \/ rows' = Put(rows, id, host)
        BY <2>3, <3>3, <3>4 DEF ImportUpdate
      <4> QED
        BY <4>1 DEF Put
    <3>7. \A k \in DOMAIN rows : rows[k].source = "manual" => rows'[k] = rows[k]
      BY <3>5, <3>6
    <3>8. \A i, j \in Imported' : i = j
      BY <1>1, <3>1 DEF IInv, Apart, OneImport
    <3> QED
      BY <3>7, <3>8, AtMostOne
  <2> QED
    BY <1>1, <2>2, <2>3, ImportEnds
<1>2. IInv /\ IInv' /\ [Next]_vars =>
        [~overlapped /\ (\E w \in Workers : job[w].step \in {"import", "reimport"} /\ job'[w].step = "idle")
            => Kept]_vars
  BY <1>1
<1> QED
  BY <1>2, Inductive, StepIInv, PTL DEF Spec, ImportKeepsToItself

=============================================================================
