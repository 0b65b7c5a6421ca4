---------------------------- MODULE AuthChain_proofs ----------------------------
(***************************************************************************)
(* Proofs about module AuthChain, for any records, servers, agents, key    *)
(* file and limits.                                                        *)
(***************************************************************************)
EXTENDS AuthChain, WellFoundedInduction, TLAPS

-----------------------------------------------------------------------------
(* The filter of auth_for_host.                                             *)

\* Induction over the natural numbers, for a set: the least number outside it
\* would have its predecessor inside.
LEMMA SetInduction ==
    ASSUME NEW P, 0 \in P, \A n \in Nat : n \in P => n + 1 \in P
    PROVE  Nat \subseteq P
<1> DEFINE Less == {ss \in Nat \X Nat : ss[1] < ss[2]}
<1> DEFINE Bad == {n \in Nat : n \notin P}
<1>1. IsWellFoundedOn(Less, Nat)
  BY NatLessThanWellFounded, Zenon DEF OpToRel
<1>2. SUFFICES ASSUME NEW b \in Bad PROVE FALSE
  OBVIOUS
<1>3. Bad \subseteq Nat
  OBVIOUS
<1> HIDE DEF Bad, Less
<1>4. PICK m \in Bad : \A u \in Bad : ~ (<<u, m>> \in Less)
  BY <1>1, <1>2, <1>3, WFMin, Zenon
<1> USE DEF Bad, Less
<1>5. m \in Nat /\ m # 0 /\ m \notin P
  BY <1>4
<1>6. m - 1 \in Nat /\ m - 1 + 1 = m /\ m - 1 < m
  BY <1>5
<1>7. m - 1 \notin P
  BY <1>5, <1>6
<1>8. <<m - 1, m>> \in Nat \X Nat /\ <<m - 1, m>>[1] = m - 1 /\ <<m - 1, m>>[2] = m
  BY <1>5, <1>6
<1>9. <<m - 1, m>> \in Less
  BY <1>6, <1>8
<1> QED
  BY <1>4, <1>6, <1>7, <1>9

\* One step of the filter, and the whole of it up to n.
Keep(f, s, x, i) == IF i = 0 THEN <<>> ELSE IF s[i] = x THEN f[i - 1] ELSE Append(f[i - 1], s[i])
Filters(f, s, x, n) == f = [i \in 0 .. n |-> Keep(f, s, x, i)]

\* The recursion that defines the filter has a solution.
LEMMA FilterExists ==
    ASSUME NEW s, NEW x, NEW n \in Nat
    PROVE  \E f : Filters(f, s, x, n)
<1> DEFINE P == {m \in Nat : \E f : Filters(f, s, x, m)}
<1>1. 0 \in P
  <2>1. PICK f : f = [i \in 0 .. 0 |-> <<>>]
    OBVIOUS
  <2>2. \A i \in 0 .. 0 : Keep(f, s, x, i) = <<>>
    BY DEF Keep
  <2>3. Filters(f, s, x, 0)
    BY <2>1, <2>2 DEF Filters
  <2> QED
    BY <2>3
<1>2. ASSUME NEW m \in Nat, m \in P
      PROVE  m + 1 \in P
  <2>1. PICK f : Filters(f, s, x, m)
    BY <1>2
  <2>2. PICK g : g = [i \in 0 .. m + 1 |-> IF i = m + 1 THEN Keep(f, s, x, m + 1) ELSE f[i]]
    OBVIOUS
  <2>3. ASSUME NEW i \in 0 .. m + 1
        PROVE  g[i] = Keep(g, s, x, i)
    <3>1. i \in Nat /\ (i # 0 => i - 1 \in 0 .. m + 1 /\ i - 1 # m + 1)
      OBVIOUS
    <3>2. i # 0 => g[i - 1] = f[i - 1]
      BY <2>2, <3>1
    <3>3. Keep(g, s, x, i) = Keep(f, s, x, i)
      BY <3>1, <3>2, Zenon DEF Keep
    <3>4. i # m + 1 => g[i] = f[i] /\ f[i] = Keep(f, s, x, i)
      <4>1. i # m + 1 => i \in 0 .. m
        OBVIOUS
      <4>2. i \in 0 .. m => f[i] = Keep(f, s, x, i)
        BY <2>1, Zenon DEF Filters
      <4>3. i # m + 1 => g[i] = f[i]
        BY <2>2, Zenon
      <4> QED
        BY <4>1, <4>2, <4>3, Zenon
    <3>5. i = m + 1 => g[i] = Keep(f, s, x, i)
      BY <2>2, Zenon
    <3> QED
      BY <3>3, <3>4, <3>5, Zenon
  <2>4. g = [i \in 0 .. m + 1 |-> g[i]]
    BY <2>2, Zenon
  <2>5. Filters(g, s, x, m + 1)
    BY <2>3, <2>4, Zenon DEF Filters
  <2>6. m + 1 \in Nat
    OBVIOUS
  <2> QED
    BY <2>5, <2>6, Zenon
<1>3. Nat \subseteq P
  <2> HIDE DEF P
  <2> QED
    BY <1>1, <1>2, SetInduction, Zenon
<1> QED
  BY <1>3, Zenon

\* What r is of the first n elements of s: those other than x, and no longer;
\* an element that s has once it has at most once.
Once(s, y) == \A i, k \in DOMAIN s : s[i] = y /\ s[k] = y => i = k
Sieved(r, S, s, x, n) ==
    /\ r \in Seq(S) /\ Len(r) <= n
    /\ \A i \in DOMAIN r : r[i] # x /\ \E j \in 1 .. n : s[j] = r[i]
    /\ \A j \in 1 .. n : s[j] # x => \E i \in DOMAIN r : r[i] = s[j]
    /\ \A y : Once(s, y) => Once(r, y)

\* The next element is x and is passed over.
LEMMA SievePasses ==
    ASSUME NEW S, NEW s \in Seq(S), NEW x, NEW n \in Nat, n + 1 <= Len(s), NEW r, Sieved(r, S, s, x, n), s[n + 1] = x
    PROVE  Sieved(r, S, s, x, n + 1)
BY DEF Sieved

\* The next element is kept.
LEMMA SieveKeeps ==
    ASSUME NEW S, NEW s \in Seq(S), NEW x, NEW n \in Nat, n + 1 <= Len(s), NEW r, Sieved(r, S, s, x, n), s[n + 1] # x
    PROVE  Sieved(Append(r, s[n + 1]), S, s, x, n + 1)
<1> DEFINE e == s[n + 1]
<1> DEFINE q == Append(r, e)
<1>1. e \in S /\ r \in Seq(S) /\ Len(r) <= n
  BY DEF Sieved
<1>2. /\ q \in Seq(S) /\ Len(q) = Len(r) + 1 /\ DOMAIN q = 1 .. Len(r) + 1 /\ DOMAIN r = 1 .. Len(r)
      /\ q[Len(r) + 1] = e /\ \A i \in 1 .. Len(r) : q[i] = r[i]
  BY <1>1
<1> HIDE DEF q
<1>3. Len(q) <= n + 1
  BY <1>1, <1>2
<1>4. ASSUME NEW i \in DOMAIN q
      PROVE  q[i] # x /\ \E j \in 1 .. n + 1 : s[j] = q[i]
  BY <1>1, <1>2 DEF Sieved
<1>5. ASSUME NEW j \in 1 .. n + 1, s[j] # x
      PROVE  \E i \in DOMAIN q : q[i] = s[j]
  <2>1. CASE j = n + 1
    BY <2>1, <1>1, <1>2
  <2>2. CASE j # n + 1
    <3>1. PICK i \in DOMAIN r : r[i] = s[j]
      BY <2>2, <1>5 DEF Sieved
    <3> QED
      BY <3>1, <1>1, <1>2
  <2> QED
    BY <2>1, <2>2
<1>6. ASSUME NEW y, Once(s, y), NEW i \in DOMAIN q, NEW k \in DOMAIN q, q[i] = y, q[k] = y
      PROVE  i = k
  <2>1. CASE y = e
    <3>1. ASSUME NEW m \in DOMAIN r PROVE r[m] # e
      <4>1. PICK j \in 1 .. n : s[j] = r[m]
        BY DEF Sieved
      <4>2. j \in DOMAIN s /\ n + 1 \in DOMAIN s /\ j # n + 1
        OBVIOUS
      <4> QED
        BY <1>6, <2>1, <4>1, <4>2 DEF Once
    <3>2. i = Len(r) + 1 /\ k = Len(r) + 1
      BY <1>1, <1>2, <1>6, <2>1, <3>1
    <3> QED
      BY <3>2
  <2>2. CASE y # e
    <3>1. i \in DOMAIN r /\ k \in DOMAIN r /\ r[i] = y /\ r[k] = y
      BY <1>1, <1>2, <1>6, <2>2
    <3>2. Once(r, y)
      BY <1>6 DEF Sieved
    <3> QED
      BY <3>1, <3>2 DEF Once
  <2> QED
    BY <2>1, <2>2
<1>7. \A y : Once(s, y) => Once(q, y)
  BY <1>6 DEF Once
<1> QED
  BY <1>2, <1>3, <1>4, <1>5, <1>7 DEF Sieved, q

\* What the filter of auth_for_host returns.
LEMMA OthersLemma ==
    ASSUME NEW S, NEW h, h.auth_fallbacks \in Seq(S)
    PROVE  Sieved(Others(h), S, h.auth_fallbacks, h.auth, Len(h.auth_fallbacks))
<1>1. PICK s \in Seq(S) : s = h.auth_fallbacks
  OBVIOUS
<1>2. PICK x : x = h.auth
  OBVIOUS
<1>3. Len(s) \in Nat
  OBVIOUS
<1> DEFINE f == CHOOSE f : Filters(f, s, x, Len(s))
<1>4. Filters(f, s, x, Len(s))
  BY <1>3, FilterExists, Zenon
<1>5. Others(h) = f[Len(s)]
  BY <1>1, <1>2, Zenon DEF Others, Filters, Keep
<1> HIDE DEF f
<1>6. \A n \in 0 .. Len(s) : f[n] = Keep(f, s, x, n)
  BY <1>4, Zenon DEF Filters
<1> DEFINE P == {n \in Nat : n <= Len(s) => Sieved(f[n], S, s, x, n)}
<1>7. 0 \in P
  <2>1. 0 \in 0 .. Len(s)
    BY <1>3
  <2>2. f[0] = <<>>
    BY <1>6, <2>1, Zenon DEF Keep
  <2>3. Sieved(<<>>, S, s, x, 0)
    BY DEF Sieved, Once
  <2> QED
    BY <2>2, <2>3
<1>8. ASSUME NEW n \in Nat, n \in P
      PROVE  n + 1 \in P
  <2>1. SUFFICES ASSUME n + 1 <= Len(s) PROVE Sieved(f[n + 1], S, s, x, n + 1)
    OBVIOUS
  <2>2. n + 1 \in 0 .. Len(s) /\ n + 1 # 0 /\ n + 1 - 1 = n /\ n <= Len(s)
    BY <1>3, <2>1
  <2>3. Sieved(f[n], S, s, x, n)
    BY <1>8, <2>2
  <2>4. f[n + 1] = IF s[n + 1] = x THEN f[n] ELSE Append(f[n], s[n + 1])
    <3>1. PICK m \in 0 .. Len(s) : m = n + 1 /\ m # 0 /\ m - 1 = n
      BY <2>2
    <3>2. f[m] = Keep(f, s, x, m)
      BY <1>6, Zenon
    <3>3. f[m] = IF s[m] = x THEN f[m - 1] ELSE Append(f[m - 1], s[m])
      BY <3>1, <3>2, Zenon DEF Keep
    <3> QED
      BY <3>1, <3>3, Zenon
  <2>5. CASE s[n + 1] = x
    BY <2>1, <2>3, <2>4, <2>5, SievePasses, Zenon
  <2>6. CASE s[n + 1] # x
    BY <2>1, <2>3, <2>4, <2>6, SieveKeeps, Zenon
  <2> QED
    BY <2>5, <2>6
<1>9. Nat \subseteq P
  <2> HIDE DEF P
  <2> QED
    BY <1>7, <1>8, SetInduction, Zenon
<1>10. Sieved(f[Len(s)], S, s, x, Len(s))
  BY <1>3, <1>9
<1> QED
  BY <1>1, <1>2, <1>5, <1>10, Zenon

-----------------------------------------------------------------------------
(* The chain.                                                               *)

Secrets == {Password, KeyFile.lock, Blank}
Methods == [kind : Kinds, secret : Secrets]
KeyringOK(k) == \A a \in DOMAIN k.entries : k.entries[a] \in {Password, KeyFile.lock}
OnePassword(c) == \A m, n \in DOMAIN c : c[m].kind = "password" /\ c[n].kind = "password" => m = n

\* A sequence with an element put in front of it.
LEMMA ConsLemma ==
    ASSUME NEW S, NEW a \in S, NEW r \in Seq(S)
    PROVE  /\ <<a>> \o r \in Seq(S) /\ Len(<<a>> \o r) = 1 + Len(r)
           /\ (<<a>> \o r)[1] = a /\ 1 \in DOMAIN (<<a>> \o r)
           /\ \A n \in DOMAIN (<<a>> \o r) : n # 1 => n - 1 \in DOMAIN r /\ (<<a>> \o r)[n] = r[n - 1]
           /\ \A i \in DOMAIN r : i + 1 \in DOMAIN (<<a>> \o r) /\ (<<a>> \o r)[i + 1] = r[i]
OBVIOUS

\* The kinds auth_for_host tries: the primary one, then the other fallbacks.
LEMMA KindsLemma ==
    ASSUME NEW h \in Hosts, NEW kinds, kinds = <<h.auth>> \o Others(h)
    PROVE  /\ kinds \in Seq(Kinds) /\ Len(kinds) <= 1 + Len(h.auth_fallbacks)
           /\ kinds[1] = h.auth /\ 1 \in DOMAIN kinds
           /\ \A n \in DOMAIN kinds : n # 1 => n - 1 \in DOMAIN Others(h) /\ kinds[n] = Others(h)[n - 1]
           /\ \A i \in DOMAIN Others(h) : i + 1 \in DOMAIN kinds /\ kinds[i + 1] = Others(h)[i]
<1>1. h.auth \in Kinds /\ h.auth_fallbacks \in Seq(Kinds)
  BY AuthConstants
<1>2. PICK r \in Seq(Kinds) : r = Others(h) /\ Len(r) <= Len(h.auth_fallbacks)
  BY <1>1, OthersLemma DEF Sieved
<1>3. PICK a \in Kinds : a = h.auth
  BY <1>1
<1>4. kinds = <<a>> \o r
  BY <1>2, <1>3
<1>5. kinds \in Seq(Kinds) /\ Len(kinds) = 1 + Len(r)
  <2>1. <<a>> \o r \in Seq(Kinds) /\ Len(<<a>> \o r) = 1 + Len(r)
    BY ConsLemma, ZenonT(60)
  <2> QED
    BY <1>4, <2>1, Zenon
<1>6. Len(h.auth_fallbacks) \in Nat
  BY <1>1
<1>7. Len(kinds) <= 1 + Len(h.auth_fallbacks)
  BY <1>2, <1>5, <1>6
<1>8. kinds[1] = a /\ 1 \in DOMAIN kinds
  BY <1>4, <1>5
<1>9. /\ \A n \in DOMAIN kinds : n # 1 => n - 1 \in DOMAIN r /\ kinds[n] = r[n - 1]
      /\ \A i \in DOMAIN r : i + 1 \in DOMAIN kinds /\ kinds[i + 1] = r[i]
  BY <1>4, <1>5
<1> QED
  BY <1>2, <1>3, <1>5, <1>7, <1>8, <1>9

\* At most one of them is the password.
LEMMA OnePasswordLemma ==
    ASSUME NEW h \in Hosts, NEW kinds, kinds = <<h.auth>> \o Others(h)
    PROVE  Once(kinds, "password")
<1>1. h.auth \in Kinds /\ h.auth_fallbacks \in Seq(Kinds) /\ Once(h.auth_fallbacks, "password")
  BY AuthConstants, Zenon DEF Once
<1>2. Once(Others(h), "password") /\ \A i \in DOMAIN Others(h) : Others(h)[i] # h.auth
  BY <1>1, OthersLemma DEF Sieved
<1>3. SUFFICES ASSUME NEW i \in DOMAIN kinds, NEW k \in DOMAIN kinds, kinds[i] = "password", kinds[k] = "password"
               PROVE  i = k
  BY Zenon DEF Once
<1>4. kinds[1] = h.auth /\ \A n \in DOMAIN kinds : n # 1 => n - 1 \in DOMAIN Others(h) /\ kinds[n] = Others(h)[n - 1]
  BY KindsLemma
<1>5. i # 1 /\ k # 1 => i - 1 = k - 1
  BY <1>2, <1>3, <1>4, Zenon DEF Once
<1>6. i = 1 <=> k = 1
  BY <1>2, <1>3, <1>4, Zenon
<1>7. kinds \in Seq(Kinds)
  BY KindsLemma
<1>8. i \in Int /\ k \in Int
  BY <1>7
<1> QED
  BY <1>5, <1>6, <1>8

\* The secret every method shares: the one on record, or none when the account
\* is missing or the keyring cannot be read.
LEMMA StoredLemma ==
    ASSUME NEW k, KeyringOK(k), NEW account
    PROVE  /\ Known(read_secret(k, account)) \in Secrets
           /\ account \notin DOMAIN k.entries => Known(read_secret(k, account)) = Blank
<1>1. CASE account = NoAccount
  BY <1>1 DEF Known, read_secret, Secrets, Blank, Unread
<1>2. CASE account # NoAccount /\ k.locked
  BY <1>2 DEF Known, read_secret, Secrets, Blank, Unread
<1>3. CASE account # NoAccount /\ ~k.locked /\ account \in DOMAIN k.entries
  BY <1>3 DEF Known, read_secret, Secrets, Blank, Unread, KeyringOK
<1>4. CASE account # NoAccount /\ ~k.locked /\ account \notin DOMAIN k.entries
  BY <1>4 DEF Known, read_secret, Secrets, Blank, Unread
<1> QED
  BY <1>1, <1>2, <1>3, <1>4

\* The chain auth_for_host builds.
LEMMA ChainLemma ==
    ASSUME NEW h \in Hosts, NEW k, KeyringOK(k), NEW c, c = auth_for_host(h, k)
    PROVE  /\ c \in Seq(Methods) /\ Len(c) <= 1 + Len(h.auth_fallbacks)
           /\ OnePassword(c)
           /\ h.secret_ref \notin DOMAIN k.entries => \A n \in DOMAIN c : c[n].secret = Blank
<1>1. PICK stored : stored = Known(read_secret(k, h.secret_ref))
  OBVIOUS
<1>2. PICK kinds : kinds = <<h.auth>> \o Others(h)
  OBVIOUS
<1>3. c = [n \in DOMAIN kinds |-> Method(kinds[n], stored)]
  BY <1>1, <1>2, Zenon DEF auth_for_host, AccountRead
<1>4. stored \in Secrets /\ (h.secret_ref \notin DOMAIN k.entries => stored = Blank)
  BY <1>1, StoredLemma, Zenon
<1>5. kinds \in Seq(Kinds) /\ Len(kinds) <= 1 + Len(h.auth_fallbacks)
  BY <1>2, KindsLemma
<1>6. \A kind \in Kinds : Method(kind, stored) \in Methods /\ Method(kind, stored).kind = kind
  BY <1>4 DEF Method, Methods, Secrets
<1>7. Blank \in Secrets /\ \A kind : Method(kind, Blank).secret = Blank
  BY DEF Method, Secrets
<1>8. DOMAIN kinds = 1 .. Len(kinds) /\ Len(kinds) \in Nat /\ \A n \in DOMAIN kinds : kinds[n] \in Kinds
  BY <1>5
<1>9. c \in Seq(Methods) /\ Len(c) = Len(kinds) /\ DOMAIN c = DOMAIN kinds
  BY <1>3, <1>6, <1>8
<1>10. \A n \in DOMAIN c : c[n].kind = kinds[n]
  BY <1>3, <1>6, <1>8, <1>9, Zenon
<1>11. OnePassword(c)
  BY <1>2, <1>9, <1>10, OnePasswordLemma, ZenonT(60) DEF OnePassword, Once
<1>12. h.secret_ref \notin DOMAIN k.entries => \A n \in DOMAIN c : c[n].secret = Blank
  BY <1>3, <1>4, <1>7, <1>9, ZenonT(60)
<1> QED
  BY <1>5, <1>9, <1>11, <1>12

-----------------------------------------------------------------------------
(* The invariant.                                                           *)

Running == {"chain", "agent"}
Peers == [alive : BOOLEAN, tries : 0 .. MaxAuthTries, passed : SUBSET WireKinds]

World == host \in Hosts /\ server \in Servers /\ agent \in Agents
Vault ==
    /\ keyring = [locked |-> keyring.locked, entries |-> keyring.entries] /\ KeyringOK(keyring)
    /\ \A c \in cleared : c[1] \notin DOMAIN keyring.entries
    /\ attempts \in Nat

\* The chain in use is the record's, and a password it holds stands there once.
Built ==
    /\ chain \in Seq(Methods) /\ Len(chain) <= 1 + Len(host.auth_fallbacks) /\ OnePassword(chain)
    /\ next \in 1 .. Len(chain) + 1

\* A password that was sent has been passed in the chain.
Guesses ==
    /\ guessed \in 0 .. 1
    /\ phase \in Running /\ guessed = 1 => \E m \in DOMAIN chain : m < next /\ chain[m].kind = "password"

\* A peer that lives has tries left; what has passed is less than it wants.
PeerOK(p) ==
    /\ p \in Peers /\ p.passed \subseteq server.methods
    /\ p.alive => p.tries < MaxAuthTries
Open(p) == IF server.both THEN p.passed # server.methods ELSE p.passed = {}

\* What authenticate knows of the server's list is what the server said last,
\* and that is nothing, an empty list, or what it still wants.
Lists ==
    /\ offered \in (SUBSET WireKinds) \union {Unknown} /\ told \in (SUBSET WireKinds) \union {Unknown}
    /\ verdict \in (SUBSET WireKinds) \union {NoVerdict}
    /\ phase = "chain" => told = offered
    /\ phase = "agent" => told = IF verdict = NoVerdict THEN offered ELSE verdict
    /\ phase \in Running => told \in {Unknown, {}, Left(peer.passed)}

\* Where the two loops stand.
Loops ==
    /\ phase \in {"idle", "chain", "agent", "up", "failed"}
    /\ identity \in Nat \ {0}
    /\ phase = "agent" => /\ identity <= Len(agent) + 1
                          /\ next \in DOMAIN chain /\ chain[next].kind = "agent"
    /\ phase = "failed" => next > Len(chain)

\* While the peer lives, a method that is behind and that the server would have
\* taken has passed; so have the identities behind in the agent's list.
Behind ==
    \A n \in DOMAIN chain : n < next /\ Usable(chain[n]) /\ method_kind(chain[n]) \in server.methods
                               => method_kind(chain[n]) \in peer.passed
BehindInAgent ==
    \A m \in DOMAIN agent : m < identity /\ agent[m] \in server.keys /\ "publickey" \in server.methods
                               => "publickey" \in peer.passed
Progress ==
    /\ PeerOK(peer)
    /\ phase \in Running \union {"failed"} => Open(peer)
    /\ phase \in Running \union {"failed"} /\ peer.alive => Behind
    /\ phase = "agent" /\ peer.alive => BehindInAgent

IInv == World /\ Vault /\ ClearedNotReused /\ Built /\ Guesses /\ Lists /\ Loops /\ Progress

-----------------------------------------------------------------------------
(* One try.                                                                 *)

\* What authenticate may rely on when it has sent a try: a rejection comes with
\* an empty list or with what is still wanted, the server wants more, and a good
\* try of a method it wants has passed; an error means that the peer is gone.
Outcome(kind, good, t) ==
    /\ t.answer \in {"error", "success", "failure"}
    /\ PeerOK(t.peer)
    /\ t.answer # "failure" => t.list = told
    /\ t.answer = "error" => ~t.peer.alive /\ t.peer.passed = peer.passed
    /\ t.answer = "failure" =>
          /\ t.list \in {{}, Left(t.peer.passed)} /\ Open(t.peer)
          /\ peer.alive /\ peer.passed \subseteq t.peer.passed
          /\ good /\ kind \in server.methods => kind \in t.peer.passed

\* What the assumptions say of the server.
LEMMA ServerLemma ==
    ASSUME World
    PROVE  /\ server.methods \subseteq WireKinds /\ server.methods # {}
           /\ server.both \in BOOLEAN /\ server.tells \in BOOLEAN
           /\ "certificate" \notin server.keys /\ "unsignable" \notin server.keys
BY AuthConstants DEF World

\* A peer by its parts.
Peer(al, tr, pa) == [alive |-> al, tries |-> tr, passed |-> pa]

\* The server's answer to a try.
LEMMA TryLemma ==
    ASSUME World, PeerOK(peer), Open(peer), NEW kind \in WireKinds, NEW good \in BOOLEAN
    PROVE  Outcome(kind, good, Try(kind, good))
<1>1. /\ peer.alive \in BOOLEAN /\ peer.tries \in 0 .. MaxAuthTries /\ peer.passed \in SUBSET WireKinds
      /\ peer = [alive |-> peer.alive, tries |-> peer.tries, passed |-> peer.passed]
  BY DEF PeerOK, Peers
<1>2. PICK al \in BOOLEAN, tr \in 0 .. MaxAuthTries, pa \in SUBSET WireKinds :
          /\ al = peer.alive /\ tr = peer.tries /\ pa = peer.passed
          /\ peer = [alive |-> al, tries |-> tr, passed |-> pa]
  BY <1>1, Zenon
<1>3. (al => tr < MaxAuthTries) /\ pa \subseteq server.methods /\ tr \in Nat /\ MaxAuthTries \in Nat
  BY <1>2, AuthConstants DEF PeerOK
<1>4. server.methods \subseteq WireKinds
  BY ServerLemma
<1>5. PICK ok \in BOOLEAN : ok <=> Passes(kind, good)
  BY Zenon
<1>6. PICK passed \in SUBSET WireKinds : passed = IF ok THEN pa \union {kind} ELSE pa
  BY Zenon
<1>7. PICK tries \in Nat : tries = IF ok THEN tr ELSE tr + 1
  BY <1>3
<1>8. PICK t : t = Try(kind, good)
  OBVIOUS
<1>9. t = IF ~al \/ tries >= MaxAuthTries
          THEN [answer |-> "error", list |-> told,
                peer |-> [peer EXCEPT !.alive = FALSE, !.tries = IF al THEN tries ELSE @]]
          ELSE IF ok /\ ~Wanted(passed)
          THEN [answer |-> "success", list |-> told, peer |-> [peer EXCEPT !.passed = passed]]
          ELSE [answer |-> "failure", list |-> Listed(passed),
                peer |-> [peer EXCEPT !.tries = tries, !.passed = passed]]
  BY <1>2, <1>5, <1>6, <1>7, <1>8, Zenon DEF Try
<1>10. passed \subseteq server.methods /\ pa \subseteq passed
  BY <1>2, <1>3, <1>5, <1>6 DEF Passes, Left
<1>11. CASE ~al \/ tries >= MaxAuthTries
  <2>1. PICK n \in 0 .. MaxAuthTries : n = IF al THEN tries ELSE tr
    BY <1>3, <1>7
  <2>2. PICK p : p = [peer EXCEPT !.alive = FALSE, !.tries = IF al THEN tries ELSE @]
    OBVIOUS
  <2>3. p = Peer(FALSE, n, pa)
    BY <1>2, <2>1, <2>2 DEF Peer
  <2>4. p \in Peers /\ p.alive = FALSE /\ p.tries = n /\ p.passed = pa
    BY <2>3 DEF Peer, Peers
  <2>5. t.answer = "error" /\ t.list = told /\ t.peer = p
    BY <1>9, <1>11, <2>2
  <2>6. PeerOK(p)
    BY <1>3, <2>4, Zenon DEF PeerOK
  <2> QED
    BY <1>2, <1>8, <2>4, <2>5, <2>6, Zenon DEF Outcome
<1>12. CASE al /\ ~(tries >= MaxAuthTries) /\ ok /\ ~Wanted(passed)
  <2>1. PICK p : p = [peer EXCEPT !.passed = passed]
    OBVIOUS
  <2>2. p = Peer(al, tr, passed)
    BY <1>2, <2>1 DEF Peer
  <2>3. p \in Peers /\ p.alive = al /\ p.tries = tr /\ p.passed = passed
    BY <2>2 DEF Peer, Peers
  <2>4. t.answer = "success" /\ t.list = told /\ t.peer = p
    BY <1>9, <1>12, <2>1
  <2>5. PeerOK(p)
    BY <1>3, <1>10, <2>3, Zenon DEF PeerOK
  <2> QED
    BY <1>8, <2>4, <2>5, Zenon DEF Outcome
<1>13. CASE al /\ ~(tries >= MaxAuthTries) /\ ~(ok /\ ~Wanted(passed))
  <2>1. PICK p : p = [peer EXCEPT !.tries = tries, !.passed = passed]
    OBVIOUS
  <2>2. tries \in 0 .. MaxAuthTries /\ tries < MaxAuthTries
    BY <1>3, <1>13
  <2>3. p = Peer(al, tries, passed)
    BY <1>2, <2>1 DEF Peer
  <2>4. p \in Peers /\ p.alive = al /\ p.tries = tries /\ p.passed = passed
    BY <2>2, <2>3 DEF Peer, Peers
  <2>5. t.answer = "failure" /\ t.list = Listed(passed) /\ t.peer = p
    BY <1>9, <1>13, <2>1
  <2>6. PeerOK(p)
    BY <1>10, <2>2, <2>4, Zenon DEF PeerOK
  <2>7. t.list \in {{}, Left(passed)}
    BY <2>5, Zenon DEF Listed
  <2>8. Open(p)
    <3>1. CASE ok
      BY <1>13, <2>4, <3>1 DEF Wanted, Left, Open
    <3>2. CASE ~ok
      BY <1>2, <1>6, <2>4, <3>2 DEF Open
    <3> QED
      BY <3>1, <3>2
  <2>9. good /\ kind \in server.methods => kind \in passed
    BY <1>2, <1>5, <1>6 DEF Passes, Left
  <2>10. peer.alive /\ peer.passed \subseteq passed
    BY <1>2, <1>10, <1>13, Zenon
  <2> QED
    BY <1>8, <2>4, <2>5, <2>6, <2>7, <2>8, <2>9, <2>10, Zenon DEF Outcome
<1> QED
  BY <1>11, <1>12, <1>13, Zenon

-----------------------------------------------------------------------------
(* What a step leaves alone.                                                *)

\* The record, the peer's policy, the agent and the keyring stay.
LEMMA VaultKept ==
    ASSUME World, Vault, UNCHANGED <<world, keyring, cleared, attempts>>
    PROVE  World' /\ Vault'
BY DEF World, Vault, KeyringOK, world

\* The chain stays, and with it what is said of cleared secrets.
LEMMA ClearedKept ==
    ASSUME ClearedNotReused, UNCHANGED <<world, cleared, attempts, chain>>, phase' \in Running => phase \in Running
    PROVE  ClearedNotReused'
BY Zenon DEF ClearedNotReused, world, Running

\* The chain stays and authenticate goes on in it.
LEMMA BuiltKept ==
    ASSUME Built, UNCHANGED <<world, chain>>, next' = next \/ (next' = next + 1 /\ next <= Len(chain))
    PROVE  Built'
<1>1. chain' = chain /\ host' = host
  BY DEF world
<1>2. next' \in 1 .. Len(chain) + 1
  BY DEF Built
<1> QED
  BY <1>1, <1>2, Zenon DEF Built, OnePassword

\* No password is sent.
LEMMA GuessesKept ==
    ASSUME Guesses, Built, UNCHANGED <<chain, guessed>>, next' = next \/ next' = next + 1,
           phase' \in Running => phase \in Running
    PROVE  Guesses'
<1>1. guessed' \in 0 .. 1
  BY DEF Guesses
<1>2. ASSUME phase' \in Running, guessed' = 1
      PROVE  \E m \in DOMAIN chain' : m < next' /\ chain'[m].kind = "password"
  <2>1. PICK m \in DOMAIN chain : m < next /\ chain[m].kind = "password"
    BY <1>2 DEF Guesses
  <2>2. m \in Int /\ next \in Int
    BY DEF Built
  <2>3. m < next'
    BY <2>1, <2>2
  <2> QED
    BY <2>1, <2>3
<1> QED
  BY <1>1, <1>2, Zenon DEF Guesses

\* What the server would take does not change.
LEMMA UsableKept ==
    ASSUME UNCHANGED world, NEW m
    PROVE  (Usable(m)' <=> Usable(m)) /\ (method_kind(m)' = method_kind(m))
BY Zenon DEF Usable, method_kind, world

\* Nor what a peer may be.
LEMMA PeerKept ==
    ASSUME UNCHANGED world, peer' = peer
    PROVE  (PeerOK(peer)' <=> PeerOK(peer)) /\ (Open(peer)' <=> Open(peer)) /\ Left(peer.passed)' = Left(peer.passed)
BY Zenon DEF PeerOK, Open, Left, world

-----------------------------------------------------------------------------
(* Steps of authenticate.                                                   *)

Rest == World /\ Vault /\ ClearedNotReused /\ Built /\ Lists /\ Loops /\ Progress

\* authenticate is through with a method and goes on to the next: everything
\* that it relies on carries over if the method has passed or could not.
LEMMA GoesOn ==
    ASSUME IInv, phase \in Running, next \in DOMAIN chain,
           UNCHANGED <<world, keyring, chain, attempts, cleared>>,
           phase' = "chain", next' = next + 1, identity' = identity, verdict' = verdict,
           NEW p, peer' = p, PeerOK(p), Open(p), p.alive => peer.alive, peer.passed \subseteq p.passed,
           NEW l, told' = l, offered' = l, l \in (SUBSET WireKinds) \union {Unknown}, l \in {Unknown, {}, Left(p.passed)},
           p.alive /\ Usable(Current) /\ method_kind(Current) \in server.methods => method_kind(Current) \in p.passed
    PROVE  Rest'
<1>1. World' /\ Vault'
  BY VaultKept DEF IInv
<1>2. ClearedNotReused'
  BY ClearedKept DEF IInv
<1>3. DOMAIN chain = 1 .. Len(chain) /\ next \in Nat /\ next <= Len(chain)
  BY DEF IInv, Built
<1>4. Built'
  BY <1>3, BuiltKept DEF IInv
<1>5. phase' \notin {"agent", "failed"} /\ phase' \in Running /\ phase \in Running
  BY DEF Running
<1>6. server' = server /\ agent' = agent /\ chain' = chain
  BY DEF world
<1>7. Left(peer.passed)' = Left(p.passed)
  BY <1>6, Zenon DEF Left
<1>8. Lists'
  BY <1>5, <1>7, Zenon DEF IInv, Lists
<1>9. Loops'
  <2>1. identity' \in Nat \ {0}
    BY DEF IInv, Loops
  <2> QED
    BY <1>5, <2>1, Zenon DEF Loops
<1>10. PeerOK(peer)' /\ Open(peer)'
  BY <1>6, Zenon DEF PeerOK, Open
<1>11. ASSUME p.alive PROVE Behind'
  <2>1. Behind
    BY <1>5, <1>11, Zenon DEF IInv, Progress
  <2>2. SUFFICES ASSUME NEW n \in DOMAIN chain, n < next', Usable(chain[n]), method_kind(chain[n]) \in server.methods
                 PROVE  method_kind(chain[n]) \in p.passed
    BY <1>6, UsableKept, Zenon DEF Behind
  <2>3. n = next \/ n < next
    <3>1. n \in Nat /\ n < next + 1
      BY <1>3, <2>2
    <3> QED
      BY <1>3, <3>1
  <2>4. CASE n = next
    BY <1>11, <2>2, <2>4, Zenon DEF Current
  <2>5. CASE n < next
    BY <2>1, <2>2, <2>5, Zenon DEF Behind
  <2> QED
    BY <2>3, <2>4, <2>5
<1>12. Progress'
  BY <1>5, <1>10, <1>11, Zenon DEF Progress
<1> QED
  BY <1>1, <1>2, <1>4, <1>8, <1>9, <1>12, Zenon DEF Rest

\* authenticate has succeeded.
LEMMA Succeeds ==
    ASSUME IInv, phase \in Running,
           UNCHANGED <<world, keyring, chain, attempts, cleared>>,
           phase' = "up", next' = next, identity' \in Nat \ {0}, verdict' = verdict, told' = told, offered' = offered,
           NEW p, peer' = p, PeerOK(p)
    PROVE  Rest'
<1>1. World' /\ Vault'
  BY VaultKept DEF IInv
<1>2. phase' \notin {"agent", "failed"} /\ phase' \notin Running /\ phase' # "chain" /\ phase' \in {"idle", "chain", "agent", "up", "failed"}
  BY DEF Running
<1>3. ClearedNotReused'
  BY <1>2, ClearedKept DEF IInv
<1>4. Built'
  BY BuiltKept DEF IInv
<1>5. server' = server
  BY DEF world
<1>6. Lists'
  BY <1>2, Zenon DEF IInv, Lists
<1>7. Loops'
  BY <1>2, Zenon DEF Loops
<1>8. PeerOK(peer)'
  BY <1>5, Zenon DEF PeerOK
<1>9. Progress'
  BY <1>2, <1>8, Zenon DEF Progress
<1> QED
  BY <1>1, <1>3, <1>4, <1>6, <1>7, <1>9, Zenon DEF Rest

\* The list authenticate goes by has the type of a list.
LEMMA LeftTyped ==
    ASSUME World, NEW s
    PROVE  Left(s) \in SUBSET WireKinds /\ {} \in SUBSET WireKinds
<1>1. server.methods \subseteq WireKinds
  BY ServerLemma
<1> QED
  BY <1>1 DEF Left

\* A method was sent to the server, and its answer is settled.
LEMMA Settled ==
    ASSUME IInv, AtMethod, NEW good, NEW t, Outcome(method_kind(Current), good, t),
           Usable(Current) => good,
           Settle(t.answer, t.list), peer' = t.peer, told' = t.list,
           UNCHANGED <<world, keyring, chain, identity, verdict, attempts, cleared>>
    PROVE  Rest'
<1>1. phase = "chain" /\ next \in DOMAIN chain
  BY DEF AtMethod, IInv, Built
<1>2. phase \in Running
  BY <1>1 DEF Running
<1>3. offered = told /\ told \in {Unknown, {}, Left(peer.passed)} /\ told \in (SUBSET WireKinds) \union {Unknown}
  BY <1>1, <1>2, Zenon DEF IInv, Lists
<1>4. PeerOK(t.peer) /\ World /\ Open(peer)
  <2>1. phase \in Running \union {"failed"}
    BY <1>2
  <2> QED
    BY <2>1, Zenon DEF Outcome, IInv, Progress
<1>5. CASE t.answer = "success"
  <2>1. phase' = "up" /\ next' = next /\ offered' = offered /\ told' = told
    BY <1>5 DEF Settle, Outcome
  <2>2. identity' \in Nat \ {0} /\ verdict' = verdict
    BY DEF IInv, Loops
  <2> QED
    BY <1>2, <1>4, <2>1, <2>2, Succeeds
<1>6. CASE t.answer = "error"
  <2>1. /\ phase' = "chain" /\ next' = next + 1 /\ offered' = told /\ told' = told
        /\ ~t.peer.alive /\ t.peer.passed = peer.passed
    BY <1>3, <1>6 DEF Settle, Outcome
  <2>2. Open(t.peer) /\ told \in {Unknown, {}, Left(t.peer.passed)}
    BY <1>3, <1>4, <2>1, Zenon DEF Open
  <2> QED
    BY <1>1, <1>2, <1>3, <1>4, <2>1, <2>2, GoesOn
<1>7. CASE t.answer = "failure"
  <2>1. /\ phase' = "chain" /\ next' = next + 1 /\ offered' = t.list
        /\ t.list \in {{}, Left(t.peer.passed)} /\ Open(t.peer)
        /\ peer.alive /\ peer.passed \subseteq t.peer.passed
        /\ good /\ method_kind(Current) \in server.methods => method_kind(Current) \in t.peer.passed
    BY <1>7 DEF Settle, Outcome
  <2>2. t.list \in (SUBSET WireKinds) \union {Unknown} /\ t.list \in {Unknown, {}, Left(t.peer.passed)}
    BY <1>4, <2>1, LeftTyped, Zenon
  <2> QED
    BY <1>1, <1>2, <1>4, <2>1, <2>2, GoesOn
<1> QED
  BY <1>5, <1>6, <1>7 DEF Outcome

\* A method fails before the server sees it, or is skipped.
LEMMA Unsent ==
    ASSUME IInv, AtMethod, ~Usable(Current) \/ RuledOut(method_kind(Current), offered),
           phase' = "chain", next' = next + 1, offered' = offered,
           UNCHANGED <<world, keyring, chain, identity, verdict, peer, told, attempts, cleared>>
    PROVE  Rest'
<1>1. phase = "chain" /\ next \in DOMAIN chain
  BY DEF AtMethod, IInv, Built
<1>2. phase \in Running
  BY <1>1 DEF Running
<1>3. offered = told /\ told \in {Unknown, {}, Left(peer.passed)} /\ told \in (SUBSET WireKinds) \union {Unknown}
  BY <1>1, <1>2, Zenon DEF IInv, Lists
<1>4. PeerOK(peer) /\ Open(peer)
  <2>1. phase \in Running \union {"failed"}
    BY <1>2
  <2> QED
    BY <2>1, Zenon DEF IInv, Progress
<1>5. Usable(Current) /\ method_kind(Current) \in server.methods => method_kind(Current) \in peer.passed
  <2>1. CASE ~Usable(Current)
    BY <2>1
  <2>2. CASE RuledOut(method_kind(Current), offered)
    BY <1>3, <2>2 DEF RuledOut, Left
  <2> QED
    BY <2>1, <2>2
<1> QED
  BY <1>1, <1>2, <1>3, <1>4, <1>5, GoesOn

\* A method that is passed over.
LEMMA SkipStep ==
    ASSUME IInv, Skip
    PROVE  IInv'
<1>1. AtMethod /\ phase = "chain" /\ RuledOut(method_kind(Current), offered)
  BY DEF Skip, AtMethod
<1>2. /\ phase' = "chain" /\ next' = next + 1 /\ offered' = offered
      /\ UNCHANGED <<world, keyring, chain, identity, verdict, peer, told, attempts, cleared>>
      /\ UNCHANGED guessed
  BY <1>1 DEF Skip
<1>3. Rest'
  BY <1>1, <1>2, Unsent
<1>4. Guesses'
  BY <1>1, <1>2, GuessesKept DEF IInv, Running
<1> QED
  BY <1>3, <1>4, Zenon DEF IInv, Rest

\* try_method with a password: sent once at most, for the chain has one.
LEMMA TryPasswordStep ==
    ASSUME IInv, TryPassword
    PROVE  IInv'
<1>1. AtMethod /\ phase = "chain" /\ Current.kind = "password" /\ next \in DOMAIN chain /\ chain[next].kind = "password"
  BY DEF TryPassword, Attempting, AtMethod, Current, IInv, Built
<1>2. method_kind(Current) = "password" /\ "password" \in WireKinds
  BY <1>1, Zenon DEF method_kind, WireKinds
<1>3. PICK good \in BOOLEAN : good <=> Current.secret = Password
  BY Zenon
<1>4. PICK t : t = Try("password", Current.secret = Password)
  OBVIOUS
<1>5. Usable(Current) => good
  BY <1>1, <1>3, Zenon DEF Usable
<1>6. World /\ PeerOK(peer) /\ Open(peer)
  <2>1. phase \in Running \union {"failed"}
    BY <1>1 DEF Running
  <2> QED
    BY <2>1, Zenon DEF IInv, Progress
<1>7. Outcome(method_kind(Current), good, t)
  <2>1. (Current.secret = Password) \in BOOLEAN
    OBVIOUS
  <2>2. Outcome("password", Current.secret = Password, t)
    BY <1>2, <1>4, <1>6, <2>1, TryLemma, Zenon
  <2>3. good = (Current.secret = Password)
    BY <1>3
  <2> QED
    BY <1>2, <2>2, <2>3, Zenon
<1>8. /\ Settle(t.answer, t.list) /\ peer' = t.peer /\ told' = t.list
      /\ UNCHANGED <<world, keyring, chain, identity, verdict, attempts, cleared>>
  BY <1>4, Zenon DEF TryPassword
<1>9. Rest'
  BY <1>1, <1>5, <1>7, <1>8, Settled
<1>10. guessed = 0
  <2>1. SUFFICES ASSUME guessed = 1 PROVE FALSE
    BY DEF IInv, Guesses
  <2>2. PICK m \in DOMAIN chain : m < next /\ chain[m].kind = "password"
    BY <1>1, <2>1 DEF IInv, Guesses, Running
  <2>3. m = next
    BY <1>1, <2>2, Zenon DEF IInv, Built, OnePassword
  <2>4. next \in Nat
    BY DEF IInv, Built
  <2> QED
    BY <2>2, <2>3, <2>4
<1>11. guessed' \in 0 .. 1
  <2>1. guessed' = guessed + (IF peer.alive THEN 1 ELSE 0)
    BY DEF TryPassword
  <2> QED
    BY <1>10, <2>1
<1>12. ASSUME phase' \in Running
       PROVE  \E m \in DOMAIN chain' : m < next' /\ chain'[m].kind = "password"
  <2>1. next' = next + 1 /\ next \in Nat
    BY <1>8, <1>12 DEF Settle, Running, IInv, Built
  <2>2. next < next'
    BY <2>1
  <2> QED
    BY <1>1, <1>8, <2>2
<1>13. Guesses'
  BY <1>11, <1>12, Zenon DEF Guesses
<1> QED
  BY <1>9, <1>13, Zenon DEF IInv, Rest

\* try_method with a key file.
LEMMA TryKeyFileStep ==
    ASSUME IInv, TryKeyFile
    PROVE  IInv'
<1>1. AtMethod /\ phase = "chain" /\ Current.kind = "keyfile"
  BY DEF TryKeyFile, Attempting, AtMethod
<1>2. method_kind(Current) = "publickey" /\ "publickey" \in WireKinds
  BY <1>1 DEF method_kind, WireKinds
<1>3. Usable(Current) => Loads(Current.secret) /\ KeyFile.key \in server.keys
  BY <1>1 DEF Usable
<1>4. World /\ PeerOK(peer) /\ Open(peer)
  <2>1. phase \in Running \union {"failed"}
    BY <1>1 DEF Running
  <2> QED
    BY <2>1, Zenon DEF IInv, Progress
<1>5. PICK good \in BOOLEAN : good <=> KeyFile.key \in server.keys
  BY Zenon
<1>6. PICK t : t = Try("publickey", KeyFile.key \in server.keys)
  OBVIOUS
<1>7. Outcome(method_kind(Current), good, t)
  <2>1. (KeyFile.key \in server.keys) \in BOOLEAN
    OBVIOUS
  <2>2. Outcome("publickey", KeyFile.key \in server.keys, t)
    BY <1>2, <1>4, <1>6, <2>1, TryLemma, Zenon
  <2>3. good = (KeyFile.key \in server.keys)
    BY <1>5
  <2> QED
    BY <1>2, <2>2, <2>3, Zenon
<1>8. UNCHANGED <<world, keyring, chain, identity, verdict, attempts, guessed, cleared>>
  BY Zenon DEF TryKeyFile
<1>9. CASE Loads(Current.secret)
  <2>1. Settle(t.answer, t.list) /\ peer' = t.peer /\ told' = t.list
    BY <1>6, <1>9, Zenon DEF TryKeyFile
  <2>2. Rest'
    BY <1>1, <1>3, <1>5, <1>7, <1>8, <2>1, Settled
  <2>3. next' = next \/ next' = next + 1
    BY <2>1 DEF Settle
  <2>4. Guesses'
    BY <1>1, <1>8, <2>3, GuessesKept DEF IInv, Running
  <2> QED
    BY <2>2, <2>4, Zenon DEF IInv, Rest
<1>10. CASE ~Loads(Current.secret)
  <2>1. Settle("error", told) /\ UNCHANGED <<peer, told>>
    BY <1>10, Zenon DEF TryKeyFile
  <2>2. phase' = "chain" /\ next' = next + 1 /\ offered' = offered
    BY <2>1 DEF Settle
  <2>3. Rest'
    BY <1>1, <1>3, <1>8, <1>10, <2>1, <2>2, Unsent
  <2>4. Guesses'
    BY <1>1, <1>8, <2>2, GuessesKept DEF IInv, Running
  <2> QED
    BY <2>3, <2>4, Zenon DEF IInv, Rest
<1> QED
  BY <1>9, <1>10

\* The agent is asked for its identities.
LEMMA OpenAgentStep ==
    ASSUME IInv, OpenAgent
    PROVE  IInv'
<1>1. AtMethod /\ phase = "chain" /\ Current.kind = "agent" /\ next \in DOMAIN chain /\ chain[next].kind = "agent"
  BY DEF OpenAgent, Attempting, AtMethod, Current, IInv, Built
<1>2. UNCHANGED <<world, keyring, chain, peer, attempts, told, guessed, cleared>>
  BY Zenon DEF OpenAgent
<1>3. CASE agent = Absent \/ agent = <<>>
  <2>1. Settle("error", told) /\ UNCHANGED <<identity, verdict>>
    BY <1>3, Zenon DEF OpenAgent
  <2>2. phase' = "chain" /\ next' = next + 1 /\ offered' = offered
    BY <2>1 DEF Settle
  <2>3. ~Usable(Current)
    BY <1>1, <1>3 DEF Usable
  <2>4. Rest'
    BY <1>1, <1>2, <2>1, <2>2, <2>3, Unsent
  <2>5. Guesses'
    BY <1>1, <1>2, <2>2, GuessesKept DEF IInv, Running
  <2> QED
    BY <2>4, <2>5, Zenon DEF IInv, Rest
<1>4. CASE ~(agent = Absent \/ agent = <<>>)
  <2>1. phase' = "agent" /\ identity' = 1 /\ verdict' = NoVerdict /\ UNCHANGED <<next, offered>>
    BY <1>4, Zenon DEF OpenAgent
  <2>2. phase' \in Running /\ phase \in Running /\ phase' # "chain" /\ phase' # "failed"
    BY <1>1, <2>1 DEF Running
  <2>3. World' /\ Vault'
    BY <1>2, VaultKept DEF IInv
  <2>4. ClearedNotReused' /\ Built' /\ Guesses'
    BY <1>2, <2>1, <2>2, ClearedKept, BuiltKept, GuessesKept DEF IInv
  <2>5. Left(peer.passed)' = Left(peer.passed) /\ (PeerOK(peer)' <=> PeerOK(peer)) /\ (Open(peer)' <=> Open(peer))
    BY <1>2, PeerKept, Zenon
  <2>6. Lists'
    <3>1. NoVerdict \in (SUBSET WireKinds) \union {NoVerdict}
      BY Zenon
    <3> QED
      BY <1>1, <1>2, <2>1, <2>2, <2>5, <3>1, Zenon DEF IInv, Lists
  <2>7. Loops'
    <3>1. agent \in Seq(STRING)
      BY AuthConstants DEF IInv, World
    <3>2. 1 <= Len(agent) + 1 /\ 1 \in Nat \ {0}
      BY <3>1
    <3>3. agent' = agent
      BY <1>2, Zenon DEF world
    <3> QED
      BY <1>1, <1>2, <2>1, <2>2, <3>2, <3>3, Zenon DEF Loops
  <2>8. BehindInAgent'
    <3>1. agent \in Seq(STRING) /\ agent' = agent
      BY <1>2, AuthConstants DEF IInv, World, world
    <3>2. \A m \in DOMAIN agent : ~(m < 1)
      BY <3>1
    <3> QED
      BY <2>1, <3>1, <3>2, Zenon DEF BehindInAgent
  <2>9. peer.alive => Behind'
    <3>1. peer.alive => Behind
      BY <2>2, Zenon DEF IInv, Progress
    <3>2. server' = server /\ chain' = chain /\ peer' = peer /\ next' = next
      BY <1>2, <2>1, Zenon DEF world
    <3> QED
      BY <1>2, <3>1, <3>2, UsableKept, Zenon DEF Behind
  <2>10. Progress'
    BY <1>2, <2>2, <2>5, <2>8, <2>9, Zenon DEF IInv, Progress
  <2> QED
    BY <2>3, <2>4, <2>6, <2>7, <2>10, Zenon DEF IInv
<1> QED
  BY <1>3, <1>4

\* authenticate_with_agent is at an identity that was not taken, or not tried:
\* the agent's list is one shorter, and the rest as it was.
LEMMA AgentGoesOn ==
    ASSUME IInv, phase = "agent", identity <= Len(agent),
           UNCHANGED <<world, keyring, chain, next, offered, attempts, guessed, cleared>>,
           phase' = "agent", identity' = identity + 1,
           NEW p, peer' = p, PeerOK(p), Open(p), p.alive => peer.alive, peer.passed \subseteq p.passed,
           told' \in (SUBSET WireKinds) \union {Unknown}, verdict' \in (SUBSET WireKinds) \union {NoVerdict},
           told' \in {Unknown, {}, Left(p.passed)},
           told' = IF verdict' = NoVerdict THEN offered ELSE verdict',
           p.alive /\ agent[identity] \in server.keys /\ "publickey" \in server.methods => "publickey" \in p.passed
    PROVE  IInv'
<1>1. phase' \in Running /\ phase \in Running /\ phase' # "chain" /\ phase' # "failed"
  BY DEF Running
<1>2. World' /\ Vault'
  BY VaultKept DEF IInv
<1>3. ClearedNotReused' /\ Built' /\ Guesses'
  BY <1>1, ClearedKept, BuiltKept, GuessesKept DEF IInv
<1>4. server' = server /\ agent' = agent /\ chain' = chain /\ next' = next
  BY DEF world
<1>5. Left(peer.passed)' = Left(p.passed)
  BY <1>4, Zenon DEF Left
<1>6. Lists'
  BY <1>1, <1>5, Zenon DEF IInv, Lists
<1>7. agent \in Seq(STRING) /\ identity \in Nat \ {0}
  BY AuthConstants DEF IInv, World, Loops
<1>8. Loops'
  <2>1. identity + 1 <= Len(agent) + 1 /\ identity + 1 \in Nat \ {0}
    BY <1>7
  <2>2. next \in DOMAIN chain /\ chain[next].kind = "agent"
    BY Zenon DEF IInv, Loops
  <2> QED
    BY <1>1, <1>4, <2>1, <2>2, Zenon DEF Loops
<1>9. PeerOK(peer)' /\ Open(peer)'
  BY <1>4, Zenon DEF PeerOK, Open
<1>10. ASSUME p.alive PROVE Behind'
  <2>1. Behind
    BY <1>1, <1>10, Zenon DEF IInv, Progress
  <2> QED
    BY <1>4, <2>1, UsableKept, Zenon DEF Behind
<1>11. ASSUME p.alive PROVE BehindInAgent'
  <2>1. BehindInAgent
    BY <1>11, Zenon DEF IInv, Progress
  <2>2. SUFFICES ASSUME NEW m \in DOMAIN agent, m < identity + 1, agent[m] \in server.keys, "publickey" \in server.methods
                 PROVE  "publickey" \in p.passed
    BY <1>4, Zenon DEF BehindInAgent
  <2>3. m = identity \/ m < identity
    <3>1. m \in Nat
      BY <1>7
    <3> QED
      BY <1>7, <2>2, <3>1
  <2>4. CASE m = identity
    BY <1>11, <2>2, <2>4, Zenon
  <2>5. CASE m < identity
    BY <2>1, <2>2, <2>5, Zenon DEF BehindInAgent
  <2> QED
    BY <2>3, <2>4, <2>5
<1>12. Progress'
  BY <1>1, <1>9, <1>10, <1>11, Zenon DEF Progress
<1> QED
  BY <1>2, <1>3, <1>6, <1>8, <1>12, Zenon DEF IInv

\* One identity of the agent.
LEMMA TryIdentityStep ==
    ASSUME IInv, TryIdentity
    PROVE  IInv'
<1>1. /\ phase = "agent" /\ identity <= Len(agent) /\ identity' = identity + 1
      /\ UNCHANGED <<world, keyring, chain, next, offered, attempts, guessed, cleared>>
  BY Zenon DEF TryIdentity
<1>2. phase \in Running /\ phase # "chain" /\ phase \in Running \union {"failed"}
  BY <1>1 DEF Running
<1>3. World /\ PeerOK(peer) /\ Open(peer)
  BY <1>2, Zenon DEF IInv, Progress
<1>4. /\ told \in (SUBSET WireKinds) \union {Unknown} /\ verdict \in (SUBSET WireKinds) \union {NoVerdict}
      /\ told \in {Unknown, {}, Left(peer.passed)} /\ told = IF verdict = NoVerdict THEN offered ELSE verdict
  BY <1>1, <1>2, Zenon DEF IInv, Lists
<1>5. identity' \in Nat \ {0}
  BY <1>1 DEF IInv, Loops
<1>6. CASE agent[identity] \in {"certificate", "unsignable"}
  <2>1. UNCHANGED <<phase, peer, told, verdict>>
    BY <1>6, Zenon DEF TryIdentity
  <2>2. agent[identity] \notin server.keys
    BY <1>3, <1>6, ServerLemma, Zenon
  <2> QED
    BY <1>1, <1>3, <1>4, <2>1, <2>2, AgentGoesOn
<1>7. CASE agent[identity] \notin {"certificate", "unsignable"}
  <2>1. PICK t : t = Try("publickey", agent[identity] \in server.keys)
    OBVIOUS
  <2>2. /\ phase' = (IF t.answer = "success" THEN "up" ELSE "agent")
        /\ verdict' = (IF t.answer = "failure" THEN t.list ELSE verdict)
        /\ peer' = t.peer /\ told' = t.list
    BY <1>7, <2>1, Zenon DEF TryIdentity
  <2>3. PICK good \in BOOLEAN : good <=> agent[identity] \in server.keys
    BY Zenon
  <2>4. Outcome("publickey", good, t)
    <3>1. (agent[identity] \in server.keys) \in BOOLEAN /\ "publickey" \in WireKinds
      BY DEF WireKinds
    <3>2. Outcome("publickey", agent[identity] \in server.keys, t)
      BY <1>3, <2>1, <3>1, TryLemma, Zenon
    <3>3. good = (agent[identity] \in server.keys)
      BY <2>3
    <3> QED
      BY <3>2, <3>3, Zenon
  <2>5. PeerOK(t.peer)
    BY <2>4, Zenon DEF Outcome
  <2>6. CASE t.answer = "success"
    <3>1. phase' = "up" /\ verdict' = verdict /\ told' = told
      BY <2>2, <2>4, <2>6 DEF Outcome
    <3>2. Rest'
      BY <1>1, <1>2, <1>5, <2>2, <2>5, <3>1, Succeeds
    <3>3. Guesses'
      BY <1>1, <1>2, GuessesKept DEF IInv
    <3> QED
      BY <3>2, <3>3, Zenon DEF IInv, Rest
  <2>7. CASE t.answer = "error"
    <3>1. /\ phase' = "agent" /\ verdict' = verdict /\ told' = told
          /\ ~t.peer.alive /\ t.peer.passed = peer.passed
      BY <2>2, <2>4, <2>7 DEF Outcome
    <3>2. Open(t.peer) /\ told \in {Unknown, {}, Left(t.peer.passed)}
      BY <1>3, <1>4, <3>1, Zenon DEF Open
    <3> QED
      BY <1>1, <1>4, <2>2, <2>5, <3>1, <3>2, AgentGoesOn
  <2>8. CASE t.answer = "failure"
    <3>1. /\ phase' = "agent" /\ verdict' = t.list /\ told' = t.list
          /\ t.list \in {{}, Left(t.peer.passed)} /\ Open(t.peer)
          /\ peer.alive /\ peer.passed \subseteq t.peer.passed
          /\ good /\ "publickey" \in server.methods => "publickey" \in t.peer.passed
      BY <2>2, <2>4, <2>8 DEF Outcome
    <3>2. t.list \in SUBSET WireKinds
      BY <1>3, <3>1, LeftTyped, Zenon
    <3>3. t.list # NoVerdict
      BY <3>2 DEF WireKinds, NoVerdict
    <3> QED
      BY <1>1, <2>2, <2>3, <2>5, <3>1, <3>2, <3>3, AgentGoesOn
  <2> QED
    BY <2>4, <2>6, <2>7, <2>8 DEF Outcome
<1> QED
  BY <1>6, <1>7

\* The agent's verdict.
LEMMA AgentDoneStep ==
    ASSUME IInv, AgentDone
    PROVE  IInv'
<1>1. /\ phase = "agent" /\ identity > Len(agent)
      /\ UNCHANGED <<world, keyring, chain, identity, verdict, peer, attempts, told, guessed, cleared>>
  BY Zenon DEF AgentDone
<1>2. phase \in Running /\ phase # "chain" /\ phase \in Running \union {"failed"}
  BY <1>1 DEF Running
<1>3. World /\ PeerOK(peer) /\ Open(peer)
  BY <1>2, Zenon DEF IInv, Progress
<1>4. /\ told \in (SUBSET WireKinds) \union {Unknown}
      /\ told \in {Unknown, {}, Left(peer.passed)} /\ told = IF verdict = NoVerdict THEN offered ELSE verdict
  BY <1>1, <1>2, Zenon DEF IInv, Lists
<1>5. next \in DOMAIN chain /\ chain[next].kind = "agent"
  BY <1>1, Zenon DEF IInv, Loops
<1>6. phase' = "chain" /\ next' = next + 1 /\ offered' = told
  BY <1>4 DEF AgentDone, Settle
<1>7. ASSUME peer.alive, Usable(Current), method_kind(Current) \in server.methods
      PROVE  method_kind(Current) \in peer.passed
  <2>1. method_kind(Current) = "publickey"
    BY <1>5 DEF method_kind, Current
  <2>2. PICK m \in DOMAIN agent : agent[m] \in server.keys
    BY <1>5, <1>7 DEF Usable, Current
  <2>3. m < identity
    <3>1. agent \in Seq(STRING) /\ identity \in Nat
      BY AuthConstants DEF IInv, World, Loops
    <3> QED
      BY <1>1, <3>1
  <2>4. BehindInAgent
    BY <1>1, <1>7, Zenon DEF IInv, Progress
  <2> QED
    BY <1>7, <2>1, <2>2, <2>3, <2>4, Zenon DEF BehindInAgent
<1>8. Rest'
  BY <1>1, <1>2, <1>3, <1>4, <1>5, <1>6, <1>7, GoesOn
<1>9. Guesses'
  BY <1>1, <1>2, <1>6, GuessesKept DEF IInv
<1> QED
  BY <1>8, <1>9, Zenon DEF IInv, Rest

\* The chain is exhausted.
LEMMA GiveUpStep ==
    ASSUME IInv, GiveUp
    PROVE  IInv'
<1>1. /\ phase = "chain" /\ next > Len(chain) /\ phase' = "failed"
      /\ UNCHANGED <<world, keyring, chain, next, identity, verdict, offered, peer, attempts, told, guessed, cleared>>
  BY Zenon DEF GiveUp
<1>2. /\ phase' \notin Running /\ phase' # "chain" /\ phase' # "agent"
      /\ phase' \in {"idle", "chain", "agent", "up", "failed"}
      /\ phase \in Running \union {"failed"} /\ phase' \in Running \union {"failed"}
  BY <1>1 DEF Running
<1>3. World' /\ Vault'
  BY <1>1, VaultKept DEF IInv
<1>4. ClearedNotReused' /\ Built' /\ Guesses'
  BY <1>1, <1>2, ClearedKept, BuiltKept, GuessesKept DEF IInv
<1>5. Lists'
  BY <1>1, <1>2, Zenon DEF IInv, Lists
<1>6. Loops'
  BY <1>1, <1>2, Zenon DEF IInv, Loops
<1>7. (PeerOK(peer)' <=> PeerOK(peer)) /\ (Open(peer)' <=> Open(peer))
  BY <1>1, PeerKept, Zenon
<1>8. Behind' <=> Behind
  <2>1. server' = server /\ chain' = chain /\ peer' = peer /\ next' = next
    BY <1>1, Zenon DEF world
  <2> QED
    BY <1>1, <2>1, UsableKept, Zenon DEF Behind
<1>9. Progress'
  BY <1>1, <1>2, <1>7, <1>8, Zenon DEF IInv, Progress
<1> QED
  BY <1>3, <1>4, <1>5, <1>6, <1>9, Zenon DEF IInv

-----------------------------------------------------------------------------
(* The surroundings.                                                        *)

\* The loops stand still.
LEMMA LoopsKept ==
    ASSUME Loops, UNCHANGED <<world, chain, phase, next, identity>>
    PROVE  Loops'
BY Zenon DEF Loops, world

\* The peer goes away.
LEMMA VanishStep ==
    ASSUME IInv, Vanish
    PROVE  IInv'
<1>1. UNCHANGED <<world, keyring, chain, phase, next, identity, verdict, offered, attempts, told, guessed, cleared>>
  BY Zenon DEF Vanish
<1>2. World' /\ Vault'
  BY <1>1, VaultKept DEF IInv
<1>3. ClearedNotReused' /\ Built' /\ Guesses' /\ Loops'
  BY <1>1, ClearedKept, BuiltKept, GuessesKept, LoopsKept DEF IInv
<1>4. /\ peer' = [peer EXCEPT !.alive = FALSE] /\ peer \in Peers
  BY DEF Vanish, IInv, Progress, PeerOK
<1>5. peer' \in Peers /\ ~peer'.alive /\ peer'.passed = peer.passed
  BY <1>4 DEF Peers
<1>6. server' = server
  BY <1>1, Zenon DEF world
<1>7. Left(peer.passed)' = Left(peer.passed)
  BY <1>5, <1>6, Zenon DEF Left
<1>8. Lists'
  BY <1>1, <1>7, Zenon DEF IInv, Lists
<1>9. PeerOK(peer)' /\ (Open(peer)' <=> Open(peer))
  BY <1>5, <1>6, Zenon DEF IInv, Progress, PeerOK, Open
<1>10. Progress'
  BY <1>1, <1>5, <1>9, Zenon DEF IInv, Progress
<1> QED
  BY <1>2, <1>3, <1>8, <1>10, Zenon DEF IInv

\* An established session drops.
LEMMA DropStep ==
    ASSUME IInv, Drop
    PROVE  IInv'
<1>1. /\ phase' = "idle"
      /\ UNCHANGED <<world, keyring, chain, next, identity, verdict, offered, peer, attempts, told, guessed, cleared>>
  BY Zenon DEF Drop
<1>2. phase' \notin Running \union {"failed"} /\ phase' \notin Running /\ phase' \notin {"chain", "agent", "failed"}
      /\ phase' \in {"idle", "chain", "agent", "up", "failed"}
  BY <1>1 DEF Running
<1>3. World' /\ Vault'
  BY <1>1, VaultKept DEF IInv
<1>4. ClearedNotReused' /\ Built' /\ Guesses'
  BY <1>1, <1>2, ClearedKept, BuiltKept, GuessesKept DEF IInv
<1>5. Lists' /\ Loops'
  BY <1>1, <1>2, Zenon DEF IInv, Lists, Loops
<1>6. PeerOK(peer)' <=> PeerOK(peer)
  BY <1>1, PeerKept, Zenon
<1>7. Progress'
  BY <1>1, <1>2, <1>6, Zenon DEF IInv, Progress
<1> QED
  BY <1>3, <1>4, <1>5, <1>7, Zenon DEF IInv

\* Nothing of the attempt changes.
LEMMA AttemptKept ==
    ASSUME IInv, UNCHANGED <<world, chain, phase, next, identity, verdict, offered, peer, told, guessed>>
    PROVE  Built' /\ Guesses' /\ Lists' /\ Loops' /\ Progress'
<1>1. Built' /\ Guesses' /\ Loops'
  BY BuiltKept, GuessesKept, LoopsKept DEF IInv
<1>2. /\ Left(peer.passed)' = Left(peer.passed)
      /\ (PeerOK(peer)' <=> PeerOK(peer)) /\ (Open(peer)' <=> Open(peer))
  BY PeerKept, Zenon
<1>3. Lists'
  BY <1>2, Zenon DEF IInv, Lists
<1>4. server' = server /\ agent' = agent /\ chain' = chain /\ peer' = peer /\ next' = next /\ identity' = identity
  BY Zenon DEF world
<1>5. (Behind' <=> Behind) /\ (BehindInAgent' <=> BehindInAgent)
  BY <1>4, UsableKept, Zenon DEF Behind, BehindInAgent
<1>6. Progress'
  BY <1>2, <1>5, Zenon DEF IInv, Progress
<1> QED
  BY <1>1, <1>3, <1>6

\* The user clears a secret: it is gone from the keyring, and no attempt is later yet.
LEMMA ClearSecretStep ==
    ASSUME IInv, NEW account, ClearSecret(account)
    PROVE  IInv'
<1>1. UNCHANGED <<world, chain, phase, next, identity, verdict, offered, peer, attempts, told, guessed>>
  BY Zenon DEF ClearSecret
<1>2. Built' /\ Guesses' /\ Lists' /\ Loops' /\ Progress'
  BY <1>1, AttemptKept
<1>3. World'
  BY <1>1 DEF IInv, World, world
<1>4. PICK lo, en : keyring = [locked |-> lo, entries |-> en] /\ lo = keyring.locked /\ en = keyring.entries
  BY Zenon DEF IInv, Vault
<1>5. keyring' = [locked |-> lo, entries |-> [a \in DOMAIN en \ {account} |-> en[a]]]
  BY <1>4 DEF ClearSecret
<1>6. /\ keyring'.locked = lo /\ DOMAIN keyring'.entries = DOMAIN en \ {account}
      /\ \A a \in DOMAIN en \ {account} : keyring'.entries[a] = en[a]
      /\ keyring' = [locked |-> keyring'.locked, entries |-> keyring'.entries]
  BY <1>5
<1>7. KeyringOK(keyring)'
  <2>1. KeyringOK(keyring)
    BY Zenon DEF IInv, Vault
  <2> QED
    BY <1>4, <1>6, <2>1, Zenon DEF KeyringOK
<1>8. cleared' = cleared \union {<<account, attempts>>}
  BY DEF ClearSecret
<1>9. ASSUME NEW c \in cleared'
      PROVE  /\ c[1] \notin DOMAIN keyring'.entries
             /\ c \in cleared \/ c[2] = attempts
  <2>1. CASE c \in cleared
    BY <1>4, <1>6, <2>1, Zenon DEF IInv, Vault
  <2>2. CASE c = <<account, attempts>>
    BY <1>6, <2>2
  <2> QED
    BY <1>8, <2>1, <2>2
<1>10. Vault'
  BY <1>1, <1>6, <1>7, <1>9, Zenon DEF IInv, Vault
<1>11. ~(attempts < attempts)
  BY DEF IInv, Vault
<1>12. host' = host /\ attempts' = attempts /\ chain' = chain /\ phase' = phase
  BY <1>1, Zenon DEF world
<1>13. ClearedNotReused'
  BY <1>9, <1>11, <1>12, Zenon DEF IInv, ClearedNotReused
<1> QED
  BY <1>2, <1>3, <1>10, <1>13, Zenon DEF IInv

\* The keyring is locked.
LEMMA LockKeyringStep ==
    ASSUME IInv, LockKeyring
    PROVE  IInv'
<1>1. UNCHANGED <<world, chain, phase, next, identity, verdict, offered, peer, attempts, told, guessed, cleared>>
  BY Zenon DEF LockKeyring
<1>2. Built' /\ Guesses' /\ Lists' /\ Loops' /\ Progress' /\ ClearedNotReused'
  BY <1>1, AttemptKept, ClearedKept DEF IInv
<1>3. World'
  BY <1>1 DEF IInv, World, world
<1>4. PICK lo, en : keyring = [locked |-> lo, entries |-> en] /\ en = keyring.entries
  BY Zenon DEF IInv, Vault
<1>5. keyring' = [locked |-> TRUE, entries |-> en]
  BY <1>4 DEF LockKeyring
<1>6. keyring'.entries = en /\ keyring' = [locked |-> keyring'.locked, entries |-> keyring'.entries]
  BY <1>5
<1>7. Vault'
  BY <1>1, <1>4, <1>6, Zenon DEF IInv, Vault, KeyringOK
<1> QED
  BY <1>2, <1>3, <1>7, Zenon DEF IInv

\* A new attempt: the chain is built from the keyring as it is now, so a secret
\* cleared before is in none of its methods.
LEMMA EstablishStep ==
    ASSUME IInv, Establish
    PROVE  IInv'
<1>1. /\ chain' = auth_for_host(host, keyring)
      /\ phase' = "chain" /\ next' = 1 /\ offered' = Unknown /\ told' = Unknown
      /\ peer' = [alive |-> TRUE, tries |-> 0, passed |-> {}]
      /\ attempts' = attempts + 1 /\ guessed' = 0
      /\ UNCHANGED <<world, keyring, identity, verdict, cleared>>
  BY Zenon DEF Establish
<1>2. phase' # "agent" /\ phase' # "failed" /\ phase' \in {"idle", "chain", "agent", "up", "failed"} /\ phase' \in Running
  BY <1>1 DEF Running
<1>3. host' = host /\ server' = server /\ agent' = agent
  BY <1>1, Zenon DEF world
<1>4. World' /\ Vault'
  BY <1>1, <1>3 DEF IInv, World, Vault, KeyringOK
<1>5. /\ chain' \in Seq(Methods) /\ Len(chain') <= 1 + Len(host.auth_fallbacks)
      /\ OnePassword(chain')
      /\ host.secret_ref \notin DOMAIN keyring.entries => \A n \in DOMAIN chain' : chain'[n].secret = Blank
  BY <1>1, ChainLemma DEF IInv, World, Vault
<1>6. DOMAIN chain' = 1 .. Len(chain') /\ Len(chain') \in Nat
  BY <1>5
<1>7. next' \in 1 .. Len(chain') + 1 /\ \A n \in DOMAIN chain' : ~(n < next')
  BY <1>1, <1>6
<1>8. Built'
  BY <1>3, <1>5, <1>7, Zenon DEF Built, OnePassword
<1>9. ClearedNotReused'
  BY <1>1, <1>3, <1>5, Zenon DEF IInv, Vault, ClearedNotReused
<1>10. Guesses'
  BY <1>1 DEF Guesses
<1>11. Lists'
  BY <1>1, <1>2, Zenon DEF IInv, Lists
<1>12. Loops'
  BY <1>1, <1>2, Zenon DEF IInv, Loops
<1>13. /\ peer' \in Peers /\ peer'.passed = {} /\ peer'.tries = 0
  BY <1>1, AuthConstants DEF Peers
<1>14. peer'.tries < MaxAuthTries
  BY <1>13, AuthConstants
<1>15. PeerOK(peer)' /\ Open(peer)'
  <2>1. server.methods # {} /\ {} \subseteq server.methods
    BY ServerLemma DEF IInv
  <2> QED
    BY <1>3, <1>13, <1>14, <2>1, Zenon DEF PeerOK, Open
<1>16. Behind'
  BY <1>7, Zenon DEF Behind
<1>17. Progress'
  BY <1>2, <1>15, <1>16, Zenon DEF Progress
<1> QED
  BY <1>4, <1>8, <1>9, <1>10, <1>11, <1>12, <1>17, Zenon DEF IInv

\* The state a saved host starts from.
LEMMA Initially == Init => IInv
<1> SUFFICES ASSUME Init PROVE IInv
  OBVIOUS
<1>1. phase \notin Running \union {"failed"} /\ phase \notin Running /\ phase \notin {"chain", "agent", "failed"}
      /\ phase \in {"idle", "chain", "agent", "up", "failed"}
  BY DEF Init, Running
<1>2. World
  BY DEF Init, World
<1>3. /\ keyring = [locked |-> keyring.locked, entries |-> keyring.entries]
      /\ \A a \in DOMAIN keyring.entries : keyring.entries[a] \in {Password, KeyFile.lock}
      /\ cleared = {} /\ attempts = 0
  BY DEF Init
<1>4. Vault
  BY <1>3 DEF Vault, KeyringOK
<1>5. ClearedNotReused
  BY <1>3 DEF ClearedNotReused
<1>6. Built
  <2>1. chain = <<>> /\ next = 1
    BY DEF Init
  <2>2. <<>> \in Seq(Methods) /\ Len(<<>>) = 0 /\ DOMAIN <<>> = {}
    OBVIOUS
  <2>3. Len(host.auth_fallbacks) \in Nat
    BY <1>2, AuthConstants DEF World
  <2>4. Len(chain) <= 1 + Len(host.auth_fallbacks) /\ next \in 1 .. Len(chain) + 1
    BY <2>1, <2>2, <2>3
  <2>5. OnePassword(chain)
    BY <2>1, <2>2, Zenon DEF OnePassword
  <2> QED
    BY <2>1, <2>2, <2>4, <2>5, Zenon DEF Built
<1>7. Guesses
  <2>1. guessed = 0
    BY DEF Init
  <2> QED
    BY <2>1 DEF Guesses
<1>8. Lists
  BY <1>1, Zenon DEF Init, Lists
<1>9. Loops
  <2>1. identity = 1 /\ 1 \in Nat \ {0}
    BY DEF Init
  <2> QED
    BY <1>1, <2>1, Zenon DEF Loops
<1>10. PeerOK(peer)
  <2>1. peer \in Peers /\ peer.passed = {} /\ peer.tries = 0
    BY AuthConstants DEF Init, Peers
  <2>2. peer.tries < MaxAuthTries
    BY <2>1, AuthConstants
  <2>3. {} \subseteq server.methods
    OBVIOUS
  <2> QED
    BY <2>1, <2>2, <2>3, Zenon DEF PeerOK
<1>11. Progress
  BY <1>1, <1>10, Zenon DEF Progress
<1> QED
  BY <1>2, <1>4, <1>5, <1>6, <1>7, <1>8, <1>9, <1>11, Zenon DEF IInv

\* Every step of an attempt, and everything that happens around it, keeps the invariant.
LEMMA Inductive == IInv /\ [Next]_vars => IInv'
<1> SUFFICES ASSUME IInv, [Next]_vars PROVE IInv'
  OBVIOUS
<1>1. CASE UNCHANGED vars
  <2>1. UNCHANGED <<world, chain, phase, next, identity, verdict, offered, peer, told, guessed, keyring, cleared, attempts>>
    BY <1>1, Zenon DEF vars, world
  <2>2. World' /\ Vault' /\ ClearedNotReused'
    BY <2>1, VaultKept, ClearedKept DEF IInv
  <2> QED
    BY <2>1, <2>2, AttemptKept DEF IInv
<1>2. CASE Next
  BY <1>2, EstablishStep, SkipStep, TryPasswordStep, TryKeyFileStep, OpenAgentStep, TryIdentityStep, AgentDoneStep,
     GiveUpStep, VanishStep, DropStep, LockKeyringStep, ClearSecretStep, <1>1, Zenon DEF Next, Authenticate, Done
<1> QED
  BY <1>1, <1>2

-----------------------------------------------------------------------------
(* The forms.                                                               *)

\* The passphrase check agrees with the decoder, for every kind of file.
LEMMA Blames == BlamesRightly
<1>1. SUFFICES ASSUME NEW file \in KeyFileType({Blank, "right"}), NEW given \in {Blank, "right", "wrong"},
                      NEW said, said = unlock(file, given)
               PROVE  /\ said = "ok" <=> decode_secret_key(file, given) = "ok"
                      /\ said = "wrong passphrase" => file.kdf /\ file.lock # Blank /\ given # Blank
                                                      /\ (given # file.lock \/ ~file.sound)
                      /\ said = "needs passphrase" => file.lock # Blank /\ given = Blank
  BY Zenon DEF BlamesRightly
<1>2. PICK err : err = decode_secret_key(file, given)
  OBVIOUS
<1>3. /\ file.header \in Headers /\ file.lock \in {Blank, "right"}
      /\ file.kdf \in BOOLEAN /\ file.sound \in BOOLEAN
  BY DEF KeyFileType
<1>4. PICK declared : declared = inspect(file)
  OBVIOUS
<1>5. said = IF declared = Refused THEN "unrecognised"
             ELSE IF err = "ok" THEN "ok" ELSE describe_decode_failure(err, declared, given)
  BY <1>1, <1>2, <1>4, Zenon DEF unlock
<1>6. CASE file.header \in {"junk", "ppk1"}
  <2>1. declared = Refused
    BY <1>4, <1>6 DEF inspect, inspect_ppk
  <2>2. err = "unreadable"
    BY <1>2, <1>6 DEF decode_secret_key
  <2> QED
    BY <1>2, <1>5, <2>1, <2>2
<1>7. CASE file.header \notin {"junk", "ppk1"}
  <2>1. /\ declared # Refused
        /\ declared.encrypted => file.lock # Blank
        /\ declared.encrypted = (file.lock # Blank /\ (file.header = "openssh" => file.sound))
    BY <1>3, <1>4, <1>7 DEF inspect, inspect_ppk, inspect_openssh, enrich, Refused, Headers
  <2>2. err = IF ~file.sound /\ file.header = "openssh" THEN "corrupt"
              ELSE IF file.lock = Blank THEN IF file.sound THEN "ok" ELSE "corrupt"
              ELSE IF given = Blank THEN "encrypted"
              ELSE IF ~file.kdf THEN "unsupported"
              ELSE IF given # file.lock \/ ~file.sound THEN "corrupt"
              ELSE "ok"
    BY <1>2, <1>7, Zenon DEF decode_secret_key
  <2>3. said = IF err = "ok" THEN "ok"
               ELSE IF err = "unsupported" THEN "unsupported"
               ELSE IF err = "encrypted" \/ (declared.encrypted /\ given = Blank) THEN "needs passphrase"
               ELSE IF declared.encrypted THEN "wrong passphrase"
               ELSE err
    BY <1>5, <2>1, Zenon DEF describe_decode_failure
  <2> QED
    BY <1>2, <1>3, <2>1, <2>2, <2>3
<1> QED
  BY <1>6, <1>7

\* The connection test and a connect try the same methods with the same secret.
LEMMA Predicts == World => TestPredicts
<1>1. SUFFICES ASSUME World, host.secret_ref = account_for(host)
               PROVE  ToSet(TestChain(host, keyring, Blank)) = ToSet(auth_for_host(host, keyring))
  BY DEF TestPredicts
<1>2. PICK stored : stored = Known(read_secret(keyring, account_for(host)))
  OBVIOUS
<1>3. PICK test : test = KindsOf(host)
  OBVIOUS
<1>4. PICK kinds : kinds = <<host.auth>> \o Others(host)
  OBVIOUS
<1>5. TestChain(host, keyring, Blank) = [n \in DOMAIN test |-> Method(test[n], stored)]
  BY <1>2, <1>3, Zenon DEF TestChain, auth_from_dto_or_stored, stored_secret
<1>6. auth_for_host(host, keyring) = [n \in DOMAIN kinds |-> Method(kinds[n], stored)]
  BY <1>1, <1>2, <1>4, Zenon DEF auth_for_host, AccountRead
<1>7. host \in Hosts /\ host.auth \in Kinds /\ host.auth_fallbacks \in Seq(Kinds)
  BY <1>1, AuthConstants DEF World
<1>8. /\ test[1] = host.auth /\ 1 \in DOMAIN test
      /\ \A n \in DOMAIN test : n # 1 => n - 1 \in DOMAIN host.auth_fallbacks /\ test[n] = host.auth_fallbacks[n - 1]
      /\ \A i \in DOMAIN host.auth_fallbacks : i + 1 \in DOMAIN test /\ test[i + 1] = host.auth_fallbacks[i]
  <2>1. PICK a \in Kinds, fb \in Seq(Kinds) : a = host.auth /\ fb = host.auth_fallbacks
    BY <1>7, Zenon
  <2>2. test = <<a>> \o fb
    BY <1>3, <2>1, Zenon DEF KindsOf
  <2>3. /\ (<<a>> \o fb)[1] = a /\ 1 \in DOMAIN (<<a>> \o fb)
        /\ \A n \in DOMAIN (<<a>> \o fb) : n # 1 => n - 1 \in DOMAIN fb /\ (<<a>> \o fb)[n] = fb[n - 1]
        /\ \A i \in DOMAIN fb : i + 1 \in DOMAIN (<<a>> \o fb) /\ (<<a>> \o fb)[i + 1] = fb[i]
    OBVIOUS
  <2> QED
    BY <2>1, <2>2, <2>3, Zenon
<1>9. /\ kinds[1] = host.auth /\ 1 \in DOMAIN kinds
      /\ \A n \in DOMAIN kinds : n # 1 => n - 1 \in DOMAIN Others(host) /\ kinds[n] = Others(host)[n - 1]
      /\ \A i \in DOMAIN Others(host) : i + 1 \in DOMAIN kinds /\ kinds[i + 1] = Others(host)[i]
  BY <1>4, <1>7, KindsLemma, ZenonT(60)
<1>10. /\ \A i \in DOMAIN Others(host) : \E j \in DOMAIN host.auth_fallbacks : host.auth_fallbacks[j] = Others(host)[i]
       /\ \A j \in DOMAIN host.auth_fallbacks : host.auth_fallbacks[j] # host.auth =>
              \E i \in DOMAIN Others(host) : Others(host)[i] = host.auth_fallbacks[j]
  <2>1. DOMAIN host.auth_fallbacks = 1 .. Len(host.auth_fallbacks)
    BY <1>7
  <2>2. Sieved(Others(host), Kinds, host.auth_fallbacks, host.auth, Len(host.auth_fallbacks))
    BY <1>7, OthersLemma, Zenon
  <2> QED
    BY <2>1, <2>2, Zenon DEF Sieved
<1>11. \A n \in DOMAIN test : \E k \in DOMAIN kinds : kinds[k] = test[n]
  <2>1. SUFFICES ASSUME NEW n \in DOMAIN test PROVE \E k \in DOMAIN kinds : kinds[k] = test[n]
    OBVIOUS
  <2>2. CASE test[n] = host.auth
    BY <1>9, <2>2, Zenon
  <2>3. CASE test[n] # host.auth
    <3>1. PICK j \in DOMAIN host.auth_fallbacks : test[n] = host.auth_fallbacks[j]
      BY <1>8, <2>3, Zenon
    <3>2. PICK i \in DOMAIN Others(host) : Others(host)[i] = test[n]
      BY <1>10, <2>3, <3>1, Zenon
    <3> QED
      BY <1>9, <3>2, Zenon
  <2> QED
    BY <2>2, <2>3
<1>12. \A k \in DOMAIN kinds : \E n \in DOMAIN test : test[n] = kinds[k]
  <2>1. SUFFICES ASSUME NEW k \in DOMAIN kinds PROVE \E n \in DOMAIN test : test[n] = kinds[k]
    OBVIOUS
  <2>2. CASE k = 1
    BY <1>8, <1>9, <2>2, Zenon
  <2>3. CASE k # 1
    <3>1. PICK i \in DOMAIN Others(host) : kinds[k] = Others(host)[i]
      BY <1>9, <2>3, Zenon
    <3>2. PICK j \in DOMAIN host.auth_fallbacks : host.auth_fallbacks[j] = kinds[k]
      BY <1>10, <3>1, Zenon
    <3> QED
      BY <1>8, <3>2, Zenon
  <2> QED
    BY <2>2, <2>3
<1>13. ASSUME NEW x
       PROVE  (\E n \in DOMAIN test : Method(test[n], stored) = x) <=> (\E k \in DOMAIN kinds : Method(kinds[k], stored) = x)
  BY <1>11, <1>12, Zenon
<1>14. /\ ToSet(TestChain(host, keyring, Blank)) = {Method(test[n], stored) : n \in DOMAIN test}
       /\ ToSet(auth_for_host(host, keyring)) = {Method(kinds[n], stored) : n \in DOMAIN kinds}
  BY <1>5, <1>6 DEF ToSet
<1> QED
  BY <1>13, <1>14

-----------------------------------------------------------------------------
(* The theorems.                                                            *)

\* Whatever the record, the server, the agent and MaxAuthTries: when AuthFailed
\* is reported and the connection still lives, the chain held nothing the server
\* would have taken; and the two loops never leave their lists.
THEOREM ViableLoginWins == Spec => []ViableWins
<1>1. IInv => ViableWins
  <2> SUFFICES ASSUME IInv PROVE ViableWins
    OBVIOUS
  <2>1. TypeOK
    <3>1. chain \in Seq([kind : Kinds, secret : {Password, KeyFile.lock, Blank}])
      BY Zenon DEF IInv, Built, Methods, Secrets
    <3>2. identity \in Nat /\ (phase = "agent" => identity \in 1 .. Len(agent) + 1)
      <4>1. agent \in Seq(STRING)
        BY AuthConstants DEF IInv, World
      <4> QED
        BY <4>1 DEF IInv, Loops
    <3>3. peer \in [alive : BOOLEAN, tries : 0 .. MaxAuthTries, passed : SUBSET WireKinds]
      BY Zenon DEF IInv, Progress, PeerOK, Peers
    <3> QED
      BY <3>1, <3>2, <3>3, Zenon DEF TypeOK, IInv, Built, Lists, Loops
  <2>2. ASSUME phase = "failed", peer.alive
        PROVE  IF server.both THEN \E kind \in server.methods : ~CanPass(kind)
                              ELSE \A kind \in server.methods : ~CanPass(kind)
    <3>1. Open(peer) /\ Behind /\ next > Len(chain) /\ peer.passed \subseteq server.methods
      BY <2>2 DEF IInv, Progress, PeerOK, Loops
    <3>2. \A n \in DOMAIN chain : n < next
      BY <3>1 DEF IInv, Built
    <3>3. \A kind \in server.methods : CanPass(kind) => kind \in peer.passed
      BY <3>1, <3>2, Zenon DEF CanPass, Behind
    <3>4. CASE server.both
      <4>1. peer.passed # server.methods
        BY <3>1, <3>4 DEF Open
      <4>2. PICK kind \in server.methods : kind \notin peer.passed
        BY <3>1, <4>1
      <4> QED
        BY <3>3, <3>4, <4>2, Zenon
    <3>5. CASE ~server.both
      <4>1. peer.passed = {}
        BY <3>1, <3>5 DEF Open
      <4> QED
        BY <3>3, <3>5, <4>1
    <3> QED
      BY <3>4, <3>5
  <2> QED
    BY <2>1, <2>2, Zenon DEF ViableWins
<1> QED
  BY Initially, Inductive, <1>1, PTL DEF Spec

\* A credential the user clears is in no chain built after that, on a reconnect
\* as on a first connect.
THEOREM ClearedIsGone == Spec => []ClearedNotReused
<1>1. IInv => ClearedNotReused
  BY DEF IInv
<1> QED
  BY Initially, Inductive, <1>1, PTL DEF Spec

\* No method is begun that the server's latest list rules out, and a password is
\* sent at most once in an attempt, in every attempt against every server.
THEOREM TriesAreSpentWell == Spec => TriesNotSquandered
<1>1. ASSUME IInv, IInv', [Next]_vars
      PROVE  [/\ peer'.tries > peer.tries /\ phase = "chain" => ~RuledOut(method_kind(Current), told)
              /\ guessed' <= 1]_vars
  <2>1. guessed' <= 1
    <3>1. guessed' \in 0 .. 1
      BY <1>1, Zenon DEF IInv, Guesses
    <3> QED
      BY <3>1
  <2>2. ASSUME Next, peer'.tries > peer.tries, phase = "chain"
        PROVE  ~RuledOut(method_kind(Current), told)
    <3>1. peer.tries \in Nat
      BY <1>1, AuthConstants DEF IInv, Progress, PeerOK, Peers
    <3>2. peer' # peer
      BY <2>2, <3>1
    <3>3. ~Vanish
      <4>1. SUFFICES ASSUME Vanish PROVE FALSE
        OBVIOUS
      <4>2. peer'.tries = peer.tries
        BY <1>1, <4>1 DEF Vanish, IInv, Progress, PeerOK, Peers
      <4> QED
        BY <2>2, <3>1, <4>2
    <3>4. ~Establish /\ ~TryIdentity
      BY <2>2 DEF Establish, TryIdentity
    <3>5. TryPassword \/ TryKeyFile
      BY <2>2, <3>2, <3>3, <3>4, Zenon DEF Next, Authenticate, Skip, OpenAgent, AgentDone, GiveUp, Drop, LockKeyring,
         ClearSecret, Done, vars
    <3>6. ~RuledOut(method_kind(Current), offered)
      BY <3>5, Zenon DEF TryPassword, TryKeyFile, Attempting
    <3> QED
      BY <1>1, <2>2, <3>6, Zenon DEF IInv, Lists
  <2> QED
    BY <1>1, <2>1, <2>2, Zenon
<1> QED
  BY Initially, Inductive, <1>1, PTL DEF Spec, TriesNotSquandered

\* The form's connection test tries what a connect would, for every record and
\* keyring, and its passphrase check accepts what a connect will load and calls a
\* passphrase wrong only for a locked file of a supported kind that does not open
\* with it, sound or damaged.
THEOREM FormsAreTrue == Spec => []FormsTellTrue
<1>1. IInv => FormsTellTrue
  BY Blames, Predicts DEF IInv, FormsTellTrue
<1> QED
  BY Initially, Inductive, <1>1, PTL DEF Spec

=============================================================================
