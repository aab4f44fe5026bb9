------------------------ MODULE WireGuardPeersProofs ------------------------
(* Proofs about WireGuardPeers: its types, and what holds of the peers that  *)
(* were given and of those that were revoked by requests that met no other.  *)
(* First what the operators on files do, then what each step does to the     *)
(* requests, then the invariant, one lemma for each step.                    *)
EXTENDS WireGuardPeers, SequenceTheorems, WellFoundedInduction, TLAPS

\* A set of naturals that is not empty has a least member.
LEMMA Least ==
    ASSUME NEW S \in SUBSET Nat, S # {}
    PROVE  \E x \in S : \A y \in S : x <= y
<1> DEFINE R == OpToRel(<, Nat)
<1>1. PICK x \in S : \A y \in S : <<y, x>> \notin R
  <2> HIDE DEF R
  <2> QED
    BY WFMin, NatLessThanWellFounded DEF R
<1>2. \A y \in S : ~(y < x)
  BY <1>1 DEF OpToRel
<1> QED
  BY <1>2

\* One that is bounded has a greatest member too.
LEMMA Greatest ==
    ASSUME NEW n \in Nat, NEW S \in SUBSET (1..n), S # {}
    PROVE  \E x \in S : \A y \in S : y <= x
<1> DEFINE D == {n - x : x \in S}
<1>1. D \in SUBSET Nat /\ D # {}
  <2>1. \A x \in S : n - x \in Nat
    OBVIOUS
  <2>2. D \subseteq Nat
    BY <2>1
  <2>3. PICK x \in S : TRUE
    OBVIOUS
  <2>4. n - x \in D
    BY <2>3
  <2> QED
    BY <2>2, <2>4
<1>2. PICK d \in D : \A e \in D : d <= e
  <2> HIDE DEF D
  <2> QED
    BY <1>1, Least
<1>3. PICK x \in S : d = n - x
  OBVIOUS
<1>4. \A y \in S : d <= n - y
  BY <1>2
<1> QED
  BY <1>3, <1>4

\* Removing a member of a sequence.
LEMMA Removal ==
    ASSUME NEW S, NEW s \in Seq(S), NEW i \in 1..Len(s)
    PROVE  /\ RemoveAt(s, i) \in Seq(S)
           /\ Len(RemoveAt(s, i)) = Len(s) - 1
           /\ \A j \in 1..(Len(s) - 1) :
                 RemoveAt(s, i)[j] = IF j < i THEN s[j] ELSE s[j + 1]
<1> DEFINE a == SubSeq(s, 1, i - 1)
           b == SubSeq(s, i + 1, Len(s))
<1>1. Len(s) \in Nat /\ \A j \in 1..Len(s) : s[j] \in S
  BY LenProperties, ElementOfSeq
<1>2. /\ a \in Seq(S) /\ Len(a) = i - 1
      /\ \A j \in 1..(i - 1) : a[j] = s[j]
  <2>1. \A j \in 1..(i - 1) : s[j] \in S
    BY <1>1
  <2>2. /\ a \in Seq(S) /\ Len(a) = (IF 1 <= i - 1 THEN i - 1 - 1 + 1 ELSE 0)
        /\ \A j \in 1..(i - 1 - 1 + 1) : a[j] = s[1 + j - 1]
    BY <1>1, <2>1, SubSeqProperties
  <2> QED
    BY <1>1, <2>2
<1>3. /\ b \in Seq(S) /\ Len(b) = Len(s) - i
      /\ \A j \in 1..(Len(s) - i) : b[j] = s[i + j]
  <2>1. \A j \in (i + 1)..Len(s) : s[j] \in S
    BY <1>1
  <2>2. /\ b \in Seq(S) /\ Len(b) = (IF i + 1 <= Len(s) THEN Len(s) - (i + 1) + 1 ELSE 0)
        /\ \A j \in 1..(Len(s) - (i + 1) + 1) : b[j] = s[i + 1 + j - 1]
    BY <1>1, <2>1, SubSeqProperties
  <2> QED
    BY <1>1, <2>2
<1>4. RemoveAt(s, i) = a \o b
  BY DEF RemoveAt
<1> HIDE DEF a, b
<1>5. /\ a \o b \in Seq(S) /\ Len(a \o b) = Len(a) + Len(b)
      /\ \A j \in 1..(Len(a) + Len(b)) :
            (a \o b)[j] = IF j <= Len(a) THEN a[j] ELSE b[j - Len(a)]
  BY <1>2, <1>3, ConcatProperties
<1> QED
  BY <1>1, <1>2, <1>3, <1>4, <1>5
-----------------------------------------------------------------------------
(* The invariant.                                                            *)

\* A request that has a key is about a name, a key, and one that creates has an
\* address.
Sound(p) ==
    /\ p.pc # "idle" => p.name \in Name
    /\ p.pc \notin {"idle", "list", "choose"} => p.key \in Key
    /\ p.pc \in {"set", "append", "save"} => p.ip \in Addr

TypeInv == TypeOK /\ \A t \in Thread : Sound(proc[t])

\* Keys are handed out in order: nothing is known of those to come.
Numbered ==
    /\ \A k \in Key : k > lastKey => status[k] = "none"
    /\ \A n \in Name : artifacts[n] <= lastKey
    /\ \A k \in Keys(file) : k <= lastKey
    /\ \A t \in Thread :
        /\ proc[t].key <= lastKey
        /\ \A k \in Keys(proc[t].doc) : k <= lastKey

Making(t) == proc[t].pc \in {"set", "append"}

\* A key that is being set up is in no file yet, nor with another request.
Unwritten ==
    \A t \in Thread : Making(t) =>
        /\ proc[t].key \notin Keys(file)
        /\ \A u \in Thread : proc[t].key \notin Keys(proc[u].doc)
        /\ \A u \in Thread : Making(u) /\ proc[u].key = proc[t].key => u = t

\* A key has one block at most.
Once(f) == \A i, j \in DOMAIN f.peers : f.peers[i].key = f.peers[j].key => i = j

OneBlock == Once(file) /\ \A t \in Thread : Once(proc[t].doc)

\* A request that is still alone is the only one.
Apart == \A t \in UnderWay : proc[t].alone => UnderWay = {t}

\* A key counts as given only from the answer to its creation to its removal.
Ungiven ==
    \A t \in Thread :
        proc[t].pc \notin {"idle", "choose", "list", "unset"} => ~Given(proc[t].key)

\* The block of the key has this address, and nobody else has it.
Owns(f, k, a) ==
    \E i \in DOMAIN f.peers :
        /\ f.peers[i].key = k /\ f.peers[i].ip = a
        /\ \A j \in DOMAIN f.peers : f.peers[j].key = k \/ f.peers[j].ip = a => j = i

\* What a creation that is alone has done.
Creating ==
    \A t \in Thread : proc[t].alone =>
        /\ Making(t) => proc[t].ip \in Free(file)
        /\ proc[t].pc \in {"append", "save"} => route[proc[t].ip] = proc[t].key
        /\ proc[t].pc = "save" => Owns(file, proc[t].key, proc[t].ip)

\* What a removal that is alone has done.
Removing ==
    \A t \in Thread : proc[t].alone =>
        /\ proc[t].pc \in {"read", "truncate", "write", "forget"} =>
              \A a \in Addr : route[a] # proc[t].key
        /\ proc[t].pc = "forget" => proc[t].key \notin Keys(file)

\* A copy of the file that will be written back; no copy is being written.
Holding(t) == proc[t].pc \in {"truncate", "write"}

Quiet == \A t \in Thread : proc[t].pc # "write"

\* A peer that was given owns its address in the file, unless a removal has emptied
\* that, and in every copy that will be written back; it has it on the interface, and
\* nobody is about to take it.
AtHome(k, a) ==
    /\ route[a] = k
    /\ Quiet \/ k \in Keys(file) => Owns(file, k, a)
    /\ \A t \in Thread :
        /\ Making(t) => proc[t].ip # a
        /\ Holding(t) => Owns(proc[t].doc, k, a)

Settled == \A k \in Key : Given(k) => \E a \in Addr : AtHome(k, a)

\* A peer that was revoked is nowhere, and nobody is about to bring it back.
IsGone(k) ==
    /\ k \notin Keys(file) /\ \A a \in Addr : route[a] # k
    /\ \A t \in Thread :
        /\ Making(t) => proc[t].key # k
        /\ Holding(t) => k \notin Keys(proc[t].doc)

Gone == \A k \in Key : status[k] = "revoked" => IsGone(k)

PeerInv ==
    /\ Numbered /\ Unwritten /\ OneBlock
    /\ Apart /\ Ungiven /\ Creating /\ Removing
    /\ Settled /\ Gone
-----------------------------------------------------------------------------
(* The operators on files.                                                   *)

\* The blocks and the comments of a file.
LEMMA FileParts ==
    ASSUME NEW f, WellFormed(f)
    PROVE  /\ f.peers \in Seq(Peer) /\ f.labels \in Seq(Label)
           /\ Len(f.peers) \in Nat /\ Len(f.labels) = Len(f.peers) + 1
           /\ DOMAIN f.peers = 1..Len(f.peers) /\ DOMAIN f.labels = 1..Len(f.labels)
           /\ \A i \in DOMAIN f.peers : f.peers[i].key \in Key /\ f.peers[i].ip \in Addr
           /\ Keys(f) \subseteq Key /\ UsedIn(f) \subseteq Addr
           /\ f = [peers |-> f.peers, labels |-> f.labels, server |-> f.server]
           /\ f.server \in BOOLEAN
<1>1. /\ f.peers \in Seq(Peer) /\ f.labels \in Seq(Label) /\ f.server \in BOOLEAN
      /\ f = [peers |-> f.peers, labels |-> f.labels, server |-> f.server]
  BY DEF WellFormed, File
<1>2. Len(f.peers) \in Nat /\ Len(f.labels) = Len(f.peers) + 1
  BY <1>1, LenProperties DEF WellFormed
<1>3. DOMAIN f.peers = 1..Len(f.peers) /\ DOMAIN f.labels = 1..Len(f.labels)
  BY <1>1, LenProperties
<1>4. \A i \in DOMAIN f.peers : f.peers[i] \in Peer
  BY <1>1, <1>3, ElementOfSeq
<1>5. \A i \in DOMAIN f.peers : f.peers[i].key \in Key /\ f.peers[i].ip \in Addr
  BY <1>4 DEF Peer
<1> QED
  BY <1>1, <1>2, <1>3, <1>5 DEF Keys, UsedIn

\* The address that is chosen is free.
LEMMA FirstFreeIsFree ==
    ASSUME NEW f, Free(f) # {}
    PROVE  FirstFree(f) \in Free(f) /\ FirstFree(f) \in Addr
<1>1. Free(f) \in SUBSET Nat
  BY WireGuardConstants DEF Free, Addr
<1>2. \E a \in Free(f) : \A b \in Free(f) : a <= b
  <2> HIDE DEF Free
  <2> QED
    BY <1>1, Least
<1>3. FirstFree(f) \in Free(f)
  BY <1>2 DEF FirstFree
<1> QED
  BY <1>3 DEF Free

\* A block that is appended comes last.
LEMMA AppendedIs ==
    ASSUME NEW f, WellFormed(f), NEW n \in Label, NEW k \in Key, NEW a \in Addr
    PROVE  /\ WellFormed(Appended(f, n, k, a))
           /\ DOMAIN Appended(f, n, k, a).peers = 1..(Len(f.peers) + 1)
           /\ \A i \in DOMAIN f.peers : Appended(f, n, k, a).peers[i] = f.peers[i]
           /\ Appended(f, n, k, a).peers[Len(f.peers) + 1] = [key |-> k, ip |-> a]
<1> DEFINE b == [key |-> k, ip |-> a]
           g == Appended(f, n, k, a)
           ls == [f.labels EXCEPT ![Len(f.labels)] = n]
<1>1. /\ f.peers \in Seq(Peer) /\ f.labels \in Seq(Label)
      /\ Len(f.peers) \in Nat /\ Len(f.labels) = Len(f.peers) + 1
      /\ DOMAIN f.peers = 1..Len(f.peers)
  BY FileParts
<1>2. b \in Peer
  BY DEF Peer
<1>3. /\ g.peers = Append(f.peers, b) /\ g.labels = Append(ls, Unnamed) /\ g.server \in BOOLEAN
      /\ g = [peers |-> g.peers, labels |-> g.labels, server |-> g.server]
  <2>1. f = [peers |-> f.peers, labels |-> f.labels, server |-> f.server] /\ f.server \in BOOLEAN
    BY FileParts
  <2> QED
    BY <2>1 DEF Appended
<1>4. ls \in Seq(Label) /\ Len(ls) = Len(f.labels)
  BY <1>1, ExceptSeq
<1>5. /\ g.peers \in Seq(Peer) /\ Len(g.peers) = Len(f.peers) + 1
      /\ \A i \in 1..Len(f.peers) : g.peers[i] = f.peers[i]
      /\ g.peers[Len(f.peers) + 1] = b
  <2> HIDE DEF b, g
  <2> QED
    BY <1>1, <1>2, <1>3, AppendProperties
<1>6. g.labels \in Seq(Label) /\ Len(g.labels) = Len(f.labels) + 1
  <2>1. Unnamed \in Label
    BY DEF Label
  <2> HIDE DEF ls, g
  <2> QED
    BY <1>3, <1>4, <2>1, AppendProperties
<1>7. WellFormed(g)
  <2> HIDE DEF g
  <2> QED
    BY <1>1, <1>3, <1>5, <1>6 DEF WellFormed, File
<1> HIDE DEF g
<1>8. DOMAIN g.peers = 1..(Len(f.peers) + 1)
  BY <1>5, <1>7, FileParts
<1> QED
  BY <1>1, <1>5, <1>7, <1>8 DEF g

\* A removal takes out one block with the key, if there is one, and no other.
LEMMA WithoutIs ==
    ASSUME NEW f, WellFormed(f), NEW k
    PROVE  /\ WellFormed(Without(f, k))
           /\ Position(f, k) = {} => Without(f, k) = f
           /\ Position(f, k) # {} =>
                \E i \in Position(f, k) :
                   /\ DOMAIN Without(f, k).peers = 1..(Len(f.peers) - 1)
                   /\ \A j \in 1..(Len(f.peers) - 1) :
                         Without(f, k).peers[j] = IF j < i THEN f.peers[j] ELSE f.peers[j + 1]
<1>1. CASE Position(f, k) = {}
  BY <1>1 DEF Without
<1>2. CASE Position(f, k) # {}
  <2> DEFINE i == CHOOSE j \in Position(f, k) : TRUE
             g == Without(f, k)
  <2>1. i \in Position(f, k)
    BY <1>2
  <2>2. /\ g.peers = RemoveAt(f.peers, i) /\ g.labels = RemoveAt(f.labels, i + 1)
        /\ g = [peers |-> g.peers, labels |-> g.labels, server |-> g.server]
        /\ g.server \in BOOLEAN
    <3>1. f = [peers |-> f.peers, labels |-> f.labels, server |-> f.server] /\ f.server \in BOOLEAN
      BY FileParts
    <3> QED
      BY <1>2, <3>1 DEF Without
  <2> HIDE DEF i, g
  <2>3. /\ f.peers \in Seq(Peer) /\ f.labels \in Seq(Label)
        /\ Len(f.peers) \in Nat /\ Len(f.labels) = Len(f.peers) + 1
        /\ i \in 1..Len(f.peers)
    BY <2>1, FileParts DEF Position
  <2>4. /\ g.peers \in Seq(Peer) /\ Len(g.peers) = Len(f.peers) - 1
        /\ \A j \in 1..(Len(f.peers) - 1) :
              g.peers[j] = IF j < i THEN f.peers[j] ELSE f.peers[j + 1]
    BY <2>2, <2>3, Removal
  <2>5. i + 1 \in 1..Len(f.labels)
    BY <2>3
  <2>6. g.labels \in Seq(Label) /\ Len(g.labels) = Len(f.labels) - 1
    BY <2>2, <2>3, <2>5, Removal
  <2>7. WellFormed(g)
    BY <2>2, <2>3, <2>4, <2>6 DEF WellFormed, File
  <2>8. DOMAIN g.peers = 1..(Len(f.peers) - 1)
    BY <2>4, <2>7, FileParts
  <2> QED
    BY <1>2, <2>1, <2>4, <2>7, <2>8 DEF g
<1> QED
  BY <1>1, <1>2

\* The key that a name stands for is one of the file.
LEMMA KeyOfIsThere ==
    ASSUME NEW f, WellFormed(f), NEW n, Named(f, n) # {}
    PROVE  KeyOf(f, n) \in Keys(f)
<1>1. Named(f, n) \in SUBSET Nat
  BY FileParts DEF Named
<1>2. \E i \in Named(f, n) : \A j \in Named(f, n) : i <= j
  <2> HIDE DEF Named
  <2> QED
    BY <1>1, Least
<1> DEFINE i == CHOOSE i \in Named(f, n) : \A j \in Named(f, n) : i <= j
<1>3. i \in Named(f, n)
  <2> HIDE DEF Named
  <2> QED
    BY <1>2
<1>4. i \in DOMAIN f.peers /\ KeyOf(f, n) = f.peers[i].key
  BY <1>3 DEF KeyOf, Named
<1> HIDE DEF i
<1> QED
  BY <1>4 DEF Keys

\* What the interface has after it has read the file is what the file says.
LEMMA LoadedIs ==
    ASSUME NEW f, WellFormed(f), NEW a \in Addr
    PROVE  \/ Loaded(f)[a] = 0 /\ \A i \in DOMAIN f.peers : f.peers[i].ip # a
           \/ \E i \in DOMAIN f.peers : f.peers[i].ip = a /\ Loaded(f)[a] = f.peers[i].key
<1> DEFINE with == {i \in DOMAIN f.peers : f.peers[i].ip = a}
           last == CHOOSE i \in with : \A j \in with : j <= i
<1>1. Loaded(f)[a] = IF with = {} THEN 0 ELSE f.peers[last].key
  BY DEF Loaded
<1>2. CASE with = {}
  BY <1>1, <1>2
<1>3. CASE with # {}
  <2>1. Len(f.peers) \in Nat /\ with \in SUBSET (1..Len(f.peers))
    BY FileParts
  <2>2. \E i \in with : \A j \in with : j <= i
    <3> HIDE DEF with
    <3> QED
      BY <1>3, <2>1, Greatest
  <2>3. last \in with
    <3> HIDE DEF with
    <3> QED
      BY <2>2
  <2> HIDE DEF last
  <2> QED
    BY <1>1, <1>3, <2>3
<1> QED
  BY <1>2, <1>3

\* What an appended block changes of the keys and of the addresses.
LEMMA AppendedKeeps ==
    ASSUME NEW f, WellFormed(f), NEW n \in Label, NEW k \in Key, NEW a \in Addr
    PROVE  /\ Keys(Appended(f, n, k, a)) = Keys(f) \union {k}
           /\ k \notin Keys(f) /\ Once(f) => Once(Appended(f, n, k, a))
           /\ k \notin Keys(f) /\ a \in Free(f) => Owns(Appended(f, n, k, a), k, a)
           /\ \A l, b : l # k /\ b # a /\ Owns(f, l, b) => Owns(Appended(f, n, k, a), l, b)
<1> DEFINE g == Appended(f, n, k, a)
           m == Len(f.peers) + 1
<1>1. /\ Len(f.peers) \in Nat /\ DOMAIN f.peers = 1..Len(f.peers)
      /\ \A i \in DOMAIN f.peers : f.peers[i].ip \in Addr
  BY FileParts
<1>2. /\ DOMAIN g.peers = 1..m
      /\ \A i \in DOMAIN f.peers : g.peers[i] = f.peers[i]
      /\ g.peers[m].key = k /\ g.peers[m].ip = a
  <2>1. /\ DOMAIN g.peers = 1..m
        /\ \A i \in DOMAIN f.peers : g.peers[i] = f.peers[i]
        /\ g.peers[m] = [key |-> k, ip |-> a]
    BY AppendedIs
  <2> HIDE DEF g, m
  <2> QED
    BY <2>1
<1> HIDE DEF g
<1>3. \A i \in DOMAIN g.peers : i \in DOMAIN f.peers \/ i = m
  BY <1>1, <1>2
<1>4. m \in DOMAIN g.peers /\ \A i \in DOMAIN f.peers : i \in DOMAIN g.peers /\ i # m
  BY <1>1, <1>2
<1> HIDE DEF m
<1>5. Keys(g) = Keys(f) \union {k}
  BY <1>2, <1>3, <1>4 DEF Keys
<1>6. ASSUME k \notin Keys(f), Once(f)
      PROVE  Once(g)
  BY <1>2, <1>3, <1>4, <1>6 DEF Keys, Once
<1>7. ASSUME k \notin Keys(f), a \in Free(f)
      PROVE  Owns(g, k, a)
  BY <1>2, <1>3, <1>4, <1>7 DEF Keys, Free, UsedIn, Owns
<1>8. ASSUME NEW l, NEW b, l # k, b # a, Owns(f, l, b)
      PROVE  Owns(g, l, b)
  <2>1. PICK i \in DOMAIN f.peers :
           /\ f.peers[i].key = l /\ f.peers[i].ip = b
           /\ \A j \in DOMAIN f.peers : f.peers[j].key = l \/ f.peers[j].ip = b => j = i
    BY <1>8 DEF Owns
  <2>2. g.peers[i].key = l /\ g.peers[i].ip = b /\ i \in DOMAIN g.peers
    BY <1>2, <1>4, <2>1
  <2>3. \A j \in DOMAIN g.peers : g.peers[j].key = l \/ g.peers[j].ip = b => j = i
    BY <1>2, <1>3, <1>8, <2>1
  <2> QED
    BY <2>2, <2>3 DEF Owns
<1> QED
  BY <1>5, <1>6, <1>7, <1>8 DEF g

\* What a removed block changes of them.
LEMMA WithoutKeeps ==
    ASSUME NEW f, WellFormed(f), NEW k
    PROVE  /\ Keys(Without(f, k)) \subseteq Keys(f)
           /\ Once(f) => Once(Without(f, k)) /\ k \notin Keys(Without(f, k))
           /\ \A l, b : l # k /\ Owns(f, l, b) => Owns(Without(f, k), l, b)
<1> DEFINE g == Without(f, k)
<1>1. CASE Position(f, k) = {}
  <2>1. k \notin Keys(f) /\ g = f
    BY <1>1, WithoutIs DEF Position, Keys
  <2> QED
    BY <2>1
<1>2. CASE Position(f, k) # {}
  <2>1. PICK p \in Position(f, k) :
           /\ DOMAIN g.peers = 1..(Len(f.peers) - 1)
           /\ \A j \in 1..(Len(f.peers) - 1) :
                 g.peers[j] = IF j < p THEN f.peers[j] ELSE f.peers[j + 1]
    BY <1>2, WithoutIs
  <2> HIDE DEF g
  <2>2. /\ Len(f.peers) \in Nat /\ DOMAIN f.peers = 1..Len(f.peers)
        /\ p \in DOMAIN f.peers /\ f.peers[p].key = k
    BY <2>1, FileParts DEF Position
  <2> DEFINE From(j) == IF j < p THEN j ELSE j + 1
  <2>3. \A j \in DOMAIN g.peers : /\ From(j) \in DOMAIN f.peers /\ From(j) # p
                                  /\ g.peers[j] = f.peers[From(j)]
    BY <2>1, <2>2
  <2>4. \A j, i \in DOMAIN g.peers : From(j) = From(i) => j = i
    BY <2>1, <2>2
  <2>5. \A i \in DOMAIN f.peers : i # p => \E j \in DOMAIN g.peers : From(j) = i
    <3> SUFFICES ASSUME NEW i \in DOMAIN f.peers, i # p
                 PROVE  \E j \in DOMAIN g.peers : From(j) = i
      OBVIOUS
    <3>1. CASE i < p
      BY <2>1, <2>2, <3>1
    <3>2. CASE i > p
      <4>1. i - 1 \in DOMAIN g.peers /\ From(i - 1) = i
        BY <2>1, <2>2, <3>2
      <4> QED
        BY <4>1
    <3> QED
      BY <2>2, <3>1, <3>2
  <2> HIDE DEF From
  <2>6. Keys(g) \subseteq Keys(f)
    BY <2>3 DEF Keys
  <2>7. ASSUME Once(f)
        PROVE  Once(g) /\ k \notin Keys(g)
    BY <2>2, <2>3, <2>4, <2>7 DEF Once, Keys
  <2>8. ASSUME NEW l, NEW b, l # k, Owns(f, l, b)
        PROVE  Owns(g, l, b)
    <3>1. PICK i \in DOMAIN f.peers :
             /\ f.peers[i].key = l /\ f.peers[i].ip = b
             /\ \A j \in DOMAIN f.peers : f.peers[j].key = l \/ f.peers[j].ip = b => j = i
      BY <2>8 DEF Owns
    <3>2. PICK h \in DOMAIN g.peers : From(h) = i
      BY <2>2, <2>5, <2>8, <3>1
    <3>3. g.peers[h].key = l /\ g.peers[h].ip = b
      BY <2>3, <3>1, <3>2
    <3>4. \A j \in DOMAIN g.peers : g.peers[j].key = l \/ g.peers[j].ip = b => j = h
      BY <2>3, <2>4, <3>1, <3>2
    <3> QED
      BY <3>3, <3>4 DEF Owns
  <2> QED
    BY <2>6, <2>7, <2>8 DEF g
<1> QED
  BY <1>1, <1>2

\* The interface serves the owner of an address, and no key that the file has not.
LEMMA LoadedServes ==
    ASSUME NEW f, WellFormed(f)
    PROVE  /\ Loaded(f) \in [Addr -> Key \union {0}]
           /\ \A k : \A a \in Addr : Owns(f, k, a) => Loaded(f)[a] = k
           /\ \A k \in Key, a \in Addr : k \notin Keys(f) => Loaded(f)[a] # k
<1>1. \A i \in DOMAIN f.peers : f.peers[i].key \in Key /\ f.peers[i].key \in Keys(f)
  BY FileParts DEF Keys
<1>2. \A a \in Addr : Loaded(f)[a] \in Key \union {0}
  BY <1>1, LoadedIs
<1>3. Loaded(f) \in [Addr -> Key \union {0}]
  <2> DEFINE Key0(a) == Loaded(f)[a]
  <2>1. Loaded(f) = [a \in Addr |-> Key0(a)]
    BY DEF Loaded
  <2>2. \A a \in Addr : Key0(a) \in Key \union {0}
    BY <1>2
  <2> HIDE DEF Key0
  <2> QED
    BY <2>1, <2>2
<1>4. ASSUME NEW k, NEW a \in Addr, Owns(f, k, a)
      PROVE  Loaded(f)[a] = k
  BY <1>4, LoadedIs DEF Owns
<1>5. ASSUME NEW k \in Key, NEW a \in Addr, k \notin Keys(f)
      PROVE  Loaded(f)[a] # k
  BY <1>1, <1>5, LoadedIs DEF Key
<1> QED
  BY <1>3, <1>4, <1>5

\* The owner of an address has a block, and the address is not free.
LEMMA OwnerIsThere ==
    ASSUME NEW f, NEW k, NEW a, Owns(f, k, a)
    PROVE  k \in Keys(f) /\ a \notin Free(f)
BY DEF Owns, Keys, Free, UsedIn
-----------------------------------------------------------------------------
(* Type correctness.                                                         *)

\* What every request has.
Procs(p) == p \in Proc /\ WellFormed(p.doc) /\ Sound(p)

\* A file without peers, with the server's section or without any text.
LEMMA EmptyIs == WellFormed(EmptyFile) /\ WellFormed(NoText)
<1>1. <<Unnamed>> \in Seq(Label) /\ <<>> \in Seq(Peer)
  BY DEF Label
<1>2. NoText = [peers |-> <<>>, labels |-> <<Unnamed>>, server |-> FALSE]
  BY DEF NoText
<1>3. EmptyFile \in File /\ NoText \in File
  BY <1>1, <1>2 DEF EmptyFile, File
<1>4. /\ EmptyFile.peers = <<>> /\ EmptyFile.labels = <<Unnamed>>
      /\ NoText.peers = <<>> /\ NoText.labels = <<Unnamed>>
  BY <1>2 DEF EmptyFile
<1> QED
  BY <1>3, <1>4 DEF WellFormed

\* A thread that does nothing is sound.
LEMMA IdleSound == Procs(Idle)
<1>1. EmptyFile \in File /\ WellFormed(EmptyFile)
  BY EmptyIs DEF WellFormed
<1>2. WellFormed(EmptyFile)
  BY <1>1
<1>3. Idle \in Proc
  BY <1>1 DEF Idle, Proc, PC, Label
<1> QED
  BY <1>2, <1>3 DEF Procs, Sound, Idle

\* A request keeps its types when it goes on, also with a key or a file it has read.
LEMMA GoesOn ==
    ASSUME NEW p, Procs(p), NEW pc \in PC \ {"idle"}, p.pc # "idle",
           p.pc \in {"set", "append", "save"} \/ pc \notin {"set", "append", "save"}
    PROVE  /\ p.pc \notin {"list", "choose"} => Procs([p EXCEPT !.pc = pc])
           /\ \A k \in Key : Procs([p EXCEPT !.pc = pc, !.key = k])
           /\ \A f : p.pc \notin {"list", "choose"} /\ WellFormed(f) =>
                 Procs([p EXCEPT !.pc = pc, !.doc = f])
BY ZenonT(60) DEF Procs, Sound, Proc, PC, WellFormed

\* One thread goes on, the others stay where they are.
LEMMA OneGoesOn ==
    ASSUME TypeInv, NEW t \in Thread, NEW p, Procs(p), proc' = [proc EXCEPT ![t] = p]
    PROVE  proc' \in [Thread -> Proc] /\ \A u \in Thread : Procs(proc'[u])
BY DEF TypeInv, TypeOK, Procs

\* A request that has been met is one still.
LEMMA MetSound ==
    ASSUME TypeInv
    PROVE  /\ Disturbed \in [Thread -> Proc]
           /\ \A t \in Thread :
                /\ Procs(Disturbed[t])
                /\ Disturbed[t].pc = proc[t].pc /\ Disturbed[t].key = proc[t].key
                /\ Disturbed[t].ip = proc[t].ip /\ Disturbed[t].doc = proc[t].doc
                /\ Disturbed[t].name = proc[t].name
                /\ t \in UnderWay => ~Disturbed[t].alone
<1>1. ASSUME NEW t \in Thread
      PROVE  /\ Disturbed[t] = IF t \in UnderWay THEN [proc[t] EXCEPT !.alone = FALSE]
                               ELSE proc[t]
             /\ proc[t] \in Proc /\ WellFormed(proc[t].doc) /\ Sound(proc[t])
  BY DEF TypeInv, TypeOK, Disturbed
<1>2. ASSUME NEW t \in Thread
      PROVE  /\ Disturbed[t] \in Proc
             /\ Disturbed[t].pc = proc[t].pc /\ Disturbed[t].key = proc[t].key
             /\ Disturbed[t].ip = proc[t].ip /\ Disturbed[t].doc = proc[t].doc
             /\ Disturbed[t].name = proc[t].name
             /\ t \in UnderWay => ~Disturbed[t].alone
  <2> DEFINE q == proc[t]
  <2>1. q \in Proc
    BY <1>1
  <2>2. CASE t \notin UnderWay
    BY <1>1, <2>2
  <2>3. CASE t \in UnderWay
    <3>1. Disturbed[t] = [q EXCEPT !.alone = FALSE]
      BY <1>1, <2>3
    <3> HIDE DEF q
    <3>2. /\ [q EXCEPT !.alone = FALSE] \in Proc /\ ~[q EXCEPT !.alone = FALSE].alone
          /\ [q EXCEPT !.alone = FALSE].pc = q.pc /\ [q EXCEPT !.alone = FALSE].key = q.key
          /\ [q EXCEPT !.alone = FALSE].ip = q.ip /\ [q EXCEPT !.alone = FALSE].doc = q.doc
          /\ [q EXCEPT !.alone = FALSE].name = q.name
      BY <2>1 DEF Proc
    <3> QED
      BY <3>1, <3>2 DEF q
  <2> QED
    BY <2>2, <2>3
<1>3. ASSUME NEW t \in Thread
      PROVE  Procs(Disturbed[t])
  BY <1>1, <1>2 DEF Procs, Sound
<1>4. Disturbed \in [Thread -> Proc]
  <2>1. Disturbed = [t \in Thread |-> IF t \in UnderWay THEN [proc[t] EXCEPT !.alone = FALSE]
                                      ELSE proc[t]]
    BY DEF Disturbed
  <2>2. \A t \in Thread : (IF t \in UnderWay THEN [proc[t] EXCEPT !.alone = FALSE]
                           ELSE proc[t]) \in Proc
    BY <1>1, <1>2
  <2> QED
    BY <2>1, <2>2
<1> QED
  BY <1>2, <1>3, <1>4

\* What a step of a request leaves alone: the other requests, and what this one is about.
Others(t) == \A u \in Thread : u # t => proc'[u] = proc[u]

Same(t) ==
    /\ proc'[t].key = proc[t].key /\ proc'[t].ip = proc[t].ip
    /\ proc'[t].name = proc[t].name /\ proc'[t].alone = proc[t].alone

\* A request that goes to its next step.
LEMMA GotoIs ==
    ASSUME TypeInv, NEW t \in Thread, NEW pc \in PC \ {"idle"}, Goto(t, pc),
           proc[t].pc \notin {"idle", "list", "choose"},
           proc[t].pc \in {"set", "append", "save"} \/ pc \notin {"set", "append", "save"}
    PROVE  /\ proc' \in [Thread -> Proc] /\ \A u \in Thread : Procs(proc'[u])
           /\ Others(t) /\ Same(t) /\ proc'[t].pc = pc /\ proc'[t].doc = proc[t].doc
<1> DEFINE q == proc[t]
           p == [q EXCEPT !.pc = pc]
<1>1. proc \in [Thread -> Proc] /\ Procs(q)
  BY DEF TypeInv, TypeOK, Procs
<1>2. proc' = [proc EXCEPT ![t] = p]
  BY DEF Goto
<1>3. Procs(p)
  <2>1. q.pc \notin {"idle", "list", "choose"}
    OBVIOUS
  <2>2. q.pc \in {"set", "append", "save"} \/ pc \notin {"set", "append", "save"}
    OBVIOUS
  <2> HIDE DEF q
  <2> QED
    BY <1>1, <2>1, <2>2, GoesOn
<1>4. /\ p.pc = pc /\ p.key = q.key /\ p.ip = q.ip /\ p.name = q.name
      /\ p.alone = q.alone /\ p.doc = q.doc
  <2> HIDE DEF q
  <2> QED
    BY <1>1 DEF Procs, Proc
<1>5. proc'[t] = p /\ Others(t)
  BY <1>1, <1>2 DEF Others
<1> HIDE DEF p
<1> QED
  BY <1>2, <1>3, <1>4, <1>5, OneGoesOn DEF Same

\* A request that ends.
LEMMA DoneIs ==
    ASSUME TypeInv, NEW t \in Thread, Done(t)
    PROVE  /\ proc' \in [Thread -> Proc] /\ \A u \in Thread : Procs(proc'[u])
           /\ Others(t) /\ proc'[t] = Idle
<1>1. proc' \in [Thread -> Proc] /\ \A u \in Thread : Procs(proc'[u])
  BY IdleSound, OneGoesOn DEF Done
<1> QED
  BY <1>1 DEF Done, TypeInv, TypeOK, Others

\* A request that begins: the others have been met.
LEMMA BeginIs ==
    ASSUME TypeInv, NEW t \in Thread, NEW p, Procs(p), Begin(t, p)
    PROVE  /\ proc' \in [Thread -> Proc] /\ \A u \in Thread : Procs(proc'[u])
           /\ proc[t].pc = "idle"
           /\ \A u \in Thread : u # t => proc'[u] = Disturbed[u]
           /\ proc'[t].pc = p.pc /\ proc'[t].key = p.key /\ proc'[t].ip = p.ip
           /\ proc'[t].name = p.name /\ proc'[t].doc = p.doc
           /\ proc'[t].alone => UnderWay = {}
<1> DEFINE a == UnderWay = {}
           r == [p EXCEPT !.alone = a]
<1>1. a \in BOOLEAN /\ proc' = [Disturbed EXCEPT ![t] = r] /\ proc[t].pc = "idle"
  BY DEF Begin, UnderWay
<1> HIDE DEF a
<1>2. /\ Procs(r) /\ r.pc = p.pc /\ r.key = p.key /\ r.ip = p.ip /\ r.name = p.name
      /\ r.doc = p.doc /\ (r.alone <=> a)
  BY <1>1 DEF Procs, Sound, Proc
<1>3. proc'[t] = r /\ \A u \in Thread : u # t => proc'[u] = Disturbed[u]
  BY <1>1, MetSound
<1>4. r \in Proc
  BY <1>2 DEF Procs
<1> HIDE DEF r
<1>5. proc' \in [Thread -> Proc]
  BY <1>1, <1>4, MetSound
<1>6. \A u \in Thread : Procs(proc'[u])
  BY <1>2, <1>3, MetSound
<1> QED
  BY <1>1, <1>2, <1>3, <1>5, <1>6 DEF a

\* Types hold at first.
LEMMA TypesAtFirst == Init => TypeInv
<1> SUFFICES ASSUME Init
             PROVE  TypeInv
  OBVIOUS
<1>1. Procs(Idle) /\ EmptyFile = Idle.doc
  BY IdleSound DEF Idle
<1>2. proc \in [Thread -> Proc] /\ \A t \in Thread : Procs(proc[t])
  BY <1>1 DEF Init, Procs
<1>3. WellFormed(file)
  BY <1>1 DEF Init, Procs
<1>4. /\ route \in [Addr -> Key \union {0}] /\ artifacts \in [Name -> Key \union {0}]
      /\ lastKey \in 0..MaxKeys /\ madeFor \in [Key -> Label] /\ status \in [Key -> Status]
      /\ requests \in Nat /\ faults \in Nat
  BY WireGuardConstants DEF Init, Label, Status
<1> QED
  BY <1>2, <1>3, <1>4 DEF TypeInv, TypeOK, Procs

\* What a creation begins with.
LEMMA BeginCreateIs ==
    ASSUME TypeInv, NEW t \in Thread, NEW n \in Name, BeginCreate(t, n)
    PROVE  \E p : /\ Procs(p) /\ Begin(t, p) /\ p.doc = EmptyFile
                  /\ p.key = 0 /\ p.pc = "choose"
<1> DEFINE p == [Idle EXCEPT !.pc = "choose", !.op = "create", !.name = n]
<1>1. Begin(t, p)
  BY DEF BeginCreate
<1>2. p.pc = "choose" /\ p.key = 0 /\ p.name = n /\ p.doc = EmptyFile
  BY DEF Idle
<1>3. p \in Proc
  BY IdleSound DEF Procs, Proc, PC, Label
<1>4. Procs(p)
  BY <1>2, <1>3, IdleSound DEF Procs, Sound, Idle
<1> QED
  BY <1>1, <1>2, <1>4

\* A creation that goes on has a new key and an address that is free in the file.
LEMMA ChooseIs ==
    ASSUME TypeInv, NEW t \in Thread, ChooseAddress(t), ~Done(t)
    PROVE  /\ proc' \in [Thread -> Proc] /\ \A u \in Thread : Procs(proc'[u])
           /\ Others(t) /\ proc'[t].pc = "set" /\ proc'[t].key = lastKey + 1
           /\ proc'[t].ip \in Free(file) /\ proc'[t].doc = proc[t].doc
           /\ proc'[t].alone = proc[t].alone
           /\ lastKey + 1 \in Key /\ lastKey' = lastKey + 1 /\ lastKey' \in 0..MaxKeys
           /\ madeFor' = [madeFor EXCEPT ![lastKey + 1] = proc[t].name]
           /\ proc[t].name \in Label
<1> DEFINE q == proc[t]
           k == lastKey + 1
           a == FirstFree(file)
           p == [q EXCEPT !.pc = "set", !.key = k, !.ip = a]
<1>1. proc \in [Thread -> Proc] /\ Procs(q) /\ q.pc = "choose"
  BY DEF TypeInv, TypeOK, Procs, ChooseAddress
<1>2. /\ Free(file) # {} /\ lastKey < MaxKeys /\ proc' = [proc EXCEPT ![t] = p]
      /\ lastKey' = k /\ madeFor' = [madeFor EXCEPT ![k] = q.name]
  BY DEF ChooseAddress
<1>3. a \in Free(file) /\ a \in Addr
  BY <1>2, FirstFreeIsFree
<1>4. k \in Key /\ lastKey' \in 0..MaxKeys
  BY <1>2, WireGuardConstants DEF TypeInv, TypeOK, Key
<1> HIDE DEF k, a, q
<1>5. /\ p.pc = "set" /\ p.key = k /\ p.ip = a /\ p.doc = q.doc /\ p.alone = q.alone
      /\ p.name = q.name
  BY <1>1 DEF Procs, Proc
<1>6. p \in Proc /\ q.name \in Name
  BY <1>1, <1>3, <1>4 DEF Procs, Proc, PC, Sound
<1>7. Procs(p)
  BY <1>1, <1>3, <1>4, <1>5, <1>6 DEF Procs, Sound
<1>8. proc'[t] = p /\ Others(t)
  BY <1>1, <1>2 DEF Others
<1>9. proc' \in [Thread -> Proc] /\ \A u \in Thread : Procs(proc'[u])
  <2> HIDE DEF p
  <2> QED
    BY <1>2, <1>7, OneGoesOn
<1> QED
  BY <1>2, <1>3, <1>4, <1>5, <1>6, <1>8, <1>9 DEF q, k, Label

\* What a removal begins with.
LEMMA BeginRevokeIs ==
    ASSUME TypeInv, NEW t \in Thread, NEW n \in Name, BeginRevoke(t, n)
    PROVE  \E p : /\ Procs(p) /\ Begin(t, p) /\ p.doc = EmptyFile
                  /\ p.key = artifacts[n] /\ p.pc \in {"list", "unset"}
<1> DEFINE k == artifacts[n]
           c == IF k = 0 THEN "list" ELSE "unset"
           p == [Idle EXCEPT !.pc = c, !.op = "revoke", !.name = n, !.key = k]
<1>1. Begin(t, p)
  BY DEF BeginRevoke
<1>2. k \in Key \union {0}
  BY DEF TypeInv, TypeOK
<1> HIDE DEF k
<1>3. c \in {"list", "unset"} /\ (c = "unset" => k \in Key)
  BY <1>2
<1> HIDE DEF c
<1>4. p.pc = c /\ p.key = k /\ p.name = n /\ p.doc = EmptyFile
  BY DEF Idle
<1>5. p \in Proc
  BY <1>2, <1>3, IdleSound DEF Procs, Proc, PC, Label
<1>6. Procs(p)
  BY <1>3, <1>4, <1>5, IdleSound DEF Procs, Sound, Idle
<1> QED
  BY <1>1, <1>3, <1>4, <1>6 DEF k

\* The key for a name is looked up in the file.
LEMMA ListIs ==
    ASSUME TypeInv, NEW t \in Thread, ListPeers(t), ~Done(t)
    PROVE  /\ proc' \in [Thread -> Proc] /\ \A u \in Thread : Procs(proc'[u])
           /\ Others(t) /\ proc'[t].pc = "unset" /\ proc'[t].key \in Keys(file)
           /\ proc'[t].doc = proc[t].doc /\ proc'[t].alone = proc[t].alone
<1> DEFINE q == proc[t]
           k == KeyOf(file, q.name)
           p == [q EXCEPT !.pc = "unset", !.key = k]
<1>1. proc \in [Thread -> Proc] /\ Procs(q) /\ q.pc = "list"
  BY DEF TypeInv, TypeOK, Procs, ListPeers
<1>2. Named(file, q.name) # {} /\ proc' = [proc EXCEPT ![t] = p]
  BY DEF ListPeers
<1>3. k \in Keys(file) /\ k \in Key
  BY <1>2, KeyOfIsThere, FileParts DEF TypeInv, TypeOK
<1> HIDE DEF k, q
<1>4. Procs(p)
  BY <1>1, <1>3, GoesOn DEF PC
<1>5. p.pc = "unset" /\ p.key = k /\ p.doc = q.doc /\ p.alone = q.alone
  BY <1>1 DEF Procs, Proc
<1>6. proc'[t] = p /\ Others(t)
  BY <1>1, <1>2 DEF Others
<1>7. proc' \in [Thread -> Proc] /\ \A u \in Thread : Procs(proc'[u])
  <2> HIDE DEF p
  <2> QED
    BY <1>2, <1>4, OneGoesOn
<1> QED
  BY <1>3, <1>5, <1>6, <1>7 DEF q

\* The file is read before it is written back without a peer.
LEMMA ReadIs ==
    ASSUME TypeInv, NEW t \in Thread, ReadFile(t)
    PROVE  /\ proc' \in [Thread -> Proc] /\ \A u \in Thread : Procs(proc'[u])
           /\ Others(t) /\ Same(t) /\ proc'[t].pc = "truncate" /\ proc'[t].doc = file
<1> DEFINE q == proc[t]
           p == [q EXCEPT !.pc = "truncate", !.doc = file]
<1>1. proc \in [Thread -> Proc] /\ Procs(q) /\ q.pc = "read" /\ WellFormed(file)
  BY DEF TypeInv, TypeOK, Procs, ReadFile
<1>2. proc' = [proc EXCEPT ![t] = p]
  BY DEF ReadFile
<1> HIDE DEF q
<1>3. Procs(p)
  BY <1>1, GoesOn DEF PC
<1>4. /\ p.pc = "truncate" /\ p.doc = file /\ p.key = q.key /\ p.ip = q.ip
      /\ p.name = q.name /\ p.alone = q.alone
  BY <1>1 DEF Procs, Proc
<1>5. proc'[t] = p /\ Others(t)
  BY <1>1, <1>2 DEF Others
<1>6. proc' \in [Thread -> Proc] /\ \A u \in Thread : Procs(proc'[u])
  <2> HIDE DEF p
  <2> QED
    BY <1>2, <1>3, OneGoesOn
<1> QED
  BY <1>4, <1>5, <1>6 DEF Same, q

\* What each request under way is about.
LEMMA About ==
    ASSUME TypeInv, NEW t \in Thread
    PROVE  /\ Procs(proc[t])
           /\ proc[t].pc # "idle" => proc[t].name \in Name /\ proc[t].name \in Label
           /\ proc[t].pc \notin {"idle", "list", "choose"} => proc[t].key \in Key
           /\ proc[t].pc \in {"set", "append", "save"} => proc[t].ip \in Addr
BY DEF TypeInv, TypeOK, Procs, Sound, Label

\* A step of a request goes to the next step of the request, or ends it.
LEMMA StepIs ==
    ASSUME TypeInv, NEW t \in Thread
    PROVE  /\ SetPeer(t) =>
                \/ /\ Others(t) /\ Same(t) /\ proc'[t].pc = "append" /\ proc'[t].doc = proc[t].doc
                   /\ route' = Routed(proc[t].key, proc[t].ip)
                \/ Others(t) /\ proc'[t] = Idle /\ route' = route
           /\ AppendPeer(t) => Others(t) /\ Same(t) /\ proc'[t].pc = "save"
                               /\ proc'[t].doc = proc[t].doc
           /\ UnsetPeer(t) =>
                \/ /\ Others(t) /\ Same(t) /\ proc'[t].pc = "read" /\ proc'[t].doc = proc[t].doc
                   /\ route' = Unrouted(proc[t].key)
                   /\ status' = [status EXCEPT ![proc[t].key] = "leaving"]
                \/ Others(t) /\ proc'[t] = Idle /\ route' = route /\ status' = status
           /\ Truncate(t) => Others(t) /\ Same(t) /\ proc'[t].pc = "write"
                             /\ proc'[t].doc = proc[t].doc
           /\ Rewrite(t) => Others(t) /\ Same(t) /\ proc'[t].pc = "forget"
                            /\ proc'[t].doc = proc[t].doc
           /\ SaveArtifact(t) \/ ForgetArtifact(t) \/ RewriteFails(t) =>
                Others(t) /\ proc'[t] = Idle
           /\ CreateStep(t) \/ RevokeStep(t) =>
                proc' \in [Thread -> Proc] /\ \A u \in Thread : Procs(proc'[u])
<1>1. PC \ {"idle"} = {"choose", "set", "append", "save",
                       "list", "unset", "read", "truncate", "write", "forget"}
  BY DEF PC
<1>2. ASSUME SetPeer(t)
      PROVE  \/ /\ proc' \in [Thread -> Proc] /\ \A u \in Thread : Procs(proc'[u])
                /\ Others(t) /\ Same(t) /\ proc'[t].pc = "append" /\ proc'[t].doc = proc[t].doc
                /\ route' = Routed(proc[t].key, proc[t].ip)
             \/ /\ proc' \in [Thread -> Proc] /\ \A u \in Thread : Procs(proc'[u])
                /\ Others(t) /\ proc'[t] = Idle /\ route' = route
  <2>1. CASE Goto(t, "append") /\ route' = Routed(proc[t].key, proc[t].ip)
    BY <1>1, <1>2, <2>1, GotoIs DEF SetPeer
  <2>2. CASE Done(t) /\ route' = route
    BY <2>2, DoneIs
  <2> QED
    BY <1>2, <2>1, <2>2 DEF SetPeer
<1>3. ASSUME AppendPeer(t)
      PROVE  /\ proc' \in [Thread -> Proc] /\ \A u \in Thread : Procs(proc'[u])
             /\ Others(t) /\ Same(t) /\ proc'[t].pc = "save" /\ proc'[t].doc = proc[t].doc
  BY <1>1, <1>3, GotoIs DEF AppendPeer
<1>4. ASSUME UnsetPeer(t)
      PROVE  \/ /\ proc' \in [Thread -> Proc] /\ \A u \in Thread : Procs(proc'[u])
                /\ Others(t) /\ Same(t) /\ proc'[t].pc = "read" /\ proc'[t].doc = proc[t].doc
                /\ route' = Unrouted(proc[t].key)
                /\ status' = [status EXCEPT ![proc[t].key] = "leaving"]
             \/ /\ proc' \in [Thread -> Proc] /\ \A u \in Thread : Procs(proc'[u])
                /\ Others(t) /\ proc'[t] = Idle /\ route' = route /\ status' = status
  <2>1. CASE /\ Goto(t, "read") /\ route' = Unrouted(proc[t].key)
             /\ status' = [status EXCEPT ![proc[t].key] = "leaving"]
    BY <1>1, <1>4, <2>1, GotoIs DEF UnsetPeer
  <2>2. CASE Done(t) /\ route' = route /\ status' = status
    BY <2>2, DoneIs
  <2> QED
    BY <1>4, <2>1, <2>2 DEF UnsetPeer
<1>5. ASSUME Rewrite(t)
      PROVE  /\ proc' \in [Thread -> Proc] /\ \A u \in Thread : Procs(proc'[u])
             /\ Others(t) /\ Same(t) /\ proc'[t].pc = "forget" /\ proc'[t].doc = proc[t].doc
  BY <1>1, <1>5, GotoIs DEF Rewrite
<1>6. ASSUME SaveArtifact(t) \/ ForgetArtifact(t) \/ RewriteFails(t)
      PROVE  /\ proc' \in [Thread -> Proc] /\ \A u \in Thread : Procs(proc'[u])
             /\ Others(t) /\ proc'[t] = Idle
  BY <1>6, DoneIs DEF SaveArtifact, ForgetArtifact, RewriteFails
<1>7. ASSUME ListPeers(t) \/ ReadFile(t) \/ ChooseAddress(t)
      PROVE  proc' \in [Thread -> Proc] /\ \A u \in Thread : Procs(proc'[u])
  BY <1>7, ListIs, DoneIs, ReadIs, ChooseIs
<1>8. ASSUME Truncate(t)
      PROVE  /\ proc' \in [Thread -> Proc] /\ \A u \in Thread : Procs(proc'[u])
             /\ Others(t) /\ Same(t) /\ proc'[t].pc = "write" /\ proc'[t].doc = proc[t].doc
  BY <1>1, <1>8, GotoIs DEF Truncate
<1> QED
  BY <1>2, <1>3, <1>4, <1>5, <1>6, <1>7, <1>8 DEF CreateStep, RevokeStep

\* A creation that finds no free address has changed nothing.
LEMMA ChosenOrNot ==
    ASSUME TypeInv, NEW t \in Thread, ChooseAddress(t), Done(t)
    PROVE  lastKey' = lastKey /\ madeFor' = madeFor
<1>1. CASE Free(file) = {}
  BY <1>1 DEF ChooseAddress
<1>2. CASE Free(file) # {}
  <2>1. proc' = [proc EXCEPT ![t].pc = "set", ![t].key = lastKey + 1, ![t].ip = FirstFree(file)]
    BY <1>2 DEF ChooseAddress
  <2>2. proc'[t].pc = "set"
    BY <2>1 DEF TypeInv, TypeOK, Proc
  <2>3. proc'[t] = Idle /\ Idle.pc = "idle"
    BY DoneIs DEF Idle
  <2> QED
    BY <2>2, <2>3
<1> QED
  BY <1>1, <1>2

\* What is remembered when somebody goes by the file.
LEMMA SeenIs ==
    ASSUME status \in [Key -> Status]
    PROVE  /\ Seen \in [Key -> Status]
           /\ Quiet => Seen = status
           /\ \A k \in Key :
                 /\ Seen[k] # status[k] => status[k] = "given" /\ Seen[k] = "exposed"
                 /\ Seen[k] = "given" => Quiet
<1>1. Writers # {} <=> ~Quiet
  BY DEF Writers, Quiet
<1> QED
  BY <1>1 DEF Seen, Status

\* Every step keeps the types.
LEMMA TypesKept == TypeInv /\ [Next]_vars => TypeInv'
<1> SUFFICES ASSUME TypeInv, [Next]_vars
             PROVE  TypeInv'
  OBVIOUS
<1> USE WireGuardConstants
<1>1. /\ WellFormed(file) /\ route \in [Addr -> Key \union {0}]
      /\ artifacts \in [Name -> Key \union {0}] /\ lastKey \in 0..MaxKeys
      /\ madeFor \in [Key -> Label] /\ status \in [Key -> Status]
      /\ requests \in Nat /\ faults \in Nat
  BY DEF TypeInv, TypeOK
<1>2. proc' \in [Thread -> Proc] /\ \A u \in Thread : Procs(proc'[u])
  <2>1. CASE UNCHANGED vars
    BY <2>1 DEF vars, TypeInv, TypeOK, Procs
  <2>2. ASSUME NEW t \in Thread, NEW n \in Name, BeginCreate(t, n) \/ BeginRevoke(t, n)
        PROVE  proc' \in [Thread -> Proc] /\ \A u \in Thread : Procs(proc'[u])
    <3>1. PICK p : Procs(p) /\ Begin(t, p)
      BY <2>2, BeginCreateIs, BeginRevokeIs
    <3> QED
      BY <3>1, BeginIs
  <2>3. CASE \E t \in Thread : CreateStep(t) \/ RevokeStep(t)
    BY <2>3, StepIs
  <2>4. CASE RestartInterface
    BY <2>4, MetSound DEF RestartInterface
  <2>5. CASE WebDies
    BY <2>5, IdleSound DEF WebDies, Procs
  <2> QED
    BY <2>1, <2>2, <2>3, <2>4, <2>5 DEF Next
<1>3. ASSUME /\ WellFormed(file') /\ route' \in [Addr -> Key \union {0}]
             /\ artifacts' \in [Name -> Key \union {0}] /\ lastKey' \in 0..MaxKeys
             /\ madeFor' \in [Key -> Label] /\ status' \in [Key -> Status]
             /\ requests' \in Nat /\ faults' \in Nat
      PROVE  TypeInv'
  BY <1>2, <1>3 DEF TypeInv, TypeOK, Procs, WellFormed
<1>4. CASE UNCHANGED vars
  <2>1. /\ file' = file /\ route' = route /\ artifacts' = artifacts /\ lastKey' = lastKey
        /\ madeFor' = madeFor /\ status' = status /\ requests' = requests /\ faults' = faults
    BY <1>4 DEF vars
  <2>2. WellFormed(file')
    BY <1>1, <2>1
  <2> QED
    BY <1>1, <1>3, <2>1, <2>2
<1>5. ASSUME NEW t \in Thread, ChooseAddress(t)
      PROVE  TypeInv'
  <2>1. lastKey' \in 0..MaxKeys /\ madeFor' \in [Key -> Label]
    <3>1. CASE Done(t)
      <4>1. lastKey' = lastKey /\ madeFor' = madeFor
        BY <1>5, <3>1, DoneIs, ChosenOrNot
      <4> QED
        BY <1>1, <4>1
    <3>2. CASE ~Done(t)
      BY <1>1, <1>5, <3>2, ChooseIs
    <3> QED
      BY <3>1, <3>2
  <2>2. UNCHANGED <<file, route, artifacts, bounds>> /\ status' = Seen
    BY <1>5 DEF ChooseAddress
  <2>3. WellFormed(file') /\ status' \in [Key -> Status]
    BY <1>1, <2>2, SeenIs
  <2> QED
    BY <1>1, <1>3, <2>1, <2>2, <2>3 DEF bounds
<1>6. ASSUME NEW t \in Thread, NEW n \in Name, BeginCreate(t, n) \/ BeginRevoke(t, n)
      PROVE  TypeInv'
  <2>1. /\ UNCHANGED <<file, route, artifacts, lastKey, history, faults>>
        /\ requests' = requests + 1
    BY <1>6 DEF BeginCreate, BeginRevoke, Begin
  <2>2. WellFormed(file')
    BY <1>1, <2>1
  <2> QED
    BY <1>1, <1>3, <2>1, <2>2 DEF history
<1>7. ASSUME NEW t \in Thread, SetPeer(t)
      PROVE  TypeInv'
  <2>1. Routed(proc[t].key, proc[t].ip) \in [Addr -> Key \union {0}]
    BY <1>1, <1>7, About DEF SetPeer, Routed
  <2>3. WellFormed(file')
    BY <1>1, <1>7 DEF SetPeer
  <2> QED
    BY <1>1, <1>3, <1>7, <2>1, <2>3 DEF SetPeer, Fault, history
<1>8. ASSUME NEW t \in Thread, AppendPeer(t)
      PROVE  TypeInv'
  <2>1. WellFormed(file')
    BY <1>1, <1>8, About, AppendedIs DEF AppendPeer
  <2> QED
    BY <1>1, <1>3, <1>8, <2>1 DEF AppendPeer, history, bounds
<1>9. ASSUME NEW t \in Thread, SaveArtifact(t)
      PROVE  TypeInv'
  <2>1. status' \in [Key -> Status] /\ artifacts' \in [Name -> Key \union {0}]
    BY <1>1, <1>9, About DEF SaveArtifact, Told, Status
  <2>3. WellFormed(file')
    BY <1>1, <1>9 DEF SaveArtifact
  <2> QED
    BY <1>1, <1>3, <1>9, <2>1, <2>3 DEF SaveArtifact, bounds
<1>10. ASSUME NEW t \in Thread, ListPeers(t) \/ ReadFile(t)
       PROVE  TypeInv'
  <2>1. UNCHANGED <<file, route, artifacts, lastKey, madeFor, bounds>> /\ status' \in {status, Seen}
    BY <1>10 DEF ListPeers, ReadFile, history
  <2>2. WellFormed(file') /\ status' \in [Key -> Status]
    BY <1>1, <2>1, SeenIs
  <2> QED
    BY <1>1, <1>3, <2>1, <2>2 DEF bounds
<1>11. ASSUME NEW t \in Thread, UnsetPeer(t)
       PROVE  TypeInv'
  <2>1. Unrouted(proc[t].key) \in [Addr -> Key \union {0}]
    BY <1>1 DEF Unrouted
  <2>2. [status EXCEPT ![proc[t].key] = "leaving"] \in [Key -> Status]
    BY <1>1 DEF Status
  <2>3. WellFormed(file')
    BY <1>1, <1>11 DEF UnsetPeer
  <2> QED
    BY <1>1, <1>3, <1>11, <2>1, <2>2, <2>3 DEF UnsetPeer, Fault
<1>12. ASSUME NEW t \in Thread, Rewrite(t)
       PROVE  TypeInv'
  <2>1. WellFormed(file')
    BY <1>12, WithoutIs DEF Rewrite, TypeInv, TypeOK
  <2> QED
    BY <1>1, <1>3, <1>12, <2>1 DEF Rewrite, history, bounds
<1>16. ASSUME NEW t \in Thread, Truncate(t)
       PROVE  TypeInv'
  <2>1. WellFormed(file')
    BY <1>16, EmptyIs DEF Truncate
  <2> QED
    BY <1>1, <1>3, <1>16, <2>1 DEF Truncate, history, bounds
<1>17. ASSUME NEW t \in Thread, RewriteFails(t)
       PROVE  TypeInv'
  <2>1. /\ UNCHANGED <<file, route, artifacts, lastKey, madeFor, requests>>
        /\ faults' = faults + 1 /\ status' = Seen
    BY <1>17 DEF RewriteFails, Fault
  <2>2. WellFormed(file') /\ status' \in [Key -> Status]
    BY <1>1, <2>1, SeenIs
  <2> QED
    BY <1>1, <1>3, <2>1, <2>2
<1>13. ASSUME NEW t \in Thread, ForgetArtifact(t)
       PROVE  TypeInv'
  <2>1. status' \in [Key -> Status] /\ artifacts' \in [Name -> Key \union {0}]
    BY <1>1, <1>13, About DEF ForgetArtifact, Told, Status
  <2>3. WellFormed(file')
    BY <1>1, <1>13 DEF ForgetArtifact
  <2> QED
    BY <1>1, <1>3, <1>13, <2>1, <2>3 DEF ForgetArtifact, bounds
<1>14. CASE RestartInterface
  <2>1. /\ UNCHANGED <<file, artifacts, lastKey, madeFor, bounds>> /\ route' = Loaded(file)
        /\ status' = Seen
    BY <1>14 DEF RestartInterface
  <2>2. /\ WellFormed(file') /\ route' \in [Addr -> Key \union {0}]
        /\ status' \in [Key -> Status]
    BY <1>1, <2>1, LoadedServes, SeenIs
  <2> QED
    BY <1>1, <1>3, <2>1, <2>2 DEF bounds
<1>15. CASE WebDies
  <2>1. /\ UNCHANGED <<file, route, artifacts, lastKey, madeFor, requests>>
        /\ faults' = faults + 1 /\ status' = Seen
    BY <1>15 DEF WebDies, Fault
  <2>2. WellFormed(file') /\ status' \in [Key -> Status]
    BY <1>1, <2>1, SeenIs
  <2> QED
    BY <1>1, <1>3, <2>1, <2>2
<1> QED
  BY <1>4, <1>5, <1>6, <1>7, <1>8, <1>9, <1>10, <1>11, <1>12, <1>13, <1>14, <1>15, <1>16, <1>17
     DEF Next, CreateStep, RevokeStep

\* Files stay sequences of blocks with the comments between them, every request
\* in a state its handler can be in (create_wireguard_peer, access_revoke).
THEOREM TypeCorrect == Spec => []TypeOK
<1>1. TypeInv => TypeOK
  BY DEF TypeInv
<1> QED
  BY <1>1, TypesAtFirst, TypesKept, PTL DEF Spec
-----------------------------------------------------------------------------
(* What peers promise.                                                       *)

\* An empty file has no keys.
LEMMA NoBlocks ==
    Keys(EmptyFile) = {} /\ Once(EmptyFile) /\ Keys(NoText) = {} /\ Once(NoText)
<1>1. EmptyFile.peers = <<>> /\ NoText.peers = <<>>
  BY DEF EmptyFile, NoText
<1>2. DOMAIN EmptyFile.peers = {} /\ DOMAIN NoText.peers = {}
  BY <1>1
<1> QED
  BY <1>2 DEF Keys, Once

\* No peer counts as given that did not, and none does where a removal that had emptied
\* the file has given up.
Remembered ==
    \A k \in Key :
        /\ status'[k] = "given" => status[k] = "given" /\ (Quiet' => Quiet)
        /\ status'[k] = "revoked" => status[k] = "revoked"
        /\ status[k] = "none" => status'[k] = "none"

\* It is so when somebody goes by the file, and when every removal goes on writing.
LEMMA RememberedIs ==
    ASSUME TypeInv,
           \/ status' = Seen
           \/ status' = status /\ \A t \in Thread : proc[t].pc = "write" => proc'[t].pc = "write"
    PROVE  Remembered
<1>1. status \in [Key -> Status]
  BY DEF TypeInv, TypeOK
<1>2. CASE status' = Seen
  BY <1>1, <1>2, SeenIs DEF Remembered
<1>3. CASE status' = status /\ \A t \in Thread : proc[t].pc = "write" => proc'[t].pc = "write"
  BY <1>3 DEF Remembered, Quiet
<1> QED
  BY <1>2, <1>3

\* A request that ends, or that is only met by another one.
Later(t) ==
    \/ proc'[t] = Idle
    \/ /\ proc'[t].pc = proc[t].pc /\ proc'[t].key = proc[t].key
       /\ proc'[t].ip = proc[t].ip /\ proc'[t].doc = proc[t].doc
       /\ proc'[t].alone => proc[t].alone

\* The invariant holds at first.
LEMMA PeersAtFirst == Init => PeerInv
<1> SUFFICES ASSUME Init
             PROVE  PeerInv
  OBVIOUS
<1>1. /\ \A t \in Thread : proc[t] = Idle
      /\ Idle.pc = "idle" /\ Idle.key = 0 /\ Idle.doc = EmptyFile
      /\ file = EmptyFile /\ lastKey = 0
      /\ \A n \in Name : artifacts[n] = 0
      /\ \A k \in Key : status[k] = "none"
  BY DEF Init, Idle
<1>2. Numbered /\ Unwritten /\ OneBlock
  BY <1>1, NoBlocks DEF Numbered, Unwritten, OneBlock, Making
<1>3. Apart /\ Ungiven
  BY <1>1 DEF Apart, Ungiven, UnderWay
<1>4. Creating /\ Removing
  BY <1>1 DEF Creating, Removing, Making
<1>5. Settled /\ Gone
  BY <1>1 DEF Settled, Gone, Given
<1> QED
  BY <1>2, <1>3, <1>4, <1>5 DEF PeerInv

\* Requests that end or are met, with nothing else changed, keep the invariant.
LEMMA Frame ==
    ASSUME TypeInv, PeerInv, \A t \in Thread : Later(t), Remembered,
           UNCHANGED <<file, route, lastKey, artifacts>>
    PROVE  PeerInv'
<1>1. /\ Idle.pc = "idle" /\ Idle.key = 0 /\ Idle.doc = EmptyFile /\ lastKey \in Nat
  BY WireGuardConstants DEF Idle, TypeInv, TypeOK
<1>2. /\ file' = file /\ route' = route /\ lastKey' = lastKey
      /\ artifacts' = artifacts
  OBVIOUS
<1>3. Numbered'
  BY <1>1, <1>2, NoBlocks DEF PeerInv, Numbered, Later, Remembered
<1>4. Unwritten'
  BY <1>1, <1>2, NoBlocks DEF PeerInv, Unwritten, Making, Later
<1>5. OneBlock'
  BY <1>1, <1>2, NoBlocks DEF PeerInv, OneBlock, Later
<1>6. Apart'
  BY <1>1, <1>2 DEF PeerInv, Apart, UnderWay, Later
<1>7. Ungiven'
  <2> SUFFICES ASSUME NEW u \in Thread, proc'[u].pc \notin {"idle", "choose", "list", "unset"}
               PROVE  status'[proc'[u].key] # "given"
    BY DEF Ungiven, Given
  <2>1. proc[u].pc = proc'[u].pc /\ proc[u].key = proc'[u].key /\ proc[u].key \in Key
    BY <1>1, About DEF Later
  <2> QED
    BY <2>1 DEF PeerInv, Ungiven, Given, Remembered
<1>8. Creating'
  BY <1>1, <1>2 DEF PeerInv, Creating, Making, Later
<1>9. Removing'
  BY <1>1, <1>2 DEF PeerInv, Removing, Later
<1>10. Settled'
  <2> SUFFICES ASSUME NEW k \in Key, status'[k] = "given"
               PROVE  \E a \in Addr : AtHome(k, a)'
    BY DEF Settled, Given
  <2>1. PICK a \in Addr : AtHome(k, a)
    BY DEF PeerInv, Settled, Given, Remembered
  <2>2. Quiet' => Quiet
    BY DEF Remembered
  <2>3. AtHome(k, a)'
    BY <1>1, <1>2, <2>1, <2>2 DEF AtHome, Making, Holding, Later
  <2> QED
    BY <2>3
<1>11. Gone'
  BY <1>1, <1>2 DEF PeerInv, Gone, IsGone, Making, Holding, Later, Remembered
<1> QED
  BY <1>3, <1>4, <1>5, <1>6, <1>7, <1>8, <1>9, <1>10, <1>11 DEF PeerInv

\* Who begins has no file in hand, and nobody else is alone any more.
LEMMA NewcomerIs ==
    ASSUME TypeInv, NEW t \in Thread, NEW p, Procs(p), Begin(t, p)
    PROVE  /\ \A u \in Thread : u # t =>
                /\ proc'[u].pc = proc[u].pc /\ proc'[u].key = proc[u].key
                /\ proc'[u].ip = proc[u].ip /\ proc'[u].doc = proc[u].doc
                /\ proc'[u].alone => proc'[u].pc = "idle"
           /\ proc'[t].alone => \A u \in Thread : u # t => proc'[u].pc = "idle"
<1>1. /\ \A u \in Thread : u # t => proc'[u] = Disturbed[u]
      /\ proc'[t].alone => UnderWay = {}
  BY BeginIs
<1>2. \A u \in Thread : u # t =>
        /\ proc'[u].pc = proc[u].pc /\ proc'[u].key = proc[u].key
        /\ proc'[u].ip = proc[u].ip /\ proc'[u].doc = proc[u].doc
        /\ u \in UnderWay => ~proc'[u].alone
  BY <1>1, MetSound
<1> QED
  BY <1>1, <1>2 DEF UnderWay

\* A request that begins without a key that is new, and without a file in hand.
LEMMA BeginKeeps ==
    ASSUME TypeInv, PeerInv, NEW t \in Thread, NEW p, Procs(p), Begin(t, p), p.doc = EmptyFile,
           p.key <= lastKey, p.pc \in {"choose", "list", "unset"},
           UNCHANGED <<file, route, artifacts, lastKey, history>>
    PROVE  PeerInv'
<1>1. /\ proc'[t].pc \in {"choose", "list", "unset"} /\ proc'[t].key <= lastKey
      /\ proc'[t].doc = EmptyFile /\ proc[t].pc = "idle"
      /\ \A u \in Thread : u # t =>
           /\ proc'[u].pc = proc[u].pc /\ proc'[u].key = proc[u].key
           /\ proc'[u].ip = proc[u].ip /\ proc'[u].doc = proc[u].doc
           /\ proc'[u].alone => proc'[u].pc = "idle"
      /\ proc'[t].alone => \A u \in Thread : u # t => proc'[u].pc = "idle"
  BY BeginIs, NewcomerIs
<1>2. /\ file' = file /\ route' = route /\ status' = status /\ artifacts' = artifacts
      /\ lastKey' = lastKey
  BY DEF history
<1>3. Numbered'
  BY <1>1, <1>2, NoBlocks DEF PeerInv, Numbered
<1>4. Unwritten'
  BY <1>1, <1>2, NoBlocks DEF PeerInv, Unwritten, Making
<1>5. OneBlock'
  BY <1>1, <1>2, NoBlocks DEF PeerInv, OneBlock
<1>6. Apart'
  BY <1>1 DEF Apart, UnderWay
<1>7. Ungiven'
  BY <1>1, <1>2 DEF PeerInv, Ungiven, Given
<1>8. Creating' /\ Removing'
  BY <1>1, <1>2 DEF Creating, Removing, Making
<1>9. Settled'
  <2> SUFFICES ASSUME NEW k \in Key, Given(k)
               PROVE  \E a \in Addr : AtHome(k, a)'
    BY <1>2 DEF Settled, Given
  <2>1. PICK a \in Addr : AtHome(k, a)
    BY DEF PeerInv, Settled
  <2>2. Quiet' => Quiet
    BY <1>1 DEF Quiet
  <2>3. AtHome(k, a)'
    BY <1>1, <1>2, <2>1, <2>2 DEF AtHome, Making, Holding
  <2> QED
    BY <2>3
<1>10. Gone'
  BY <1>1, <1>2 DEF PeerInv, Gone, IsGone, Making, Holding
<1> QED
  BY <1>3, <1>4, <1>5, <1>6, <1>7, <1>8, <1>9, <1>10 DEF PeerInv

\* A creation begins without a key, a removal with the key of the artifact or with none.
LEMMA RequestBegins ==
    ASSUME TypeInv, PeerInv, NEW t \in Thread, NEW n \in Name,
           BeginCreate(t, n) \/ BeginRevoke(t, n)
    PROVE  PeerInv'
<1>1. UNCHANGED <<file, route, artifacts, lastKey, history>>
  BY DEF BeginCreate, BeginRevoke
<1>2. 0 <= lastKey /\ artifacts[n] <= lastKey
  BY WireGuardConstants DEF TypeInv, TypeOK, PeerInv, Numbered
<1>3. PICK p : /\ Procs(p) /\ Begin(t, p) /\ p.doc = EmptyFile
               /\ p.key \in {0, artifacts[n]} /\ p.pc \in {"choose", "list", "unset"}
  BY BeginCreateIs, BeginRevokeIs
<1>4. p.key <= lastKey
  BY <1>2, <1>3
<1> QED
  BY <1>1, <1>3, <1>4, BeginKeeps

\* A creation chooses a key that is new, and an address that is free in the file: nobody
\* counts as given whom a removal has out of the file just then.
LEMMA ChooseKeeps ==
    ASSUME TypeInv, PeerInv, NEW t \in Thread, ChooseAddress(t), ~Done(t)
    PROVE  PeerInv'
<1>1. /\ Others(t) /\ proc'[t].pc = "set" /\ proc'[t].key = lastKey + 1
      /\ proc'[t].ip \in Free(file) /\ proc'[t].doc = proc[t].doc
      /\ proc'[t].alone = proc[t].alone
      /\ lastKey + 1 \in Key /\ lastKey' = lastKey + 1
  BY ChooseIs
<1>2. /\ proc[t].pc = "choose" /\ file' = file /\ route' = route /\ artifacts' = artifacts
      /\ lastKey \in Nat /\ artifacts \in [Name -> Key \union {0}]
      /\ \A k \in Key : k \in Nat
      /\ Keys(file) \subseteq Key
      /\ \A u \in Thread : Keys(proc[u].doc) \subseteq Key /\ proc[u].key \in Key \union {0}
  <2>1. /\ proc[t].pc = "choose" /\ file' = file /\ route' = route /\ artifacts' = artifacts
    BY DEF ChooseAddress
  <2>2. /\ lastKey \in Nat /\ artifacts \in [Name -> Key \union {0}]
        /\ \A k \in Key : k \in Nat
    BY WireGuardConstants DEF TypeInv, TypeOK, Key
  <2>3. Keys(file) \subseteq Key /\ \A u \in Thread : Keys(proc[u].doc) \subseteq Key
    BY FileParts DEF TypeInv, TypeOK
  <2>4. \A u \in Thread : proc[u].key \in Key \union {0}
    BY DEF TypeInv, TypeOK, Proc
  <2> QED
    BY <2>1, <2>2, <2>3, <2>4
<1>3. /\ Remembered /\ status[lastKey + 1] = "none" /\ status'[lastKey + 1] = "none"
      /\ \A k \in Key : status'[k] = "given" => status[k] = "given" /\ Quiet
  <2>1. status \in [Key -> Status] /\ status' = Seen
    BY DEF TypeInv, TypeOK, ChooseAddress
  <2>2. Remembered
    BY <2>1, RememberedIs
  <2>3. status[lastKey + 1] = "none"
    BY <1>1, <1>2 DEF PeerInv, Numbered
  <2> QED
    BY <1>1, <2>1, <2>2, <2>3, SeenIs DEF Remembered
<1>4. Numbered'
  <2>1. \A k \in Key : k > lastKey + 1 => k > lastKey
    BY <1>2
  <2>2. \A k \in Key \union {0} : k <= lastKey => k <= lastKey + 1
    BY <1>2
  <2>3. \A k \in Key : k > lastKey' => status'[k] = "none"
    BY <1>1, <1>2, <1>3, <2>1 DEF PeerInv, Numbered, Remembered
  <2>4. \A m \in Name : artifacts'[m] <= lastKey'
    BY <1>1, <1>2, <2>2 DEF PeerInv, Numbered
  <2>5. \A k \in Keys(file') : k <= lastKey'
    BY <1>1, <1>2, <2>2 DEF PeerInv, Numbered
  <2>6. ASSUME NEW u \in Thread
        PROVE  /\ proc'[u].key <= lastKey'
               /\ \A k \in Keys(proc'[u].doc) : k <= lastKey'
    <3>1. \A k \in Keys(proc[u].doc) : k <= lastKey'
      BY <1>1, <1>2, <2>2 DEF PeerInv, Numbered
    <3>2. CASE u = t
      BY <1>1, <1>2, <3>1, <3>2
    <3>3. CASE u # t
      BY <1>1, <1>2, <2>2, <3>1, <3>3 DEF PeerInv, Numbered, Others
    <3> QED
      BY <3>2, <3>3
  <2> QED
    BY <2>3, <2>4, <2>5, <2>6 DEF Numbered
<1>5. Unwritten'
  <2>1. lastKey + 1 \notin Keys(file)
    BY <1>2 DEF PeerInv, Numbered
  <2>2. \A u \in Thread : lastKey + 1 \notin Keys(proc[u].doc) /\ proc[u].key # lastKey + 1
    <3>1. \A k \in Key \union {0} : k <= lastKey => k # lastKey + 1
      BY <1>2
    <3> QED
      BY <1>2, <3>1 DEF PeerInv, Numbered
  <2>3. \A u \in Thread : proc'[u].doc = proc[u].doc
    BY <1>1 DEF Others
  <2> QED
    BY <1>1, <1>2, <2>1, <2>2, <2>3 DEF PeerInv, Unwritten, Making, Others
<1>6. OneBlock' /\ Apart'
  BY <1>1, <1>2 DEF PeerInv, OneBlock, Apart, UnderWay, Others
<1>7. Ungiven'
  <2> SUFFICES ASSUME NEW u \in Thread, proc'[u].pc \notin {"idle", "choose", "list", "unset"}
               PROVE  status'[proc'[u].key] # "given"
    BY DEF Ungiven, Given
  <2>1. CASE u = t
    BY <1>1, <1>3, <2>1
  <2>2. CASE u # t
    <3>1. proc'[u] = proc[u] /\ proc[u].key \in Key
      BY <1>1, <2>2, About DEF Others
    <3> QED
      BY <1>3, <3>1 DEF PeerInv, Ungiven, Given
  <2> QED
    BY <2>1, <2>2
<1>8. Creating' /\ Removing'
  BY <1>1, <1>2 DEF PeerInv, Creating, Removing, Making, Others
<1>9. Settled'
  <2> SUFFICES ASSUME NEW k \in Key, status'[k] = "given"
               PROVE  \E a \in Addr : AtHome(k, a)'
    BY DEF Settled, Given
  <2>1. status[k] = "given" /\ Quiet
    BY <1>3
  <2>2. PICK a \in Addr : AtHome(k, a)
    BY <2>1 DEF PeerInv, Settled, Given
  <2>3. Owns(file, k, a) /\ a \notin Free(file)
    BY <2>1, <2>2, OwnerIsThere DEF AtHome
  <2>4. AtHome(k, a)'
    BY <1>1, <1>2, <2>2, <2>3 DEF AtHome, Making, Holding, Others
  <2> QED
    BY <2>4
<1>10. Gone'
  BY <1>1, <1>2, <1>3 DEF PeerInv, Gone, IsGone, Making, Holding, Others, Remembered
<1> QED
  BY <1>4, <1>5, <1>6, <1>7, <1>8, <1>9, <1>10 DEF PeerInv

\* While a request is alone, nobody else does anything.
LEMMA OthersRest ==
    ASSUME PeerInv, NEW t \in Thread, proc[t].alone, proc[t].pc # "idle",
           NEW u \in Thread, u # t
    PROVE  proc[u].pc = "idle"
BY DEF PeerInv, Apart, UnderWay

\* The peer is set on the interface: no other given peer has its address.
LEMMA SetKeeps ==
    ASSUME TypeInv, PeerInv, NEW t \in Thread, SetPeer(t), proc'[t].pc = "append",
           Others(t), Same(t), proc'[t].doc = proc[t].doc,
           route' = Routed(proc[t].key, proc[t].ip)
    PROVE  PeerInv'
<1>1. /\ proc[t].pc = "set" /\ proc[t].key \in Key /\ proc[t].ip \in Addr
      /\ file' = file /\ status' = status /\ artifacts' = artifacts /\ lastKey' = lastKey
  BY About DEF SetPeer, history
<1>2. \A a \in Addr : route'[a] = IF a = proc[t].ip THEN proc[t].key
                                  ELSE IF route[a] = proc[t].key THEN 0 ELSE route[a]
  BY DEF Routed
<1>3. 0 \notin Key
  BY DEF Key
<1>4. Numbered' /\ Unwritten' /\ OneBlock'
  BY <1>1 DEF PeerInv, Numbered, Unwritten, OneBlock, Making, Others, Same
<1>5. Apart' /\ Ungiven'
  BY <1>1 DEF PeerInv, Apart, UnderWay, Ungiven, Given, Others, Same
<1>6. Creating' /\ Removing'
  <2>1. ASSUME NEW u \in Thread, u # t, proc[u].alone
        PROVE  proc[u].pc = "idle"
    BY <1>1, <2>1 DEF PeerInv, Apart, UnderWay
  <2> QED
    BY <1>1, <1>2, <2>1 DEF PeerInv, Creating, Removing, Making, Others, Same
<1>7. Settled'
  <2> SUFFICES ASSUME NEW k \in Key, Given(k)
               PROVE  \E a \in Addr : AtHome(k, a)'
    BY <1>1 DEF Settled, Given
  <2>1. PICK a \in Addr : AtHome(k, a)
    BY DEF PeerInv, Settled
  <2>2. k # proc[t].key /\ a # proc[t].ip
    BY <1>1, <2>1 DEF PeerInv, Ungiven, AtHome, Making
  <2>3. route'[a] = k
    BY <1>2, <2>1, <2>2 DEF AtHome
  <2>4. AtHome(k, a)'
    BY <1>1, <2>1, <2>2, <2>3 DEF AtHome, Making, Holding, Quiet, Others, Same
  <2> QED
    BY <2>4
<1>8. Gone'
  BY <1>1, <1>2, <1>3 DEF PeerInv, Gone, IsGone, Making, Holding, Others, Same
<1> QED
  BY <1>4, <1>5, <1>6, <1>7, <1>8 DEF PeerInv

\* The block is appended: the key is new, and so is the address for one who is alone.
LEMMA AppendKeeps ==
    ASSUME TypeInv, PeerInv, NEW t \in Thread, AppendPeer(t)
    PROVE  PeerInv'
<1> DEFINE k0 == proc[t].key
           a0 == proc[t].ip
<1>1. /\ proc[t].pc = "append" /\ k0 \in Key /\ a0 \in Addr
      /\ file' = Appended(file, proc[t].name, k0, a0) /\ proc[t].name \in Label
      /\ route' = route /\ status' = status /\ artifacts' = artifacts /\ lastKey' = lastKey
      /\ WellFormed(file)
  BY About DEF AppendPeer, history, TypeInv, TypeOK
<1>2. Others(t) /\ Same(t) /\ proc'[t].pc = "save" /\ proc'[t].doc = proc[t].doc
  BY StepIs
<1>3. k0 \notin Keys(file) /\ k0 <= lastKey
  BY <1>1 DEF PeerInv, Unwritten, Numbered, Making
<1>4. /\ Keys(file') = Keys(file) \union {k0}
      /\ Once(file) => Once(file')
      /\ a0 \in Free(file) => Owns(file', k0, a0)
      /\ \A l, b : l # k0 /\ b # a0 /\ Owns(file, l, b) => Owns(file', l, b)
  BY <1>1, <1>3, AppendedKeeps
<1>5. Numbered' /\ OneBlock'
  BY <1>1, <1>2, <1>3, <1>4 DEF PeerInv, Numbered, OneBlock, Others, Same
<1>6. Unwritten'
  BY <1>1, <1>2, <1>3, <1>4 DEF PeerInv, Unwritten, Making, Others, Same
<1>7. Apart' /\ Ungiven'
  BY <1>1, <1>2 DEF PeerInv, Apart, UnderWay, Ungiven, Given, Others, Same
<1>8. Creating' /\ Removing'
  <2>1. ASSUME NEW u \in Thread, u # t, proc[u].alone
        PROVE  proc[u].pc = "idle"
    BY <1>1, <2>1 DEF PeerInv, Apart, UnderWay
  <2> QED
    BY <1>1, <1>2, <1>4, <2>1 DEF PeerInv, Creating, Removing, Making, Others, Same
<1>9. Settled'
  <2> SUFFICES ASSUME NEW k \in Key, Given(k)
               PROVE  \E a \in Addr : AtHome(k, a)'
    BY <1>1 DEF Settled, Given
  <2>1. PICK a \in Addr : AtHome(k, a)
    BY DEF PeerInv, Settled
  <2>2. k # k0 /\ a # a0
    BY <1>1, <2>1 DEF PeerInv, Ungiven, AtHome, Making
  <2>3. Quiet' \/ k \in Keys(file') => Owns(file', k, a)
    BY <1>1, <1>2, <1>4, <2>1, <2>2 DEF AtHome, Quiet, Others
  <2>4. AtHome(k, a)'
    BY <1>1, <1>2, <2>1, <2>2, <2>3 DEF AtHome, Making, Holding, Quiet, Others, Same
  <2> QED
    BY <2>4
<1>10. Gone'
  BY <1>1, <1>2, <1>4 DEF PeerInv, Gone, IsGone, Making, Holding, Others, Same
<1> QED
  BY <1>5, <1>6, <1>7, <1>8, <1>9, <1>10 DEF PeerInv

\* A request that ends and leaves a word about its key.
LEMMA ToldIs ==
    ASSUME TypeInv, NEW t \in Thread, proc[t].key \in Key, NEW what, Told(t, what)
    PROVE  /\ \A k \in Key : k # proc[t].key => status'[k] = status[k]
           /\ status'[proc[t].key] = what \/ status'[proc[t].key] = "raced"
           /\ status'[proc[t].key] = what /\ what # "raced" => proc[t].alone
BY DEF Told, TypeInv, TypeOK

\* A creation is answered: one that was alone has the address to itself.
LEMMA SaveKeeps ==
    ASSUME TypeInv, PeerInv, NEW t \in Thread, SaveArtifact(t)
    PROVE  PeerInv'
<1> DEFINE k0 == proc[t].key
<1>1. /\ proc[t].pc = "save" /\ k0 \in Key /\ proc[t].ip \in Addr
      /\ artifacts' = [artifacts EXCEPT ![proc[t].name] = k0]
      /\ artifacts \in [Name -> Key \union {0}]
      /\ route' = route /\ file' = file /\ lastKey' = lastKey
  BY About DEF SaveArtifact, TypeInv, TypeOK
<1>2. Others(t) /\ proc'[t] = Idle
  BY StepIs
<1>3. /\ \A k \in Key : k # k0 => status'[k] = status[k]
      /\ status'[k0] = "given" \/ status'[k0] = "raced"
      /\ status'[k0] = "given" => proc[t].alone
  BY <1>1, ToldIs DEF SaveArtifact
<1>4. Idle.pc = "idle" /\ Idle.key = 0 /\ Idle.doc = EmptyFile /\ lastKey \in Nat /\ k0 <= lastKey
  BY WireGuardConstants DEF Idle, TypeInv, TypeOK, PeerInv, Numbered
<1>5. ASSUME NEW u \in Thread, u # t, proc[t].alone
      PROVE  proc[u].pc = "idle"
  BY <1>1, <1>5, OthersRest
<1>6. Numbered'
  BY <1>1, <1>2, <1>3, <1>4, NoBlocks DEF PeerInv, Numbered, Others, Key
<1>7. Unwritten' /\ OneBlock'
  BY <1>1, <1>2, <1>4, NoBlocks DEF PeerInv, Unwritten, OneBlock, Making, Others
<1>8. Apart'
  BY <1>2, <1>4 DEF PeerInv, Apart, UnderWay, Others
<1>9. Ungiven'
  <2> SUFFICES ASSUME NEW u \in Thread, proc'[u].pc \notin {"idle", "choose", "list", "unset"}
               PROVE  status'[proc'[u].key] # "given"
    BY DEF Ungiven, Given
  <2>1. u # t /\ proc'[u] = proc[u] /\ proc[u].key \in Key
    BY <1>2, <1>4, About DEF Others
  <2> QED
    BY <1>3, <1>5, <2>1 DEF PeerInv, Ungiven, Given
<1>10. Creating' /\ Removing'
  BY <1>1, <1>2, <1>4 DEF PeerInv, Creating, Removing, Making, Others
<1>11. Settled'
  <2> SUFFICES ASSUME NEW k \in Key, status'[k] = "given"
               PROVE  \E a \in Addr : AtHome(k, a)'
    BY DEF Settled, Given
  <2>1. CASE k = k0
    <3>1. /\ proc[t].alone /\ Owns(file, k0, proc[t].ip) /\ route[proc[t].ip] = k0
      BY <1>1, <1>3, <2>1 DEF PeerInv, Creating
    <3>2. \A u \in Thread : proc'[u].pc = "idle"
      BY <1>2, <1>4, <1>5, <3>1 DEF Others
    <3>3. PICK a \in Addr : a = proc[t].ip
      BY <1>1
    <3>4. AtHome(k, a)'
      BY <1>1, <2>1, <3>1, <3>2, <3>3 DEF AtHome, Making, Holding, Quiet
    <3> QED
      BY <3>4
  <2>2. CASE k # k0
    <3>1. PICK a \in Addr : AtHome(k, a)
      BY <1>3, <2>2 DEF PeerInv, Settled, Given
    <3>2. AtHome(k, a)'
      BY <1>1, <1>2, <1>4, <3>1 DEF AtHome, Making, Holding, Quiet, Others
    <3> QED
      BY <3>2
  <2> QED
    BY <2>1, <2>2
<1>12. Gone'
  BY <1>1, <1>2, <1>3, <1>4 DEF PeerInv, Gone, IsGone, Making, Holding, Others
<1> QED
  BY <1>6, <1>7, <1>8, <1>9, <1>10, <1>11, <1>12 DEF PeerInv

\* A removal has found the key for a name.
LEMMA ListKeeps ==
    ASSUME TypeInv, PeerInv, NEW t \in Thread, ListPeers(t), ~Done(t)
    PROVE  PeerInv'
<1>1. /\ Others(t) /\ proc'[t].pc = "unset" /\ proc'[t].key \in Keys(file)
      /\ proc'[t].doc = proc[t].doc /\ proc'[t].alone = proc[t].alone
  BY ListIs
<1>2. /\ proc[t].pc = "list" /\ file' = file /\ route' = route /\ status' = status
      /\ artifacts' = artifacts /\ lastKey' = lastKey
  BY DEF ListPeers, history
<1>3. Numbered' /\ OneBlock' /\ Unwritten'
  BY <1>1, <1>2 DEF PeerInv, Numbered, OneBlock, Unwritten, Making, Others
<1>4. Apart' /\ Ungiven'
  BY <1>1, <1>2 DEF PeerInv, Apart, UnderWay, Ungiven, Given, Others
<1>5. Creating' /\ Removing'
  BY <1>1, <1>2 DEF PeerInv, Creating, Removing, Making, Others
<1>6. Settled' /\ Gone'
  BY <1>1, <1>2 DEF PeerInv, Settled, Given, AtHome, Quiet, Gone, IsGone, Making, Holding, Others
<1> QED
  BY <1>3, <1>4, <1>5, <1>6 DEF PeerInv

\* The peer is taken from the interface, and does not count as given any more.
LEMMA UnsetKeeps ==
    ASSUME TypeInv, PeerInv, NEW t \in Thread, UnsetPeer(t), proc'[t].pc = "read",
           Others(t), Same(t), proc'[t].doc = proc[t].doc,
           route' = Unrouted(proc[t].key), status' = [status EXCEPT ![proc[t].key] = "leaving"]
    PROVE  PeerInv'
<1> DEFINE k0 == proc[t].key
<1>1. /\ proc[t].pc = "unset" /\ k0 \in Key
      /\ file' = file /\ artifacts' = artifacts /\ lastKey' = lastKey /\ lastKey \in Nat
  BY About, WireGuardConstants DEF UnsetPeer, TypeInv, TypeOK
<1>2. /\ \A k \in Key : k # k0 => status'[k] = status[k]
      /\ status'[k0] = "leaving"
      /\ \A a \in Addr : route'[a] = IF route[a] = k0 THEN 0 ELSE route[a]
      /\ 0 \notin Key
  BY <1>1 DEF TypeInv, TypeOK, Unrouted, Key
<1>3. k0 <= lastKey
  BY DEF PeerInv, Numbered
<1>4. ASSUME NEW u \in Thread, u # t, proc[u].alone
      PROVE  proc[u].pc = "idle"
  BY <1>1, <1>4 DEF PeerInv, Apart, UnderWay
<1>5. Numbered'
  BY <1>1, <1>2, <1>3 DEF PeerInv, Numbered, Others, Same, Key
<1>6. OneBlock' /\ Unwritten'
  BY <1>1 DEF PeerInv, OneBlock, Unwritten, Making, Others, Same
<1>7. Apart'
  BY <1>1 DEF PeerInv, Apart, UnderWay, Others, Same
<1>8. Ungiven'
  <2> SUFFICES ASSUME NEW u \in Thread, proc'[u].pc \notin {"idle", "choose", "list", "unset"}
               PROVE  status'[proc'[u].key] # "given"
    BY DEF Ungiven, Given
  <2>1. CASE u = t
    BY <1>2, <2>1 DEF Same
  <2>2. CASE u # t
    <3>1. proc'[u] = proc[u] /\ proc[u].key \in Key
      BY <2>2, About DEF Others
    <3> QED
      BY <1>2, <3>1 DEF PeerInv, Ungiven, Given
  <2> QED
    BY <2>1, <2>2
<1>9. Creating'
  BY <1>1, <1>4 DEF PeerInv, Creating, Making, Others, Same
<1>10. Removing'
  BY <1>1, <1>2, <1>4 DEF PeerInv, Removing, Others, Same
<1>11. Settled'
  <2> SUFFICES ASSUME NEW k \in Key, status'[k] = "given"
               PROVE  \E a \in Addr : AtHome(k, a)'
    BY DEF Settled, Given
  <2>1. k # k0 /\ status[k] = "given"
    BY <1>2
  <2>2. PICK a \in Addr : AtHome(k, a)
    BY <2>1 DEF PeerInv, Settled, Given
  <2>3. AtHome(k, a)'
    BY <1>1, <1>2, <2>1, <2>2 DEF AtHome, Making, Holding, Quiet, Others, Same
  <2> QED
    BY <2>3
<1>12. Gone'
  BY <1>1, <1>2 DEF PeerInv, Gone, IsGone, Making, Holding, Others, Same
<1> QED
  BY <1>5, <1>6, <1>7, <1>8, <1>9, <1>10, <1>11, <1>12 DEF PeerInv

\* The file is read: as it is, it has everybody who still counts as given.
LEMMA ReadKeeps ==
    ASSUME TypeInv, PeerInv, NEW t \in Thread, ReadFile(t)
    PROVE  PeerInv'
<1>1. Others(t) /\ Same(t) /\ proc'[t].pc = "truncate" /\ proc'[t].doc = file
  BY ReadIs
<1>2. /\ proc[t].pc = "read" /\ file' = file /\ route' = route
      /\ artifacts' = artifacts /\ lastKey' = lastKey /\ status' = Seen
      /\ status \in [Key -> Status] /\ proc[t].key \in Key
  BY About DEF ReadFile, TypeInv, TypeOK
<1>3. Remembered /\ \A k \in Key : status'[k] = "given" => status[k] = "given" /\ Quiet
  BY <1>2, SeenIs, RememberedIs DEF Remembered
<1>4. Numbered' /\ OneBlock' /\ Unwritten'
  BY <1>1, <1>2, <1>3
     DEF PeerInv, Numbered, OneBlock, Unwritten, Making, Others, Same, Remembered
<1>5. Apart'
  BY <1>1, <1>2 DEF PeerInv, Apart, UnderWay, Others, Same
<1>6. Ungiven'
  <2> SUFFICES ASSUME NEW u \in Thread, proc'[u].pc \notin {"idle", "choose", "list", "unset"}
               PROVE  status'[proc'[u].key] # "given"
    BY DEF Ungiven, Given
  <2>1. /\ proc'[u].key = proc[u].key
        /\ proc[u].pc \notin {"idle", "choose", "list", "unset"}
    BY <1>1, <1>2 DEF Others, Same
  <2>2. proc[u].key \in Key
    BY <2>1, About
  <2> QED
    BY <1>3, <2>1, <2>2 DEF PeerInv, Ungiven, Given
<1>7. Creating' /\ Removing'
  BY <1>1, <1>2 DEF PeerInv, Creating, Removing, Making, Others, Same
<1>8. Settled'
  <2> SUFFICES ASSUME NEW k \in Key, status'[k] = "given"
               PROVE  \E a \in Addr : AtHome(k, a)'
    BY DEF Settled, Given
  <2>1. status[k] = "given" /\ Quiet
    BY <1>3
  <2>2. PICK a \in Addr : AtHome(k, a)
    BY <2>1 DEF PeerInv, Settled, Given
  <2>3. Owns(file, k, a)
    BY <2>1, <2>2 DEF AtHome
  <2>4. AtHome(k, a)'
    BY <1>1, <1>2, <2>2, <2>3 DEF AtHome, Making, Holding, Others, Same
  <2> QED
    BY <2>4
<1>9. Gone'
  BY <1>1, <1>2, <1>3 DEF PeerInv, Gone, IsGone, Making, Holding, Others, Same, Remembered
<1> QED
  BY <1>4, <1>5, <1>6, <1>7, <1>8, <1>9 DEF PeerInv

\* The file is emptied: who counts as given is in the copy that will be written.
LEMMA TruncateKeeps ==
    ASSUME TypeInv, PeerInv, NEW t \in Thread, Truncate(t)
    PROVE  PeerInv'
<1>1. /\ proc[t].pc = "truncate" /\ Keys(file') = {} /\ Once(file')
      /\ route' = route /\ status' = status /\ artifacts' = artifacts /\ lastKey' = lastKey
  BY NoBlocks DEF Truncate, history
<1>2. Others(t) /\ Same(t) /\ proc'[t].pc = "write" /\ proc'[t].doc = proc[t].doc
  BY StepIs
<1>3. ASSUME NEW u \in Thread, u # t, proc[u].alone
      PROVE  proc[u].pc = "idle"
  BY <1>1, <1>3 DEF PeerInv, Apart, UnderWay
<1>4. Numbered' /\ OneBlock'
  BY <1>1, <1>2 DEF PeerInv, Numbered, OneBlock, Others, Same
<1>5. Unwritten'
  BY <1>1, <1>2 DEF PeerInv, Unwritten, Making, Others, Same
<1>6. Apart' /\ Ungiven'
  BY <1>1, <1>2 DEF PeerInv, Apart, UnderWay, Ungiven, Given, Others, Same
<1>7. Creating' /\ Removing'
  BY <1>1, <1>2, <1>3 DEF PeerInv, Creating, Removing, Making, Others, Same
<1>8. Settled'
  <2> SUFFICES ASSUME NEW k \in Key, Given(k)
               PROVE  \E a \in Addr : AtHome(k, a)'
    BY <1>1 DEF Settled, Given
  <2>1. PICK a \in Addr : AtHome(k, a)
    BY DEF PeerInv, Settled
  <2>2. ~Quiet' /\ k \notin Keys(file')
    BY <1>1, <1>2 DEF Quiet
  <2>3. AtHome(k, a)'
    BY <1>1, <1>2, <2>1, <2>2 DEF AtHome, Making, Holding, Others, Same
  <2> QED
    BY <2>3
<1>9. Gone'
  BY <1>1, <1>2 DEF PeerInv, Gone, IsGone, Making, Holding, Others, Same
<1> QED
  BY <1>4, <1>5, <1>6, <1>7, <1>8, <1>9 DEF PeerInv

\* The file is written back without a peer: those that were given are in the copy.
LEMMA RewriteKeeps ==
    ASSUME TypeInv, PeerInv, NEW t \in Thread, Rewrite(t)
    PROVE  PeerInv'
<1> DEFINE k0 == proc[t].key
           d == proc[t].doc
<1>1. /\ proc[t].pc = "write" /\ k0 \in Key /\ file' = Without(d, k0) /\ WellFormed(d)
      /\ route' = route /\ status' = status /\ artifacts' = artifacts /\ lastKey' = lastKey
  BY About DEF Rewrite, history, Procs
<1>2. Others(t) /\ Same(t) /\ proc'[t].pc = "forget" /\ proc'[t].doc = d
  BY StepIs
<1>3. /\ Keys(file') \subseteq Keys(d) /\ Once(file') /\ k0 \notin Keys(file')
      /\ \A l, b : l # k0 /\ Owns(d, l, b) => Owns(file', l, b)
  BY <1>1, WithoutKeeps DEF PeerInv, OneBlock
<1>4. ASSUME NEW u \in Thread, u # t, proc[u].alone
      PROVE  proc[u].pc = "idle"
  BY <1>1, <1>4 DEF PeerInv, Apart, UnderWay
<1>5. Numbered' /\ OneBlock'
  BY <1>1, <1>2, <1>3 DEF PeerInv, Numbered, OneBlock, Others, Same
<1>6. Unwritten'
  BY <1>1, <1>2, <1>3 DEF PeerInv, Unwritten, Making, Others, Same
<1>7. Apart' /\ Ungiven'
  BY <1>1, <1>2 DEF PeerInv, Apart, UnderWay, Ungiven, Given, Others, Same
<1>8. Creating' /\ Removing'
  BY <1>1, <1>2, <1>3, <1>4 DEF PeerInv, Creating, Removing, Making, Others, Same
<1>9. Settled'
  <2> SUFFICES ASSUME NEW k \in Key, Given(k)
               PROVE  \E a \in Addr : AtHome(k, a)'
    BY <1>1 DEF Settled, Given
  <2>1. PICK a \in Addr : AtHome(k, a)
    BY DEF PeerInv, Settled
  <2>2. k # k0
    BY <1>1 DEF PeerInv, Ungiven
  <2>3. Owns(file', k, a)
    BY <1>1, <1>3, <2>1, <2>2 DEF AtHome, Holding
  <2>4. AtHome(k, a)'
    BY <1>1, <1>2, <2>1, <2>3 DEF AtHome, Making, Holding, Quiet, Others, Same
  <2> QED
    BY <2>4
<1>10. Gone'
  BY <1>1, <1>2, <1>3 DEF PeerInv, Gone, IsGone, Making, Holding, Others, Same
<1> QED
  BY <1>5, <1>6, <1>7, <1>8, <1>9, <1>10 DEF PeerInv

\* A removal is answered: one that was alone has left nothing of the peer.
LEMMA ForgetKeeps ==
    ASSUME TypeInv, PeerInv, NEW t \in Thread, ForgetArtifact(t)
    PROVE  PeerInv'
<1> DEFINE k0 == proc[t].key
<1>1. /\ proc[t].pc = "forget" /\ k0 \in Key
      /\ artifacts' = [artifacts EXCEPT ![proc[t].name] = 0]
      /\ artifacts \in [Name -> Key \union {0}]
      /\ route' = route /\ file' = file /\ lastKey' = lastKey
  BY About DEF ForgetArtifact, TypeInv, TypeOK
<1>2. Others(t) /\ proc'[t] = Idle
  BY StepIs
<1>3. /\ \A k \in Key : k # k0 => status'[k] = status[k]
      /\ status'[k0] = "revoked" \/ status'[k0] = "raced"
      /\ status'[k0] = "revoked" => proc[t].alone
  BY <1>1, ToldIs DEF ForgetArtifact
<1>4. Idle.pc = "idle" /\ Idle.key = 0 /\ Idle.doc = EmptyFile /\ lastKey \in Nat /\ k0 <= lastKey
  BY WireGuardConstants DEF Idle, TypeInv, TypeOK, PeerInv, Numbered
<1>5. ASSUME NEW u \in Thread, u # t, proc[t].alone
      PROVE  proc[u].pc = "idle"
  BY <1>1, <1>5, OthersRest
<1>6. Numbered'
  BY <1>1, <1>2, <1>3, <1>4, NoBlocks DEF PeerInv, Numbered, Others, Key
<1>7. Unwritten' /\ OneBlock'
  BY <1>1, <1>2, <1>4, NoBlocks DEF PeerInv, Unwritten, OneBlock, Making, Others
<1>8. Apart'
  BY <1>2, <1>4 DEF PeerInv, Apart, UnderWay, Others
<1>9. Ungiven'
  <2> SUFFICES ASSUME NEW u \in Thread, proc'[u].pc \notin {"idle", "choose", "list", "unset"}
               PROVE  status'[proc'[u].key] # "given"
    BY DEF Ungiven, Given
  <2>1. u # t /\ proc'[u] = proc[u] /\ proc[u].key \in Key
    BY <1>2, <1>4, About DEF Others
  <2> QED
    BY <1>3, <2>1 DEF PeerInv, Ungiven, Given
<1>10. Creating' /\ Removing'
  BY <1>1, <1>2, <1>4 DEF PeerInv, Creating, Removing, Making, Others
<1>11. Settled'
  <2> SUFFICES ASSUME NEW k \in Key, status'[k] = "given"
               PROVE  \E a \in Addr : AtHome(k, a)'
    BY DEF Settled, Given
  <2>1. k # k0 /\ status[k] = "given"
    BY <1>3
  <2>2. PICK a \in Addr : AtHome(k, a)
    BY <2>1 DEF PeerInv, Settled, Given
  <2>3. AtHome(k, a)'
    BY <1>1, <1>2, <1>4, <2>2 DEF AtHome, Making, Holding, Quiet, Others
  <2> QED
    BY <2>3
<1>12. Gone'
  <2> SUFFICES ASSUME NEW k \in Key, status'[k] = "revoked"
               PROVE  IsGone(k)'
    BY DEF Gone
  <2>1. CASE k = k0
    <3>1. proc[t].alone /\ (\A a \in Addr : route[a] # k0) /\ k0 \notin Keys(file)
      BY <1>1, <1>3, <2>1 DEF PeerInv, Removing
    <3>2. \A u \in Thread : proc'[u].pc = "idle"
      BY <1>2, <1>4, <1>5, <3>1 DEF Others
    <3> QED
      BY <1>1, <2>1, <3>1, <3>2 DEF IsGone, Making, Holding
  <2>2. CASE k # k0
    BY <1>1, <1>2, <1>3, <1>4, <2>2 DEF PeerInv, Gone, IsGone, Making, Holding, Others
  <2> QED
    BY <2>1, <2>2
<1> QED
  BY <1>6, <1>7, <1>8, <1>9, <1>10, <1>11, <1>12 DEF PeerInv

\* The interface reads the file: who owns an address there is served.
LEMMA RestartKeeps ==
    ASSUME TypeInv, PeerInv, RestartInterface
    PROVE  PeerInv'
<1>1. \A u \in Thread :
        /\ proc'[u].pc = proc[u].pc /\ proc'[u].key = proc[u].key
        /\ proc'[u].ip = proc[u].ip /\ proc'[u].doc = proc[u].doc
        /\ proc'[u].alone => proc'[u].pc = "idle"
  BY MetSound DEF RestartInterface, UnderWay
<1>2. /\ file' = file /\ artifacts' = artifacts /\ lastKey' = lastKey /\ status' = Seen
      /\ status \in [Key -> Status]
      /\ \A k : \A a \in Addr : Owns(file, k, a) => route'[a] = k
      /\ \A k \in Key, a \in Addr : k \notin Keys(file) => route'[a] # k
  BY LoadedServes DEF RestartInterface, TypeInv, TypeOK
<1>3. Remembered /\ \A k \in Key : status'[k] = "given" => status[k] = "given" /\ Quiet
  BY <1>2, SeenIs, RememberedIs DEF Remembered
<1>4. Numbered' /\ OneBlock' /\ Unwritten'
  BY <1>1, <1>2, <1>3 DEF PeerInv, Numbered, OneBlock, Unwritten, Making, Remembered
<1>5. Apart'
  BY <1>1, <1>2 DEF PeerInv, Apart, UnderWay
<1>6. Ungiven'
  <2> SUFFICES ASSUME NEW u \in Thread, proc'[u].pc \notin {"idle", "choose", "list", "unset"}
               PROVE  status'[proc'[u].key] # "given"
    BY DEF Ungiven, Given
  <2>1. proc'[u].key = proc[u].key /\ proc[u].key \in Key /\ proc[u].pc = proc'[u].pc
    BY <1>1, About
  <2> QED
    BY <1>3, <2>1 DEF PeerInv, Ungiven, Given
<1>7. Creating' /\ Removing'
  BY <1>1 DEF Creating, Removing, Making
<1>8. Settled'
  <2> SUFFICES ASSUME NEW k \in Key, status'[k] = "given"
               PROVE  \E a \in Addr : AtHome(k, a)'
    BY DEF Settled, Given
  <2>1. status[k] = "given" /\ Quiet
    BY <1>3
  <2>2. PICK a \in Addr : AtHome(k, a)
    BY <2>1 DEF PeerInv, Settled, Given
  <2>3. Owns(file, k, a)
    BY <2>1, <2>2 DEF AtHome
  <2>4. AtHome(k, a)'
    BY <1>1, <1>2, <2>2, <2>3 DEF AtHome, Making, Holding
  <2> QED
    BY <2>4
<1>9. Gone'
  BY <1>1, <1>2, <1>3 DEF PeerInv, Gone, IsGone, Making, Holding, Remembered
<1> QED
  BY <1>4, <1>5, <1>6, <1>7, <1>8, <1>9 DEF PeerInv

\* A request that ends where it has not emptied the file, or where it has and that is seen.
LEMMA EndKeeps ==
    ASSUME TypeInv, PeerInv, NEW t \in Thread, Others(t), proc'[t] = Idle,
           status' = Seen \/ (status' = status /\ proc[t].pc # "write"),
           UNCHANGED <<file, route, lastKey, artifacts>>
    PROVE  PeerInv'
<1>1. Remembered
  BY RememberedIs DEF Others
<1> QED
  BY <1>1, Frame DEF Later, Others

\* Every step keeps the invariant.
LEMMA PeersKept == TypeInv /\ PeerInv /\ [Next]_vars => PeerInv'
<1> SUFFICES ASSUME TypeInv, PeerInv, [Next]_vars
             PROVE  PeerInv'
  OBVIOUS
<1>1. CASE UNCHANGED vars
  <2>1. Remembered
    BY <1>1, RememberedIs DEF vars
  <2> QED
    BY <1>1, <2>1, Frame DEF vars, Later
<1>2. ASSUME NEW t \in Thread, SetPeer(t)
      PROVE  PeerInv'
  <2>1. CASE Others(t) /\ proc'[t] = Idle /\ route' = route
    <3>1. UNCHANGED <<file, route, lastKey, artifacts>> /\ status' = status /\ proc[t].pc = "set"
      BY <1>2, <2>1 DEF SetPeer, history
    <3> QED
      BY <2>1, <3>1, EndKeeps
  <2> QED
    BY <1>2, <2>1, StepIs, SetKeeps
<1>3. ASSUME NEW t \in Thread, UnsetPeer(t)
      PROVE  PeerInv'
  <2>1. CASE Others(t) /\ proc'[t] = Idle /\ route' = route /\ status' = status
    <3>1. UNCHANGED <<file, route, lastKey, artifacts>> /\ proc[t].pc = "unset"
      BY <1>3, <2>1 DEF UnsetPeer
    <3> QED
      BY <2>1, <3>1, EndKeeps
  <2> QED
    BY <1>3, <2>1, StepIs, UnsetKeeps
<1>4. ASSUME NEW t \in Thread, ListPeers(t)
      PROVE  PeerInv'
  <2>1. CASE Done(t)
    <3>1. UNCHANGED <<file, route, lastKey, artifacts>> /\ status' = status /\ proc[t].pc = "list"
      BY <1>4 DEF ListPeers, history
    <3>2. Others(t) /\ proc'[t] = Idle
      BY <2>1, DoneIs
    <3> QED
      BY <3>1, <3>2, EndKeeps
  <2> QED
    BY <1>4, <2>1, ListKeeps
<1>5. CASE WebDies
  <2>1. UNCHANGED <<file, route, lastKey, artifacts>> /\ status' = Seen
    BY <1>5 DEF WebDies
  <2>2. \A t \in Thread : proc'[t] = Idle
    BY <1>5 DEF WebDies
  <2> QED
    BY <2>1, <2>2, RememberedIs, Frame DEF Later
<1>6. ASSUME NEW t \in Thread, ChooseAddress(t)
      PROVE  PeerInv'
  <2>1. CASE Done(t)
    <3>1. UNCHANGED <<file, route, lastKey, artifacts>> /\ status' = Seen
      BY <1>6, <2>1, ChosenOrNot DEF ChooseAddress
    <3>2. Others(t) /\ proc'[t] = Idle
      BY <2>1, DoneIs
    <3> QED
      BY <3>1, <3>2, EndKeeps
  <2> QED
    BY <1>6, <2>1, ChooseKeeps
<1>7. ASSUME NEW t \in Thread, RewriteFails(t)
      PROVE  PeerInv'
  <2>1. UNCHANGED <<file, route, lastKey, artifacts>> /\ status' = Seen
    BY <1>7 DEF RewriteFails
  <2> QED
    BY <1>7, <2>1, StepIs, EndKeeps
<1>8. ASSUME NEW t \in Thread, CreateStep(t) \/ RevokeStep(t)
      PROVE  PeerInv'
  BY <1>2, <1>3, <1>4, <1>6, <1>7, <1>8, AppendKeeps, SaveKeeps, ReadKeeps, TruncateKeeps,
     RewriteKeeps, ForgetKeeps
     DEF CreateStep, RevokeStep
<1> QED
  BY <1>1, <1>5, <1>8, RequestBegins, RestartKeeps DEF Next

\* The invariant holds in every state.
LEMMA PeersAlways == Spec => [](TypeInv /\ PeerInv)
BY TypesAtFirst, TypesKept, PeersAtFirst, PeersKept, PTL DEF Spec

\* The peer that create_wireguard_peer made for a request that met no other has its
\* address to itself in the file, in every later state, until a request removes it or
\* somebody goes by the file while remove_wireguard_peer has it empty.
THEOREM AddressesStayUnique == Spec => []AddressesUnique
<1>1. TypeInv /\ PeerInv => AddressesUnique
  <2> SUFFICES ASSUME TypeInv, PeerInv, NEW i \in DOMAIN file.peers, NEW j \in DOMAIN file.peers,
                      Given(file.peers[i].key), file.peers[i].ip = file.peers[j].ip
               PROVE  i = j
    BY DEF AddressesUnique
  <2>1. file.peers[i].key \in Key
    BY FileParts DEF TypeInv, TypeOK
  <2>2. PICK a \in Addr : Owns(file, file.peers[i].key, a)
    BY <2>1 DEF PeerInv, Settled, AtHome, Keys
  <2> QED
    BY <2>2 DEF Owns
<1> QED
  BY <1>1, PeersAlways, PTL

\* Such a peer is served on the interface, over restarts and whatever else happens, and is
\* in the file, or in the text that remove_wireguard_peer is about to fill it with.
THEOREM GivenStaysServed == Spec => []GivenIsServed
<1>1. TypeInv /\ PeerInv => GivenIsServed
  <2> SUFFICES ASSUME PeerInv, NEW k \in Key, Given(k)
               PROVE  \E f \in {file} \union {proc[t].doc : t \in Writers} :
                          \E i \in Position(f, k) : route[f.peers[i].ip] = k
    BY DEF GivenIsServed
  <2>1. PICK a \in Addr : AtHome(k, a)
    BY DEF PeerInv, Settled
  <2>2. PICK f \in {file} \union {proc[t].doc : t \in Writers} : Owns(f, k, a)
    <3>1. CASE Quiet
      BY <2>1, <3>1 DEF AtHome
    <3>2. CASE ~Quiet
      <4>1. PICK t \in Writers : TRUE
        BY <3>2 DEF Quiet, Writers
      <4>2. Owns(proc[t].doc, k, a)
        BY <2>1 DEF AtHome, Holding, Writers
      <4> QED
        BY <4>2
    <3> QED
      BY <3>1, <3>2
  <2>3. PICK i \in DOMAIN f.peers : f.peers[i].key = k /\ f.peers[i].ip = a
    BY <2>2 DEF Owns
  <2>4. i \in Position(f, k) /\ route[f.peers[i].ip] = k
    BY <2>1, <2>3 DEF Position, AtHome
  <2> QED
    BY <2>4
<1> QED
  BY <1>1, PeersAlways, PTL

\* A peer that access_revoke removed for a request that met no other is in no file and
\* on no interface ever again.
THEOREM RevokedIsFinal == Spec => []RevokedStays
<1>1. TypeInv /\ PeerInv => RevokedStays
  <2> SUFFICES ASSUME PeerInv, NEW k \in Key, status[k] = "revoked"
               PROVE  Position(file, k) = {} /\ \A a \in Addr : route[a] # k
    BY DEF RevokedStays
  <2>1. k \notin Keys(file) /\ \A a \in Addr : route[a] # k
    BY DEF PeerInv, Gone, IsGone
  <2> QED
    BY <2>1 DEF Position, Keys
<1> QED
  BY <1>1, PeersAlways, PTL
=============================================================================
