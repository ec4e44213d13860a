------------------------- MODULE SymbolTableProofs -------------------------
(***************************************************************************)
(* For every set of names, every hash function and every number of         *)
(* buckets: a table of chained buckets is a map, and nested tables are     *)
(* nested maps.                                                            *)
(***************************************************************************)
EXTENDS SymbolTable, SequenceTheorems, WellFoundedInduction, TLAPS

ScopeType == [Buckets -> Seq(Entry)]

\* Every symbol is in the bucket of its name, and no name twice in a bucket.
GoodScope(sc) ==
  \A b \in Buckets : \A j \in DOMAIN sc[b] :
    /\ Hash[sc[b][j].name] = b
    /\ \A k \in DOMAIN sc[b] : sc[b][j].name = sc[b][k].name => j = k

\* The inductive invariant.
IInv == TypeOK /\ \A i \in DOMAIN scopes : GoodScope(scopes[i])

-----------------------------------------------------------------------------

\* A walk along a bucket stops at one place only (scopeLookupCurrent).
LEMMA FoundOnce ==
  ASSUME NEW bucket \in Seq(Entry), NEW n \in Names,
         NEW j, NEW k, FoundAt(bucket, n, j), FoundAt(bucket, n, k)
  PROVE  j = k
BY DEF FoundAt

\* What scopeLookupCurrent returns when the walk stops at k.
LEMMA LookupFound ==
  ASSUME NEW sc \in ScopeType, NEW n \in Names, NEW k, FoundAt(sc[Hash[n]], n, k)
  PROVE  /\ scopeLookupCurrent(sc, n) = sc[Hash[n]][k].symbol
         /\ scopeLookupCurrent(sc, n) \in Symbols
<1> DEFINE bucket == sc[Hash[n]]
<1>1. bucket \in Seq(Entry)
  BY HashAssumption DEF ScopeType
<1>2. k \in DOMAIN bucket /\ bucket[k] \in Entry
  BY <1>1 DEF FoundAt
<1>3. \E j \in DOMAIN bucket : FoundAt(bucket, n, j)
  BY <1>2
<1>4. (CHOOSE j \in DOMAIN bucket : FoundAt(bucket, n, j)) = k
  BY <1>1, <1>2, <1>3, FoundOnce
<1> QED
  BY <1>2, <1>3, <1>4 DEF scopeLookupCurrent, hashName, Entry

\* scopeLookupCurrent returns NULL exactly when the walk stops nowhere.
LEMMA LookupNull ==
  ASSUME NEW sc \in ScopeType, NEW n \in Names
  PROVE  scopeLookupCurrent(sc, n) = NULL
           <=> \A k \in DOMAIN sc[Hash[n]] : ~FoundAt(sc[Hash[n]], n, k)
<1>1. CASE \E k \in DOMAIN sc[Hash[n]] : FoundAt(sc[Hash[n]], n, k)
  BY <1>1, LookupFound, NullAssumption
<1>2. CASE \A k \in DOMAIN sc[Hash[n]] : ~FoundAt(sc[Hash[n]], n, k)
  BY <1>2 DEF scopeLookupCurrent, hashName
<1> QED
  BY <1>1, <1>2

\* scopeLookupCurrent returns a symbol or NULL.
LEMMA LookupType ==
  ASSUME NEW sc \in ScopeType, NEW n \in Names
  PROVE  scopeLookupCurrent(sc, n) \in Symbols \cup {NULL}
BY LookupFound, LookupNull

\* In a good scope a lookup returns the symbol of any entry with the name.
LEMMA LookupEntry ==
  ASSUME NEW sc \in ScopeType, GoodScope(sc), NEW b \in Buckets, NEW j \in DOMAIN sc[b]
  PROVE  scopeLookupCurrent(sc, sc[b][j].name) = sc[b][j].symbol
<1>1. sc[b] \in Seq(Entry) /\ sc[b][j] \in Entry
  BY DEF ScopeType
<1>2. sc[b][j].name \in Names /\ Hash[sc[b][j].name] = b
  BY <1>1 DEF GoodScope, Entry
<1>3. FoundAt(sc[b], sc[b][j].name, j)
  BY <1>1 DEF GoodScope, FoundAt
<1> QED
  BY <1>2, <1>3, LookupFound

-----------------------------------------------------------------------------
(* Insertion at the head of a bucket, by scopeDeclare *)

\* The list that an insertion makes.
LEMMA ConsList ==
  ASSUME NEW old \in Seq(Entry), NEW e \in Entry
  PROVE  /\ <<e>> \o old \in Seq(Entry)
         /\ Len(old) \in Nat
         /\ DOMAIN old = 1 .. Len(old)
         /\ DOMAIN (<<e>> \o old) = 1 .. Len(old) + 1
         /\ (<<e>> \o old)[1] = e
         /\ \A k \in 1 .. Len(old) : (<<e>> \o old)[k + 1] = old[k]
         /\ \A k \in 2 .. Len(old) + 1 : (<<e>> \o old)[k] = old[k - 1]
OBVIOUS

\* A walk for the new name stops at the head.
LEMMA ConsFoundNew ==
  ASSUME NEW old \in Seq(Entry), NEW e \in Entry
  PROVE  FoundAt(<<e>> \o old, e.name, 1)
BY ConsList DEF FoundAt

\* A walk for another name stops one place later than before.
LEMMA ConsFoundOther ==
  ASSUME NEW old \in Seq(Entry), NEW e \in Entry, NEW m \in Names, m # e.name
  PROVE  /\ \A k \in DOMAIN old : FoundAt(old, m, k) => FoundAt(<<e>> \o old, m, k + 1)
         /\ \A k \in DOMAIN (<<e>> \o old) :
              FoundAt(<<e>> \o old, m, k) => k - 1 \in DOMAIN old /\ FoundAt(old, m, k - 1)
<1> DEFINE new == <<e>> \o old
<1>1. /\ Len(old) \in Nat
      /\ DOMAIN old = 1 .. Len(old)
      /\ DOMAIN new = 1 .. Len(old) + 1
      /\ new[1] = e
      /\ \A k \in 1 .. Len(old) : new[k + 1] = old[k]
      /\ \A k \in 2 .. Len(old) + 1 : new[k] = old[k - 1]
  BY ConsList
<1> HIDE DEF new
<1>2. ASSUME NEW k \in DOMAIN old, FoundAt(old, m, k) PROVE FoundAt(new, m, k + 1)
  <2>1. k + 1 \in DOMAIN new /\ new[k + 1].name = m
    BY <1>1, <1>2 DEF FoundAt
  <2>2. ASSUME NEW j \in 1 .. (k + 1) - 1 PROVE new[j].name # m
    <3>1. CASE j = 1
      BY <1>1, <3>1
    <3>2. CASE j # 1
      <4>1. j \in 2 .. Len(old) + 1 /\ j - 1 \in 1 .. k - 1
        BY <1>1, <3>2
      <4> QED
        BY <1>1, <1>2, <4>1 DEF FoundAt
    <3> QED
      BY <3>1, <3>2
  <2> QED
    BY <2>1, <2>2 DEF FoundAt
<1>3. ASSUME NEW k \in DOMAIN new, FoundAt(new, m, k)
      PROVE  k - 1 \in DOMAIN old /\ FoundAt(old, m, k - 1)
  <2>1. k # 1
    BY <1>1, <1>3 DEF FoundAt
  <2>2. k \in 2 .. Len(old) + 1 /\ k - 1 \in 1 .. Len(old)
    BY <1>1, <2>1
  <2>3. old[k - 1].name = m
    BY <1>1, <1>3, <2>2 DEF FoundAt
  <2>4. ASSUME NEW j \in 1 .. (k - 1) - 1 PROVE old[j].name # m
    <3>1. j + 1 \in 1 .. k - 1 /\ j \in 1 .. Len(old)
      BY <1>1, <2>2
    <3>2. new[j + 1].name # m
      BY <1>3, <3>1 DEF FoundAt
    <3> QED
      BY <1>1, <3>1, <3>2
  <2> QED
    BY <1>1, <2>2, <2>3, <2>4 DEF FoundAt
<1> QED
  BY <1>2, <1>3 DEF new

\* The scope that an insertion makes.
LEMMA InsertedScope ==
  ASSUME NEW sc \in ScopeType, NEW n \in Names, NEW s \in Symbols
  PROVE  /\ Inserted(sc, n, s) \in ScopeType
         /\ Inserted(sc, n, s)[Hash[n]] = <<[name |-> n, symbol |-> s]>> \o sc[Hash[n]]
         /\ \A b \in Buckets \ {Hash[n]} : Inserted(sc, n, s)[b] = sc[b]
         /\ Hash[n] \in Buckets
         /\ sc[Hash[n]] \in Seq(Entry)
         /\ [name |-> n, symbol |-> s] \in Entry
<1>1. /\ Hash[n] \in Buckets
      /\ sc[Hash[n]] \in Seq(Entry)
      /\ [name |-> n, symbol |-> s] \in Entry
  BY HashAssumption DEF ScopeType, Entry
<1>2. <<[name |-> n, symbol |-> s]>> \o sc[Hash[n]] \in Seq(Entry)
  BY <1>1, ConsList
<1> QED
  BY <1>1, <1>2 DEF Inserted, hashName, ScopeType

\* After a name was inserted it is found, and what was found of other names,
\* also of those in the same bucket, is found as before.
LEMMA InsertedLookup ==
  ASSUME NEW sc \in ScopeType, NEW n \in Names, NEW s \in Symbols, NEW m \in Names
  PROVE  scopeLookupCurrent(Inserted(sc, n, s), m)
           = IF m = n THEN s ELSE scopeLookupCurrent(sc, m)
<1> DEFINE new == Inserted(sc, n, s)
           e == [name |-> n, symbol |-> s]
           old == sc[Hash[n]]
<1>1. /\ new \in ScopeType
      /\ new[Hash[n]] = <<e>> \o old
      /\ \A b \in Buckets \ {Hash[n]} : new[b] = sc[b]
      /\ old \in Seq(Entry)
      /\ e \in Entry
  BY InsertedScope
<1>2. e.name = n /\ e.symbol = s /\ Hash[m] \in Buckets
  BY HashAssumption
<1>3. CASE m = n
  <2>1. FoundAt(new[Hash[n]], n, 1)
    BY <1>1, <1>2, ConsFoundNew
  <2>2. new[Hash[n]][1] = e
    BY <1>1, ConsList
  <2>3. scopeLookupCurrent(new, n) = new[Hash[n]][1].symbol
    BY <1>1, <2>1, LookupFound
  <2> QED
    BY <1>2, <1>3, <2>2, <2>3
<1>4. CASE m # n /\ Hash[m] # Hash[n]
  <2>1. new[Hash[m]] = sc[Hash[m]]
    BY <1>1, <1>2, <1>4
  <2> QED
    BY <1>4, <2>1 DEF scopeLookupCurrent, hashName
<1>5. CASE m # n /\ Hash[m] = Hash[n]
  <2> HIDE DEF new, e, old
  <2>1. /\ \A k \in DOMAIN old : FoundAt(old, m, k) => FoundAt(<<e>> \o old, m, k + 1)
        /\ \A k \in DOMAIN (<<e>> \o old) :
             FoundAt(<<e>> \o old, m, k) => k - 1 \in DOMAIN old /\ FoundAt(old, m, k - 1)
    BY <1>1, <1>2, <1>5, ConsFoundOther
  <2>2. /\ DOMAIN old = 1 .. Len(old)
        /\ \A k \in 1 .. Len(old) : (<<e>> \o old)[k + 1] = old[k]
    BY <1>1, ConsList
  <2>3. sc[Hash[m]] = old /\ new[Hash[m]] = <<e>> \o old
    BY <1>1, <1>5 DEF old
  <2>4. CASE \E k \in DOMAIN old : FoundAt(old, m, k)
    <3>1. PICK k \in DOMAIN old : FoundAt(old, m, k)
      BY <2>4
    <3>2. scopeLookupCurrent(sc, m) = old[k].symbol
      BY <2>3, <3>1, LookupFound
    <3>3. FoundAt(new[Hash[m]], m, k + 1)
      BY <2>1, <2>3, <3>1
    <3>4. scopeLookupCurrent(new, m) = new[Hash[m]][k + 1].symbol
      BY <1>1, <3>3, LookupFound
    <3> QED
      BY <1>5, <2>2, <2>3, <3>2, <3>4 DEF new
  <2>5. CASE \A k \in DOMAIN old : ~FoundAt(old, m, k)
    <3>1. scopeLookupCurrent(sc, m) = NULL
      BY <2>3, <2>5, LookupNull
    <3>2. scopeLookupCurrent(new, m) = NULL
      BY <1>1, <2>1, <2>3, <2>5, LookupNull
    <3> QED
      BY <1>5, <3>1, <3>2 DEF new
  <2> QED
    BY <2>4, <2>5
<1> QED
  BY <1>3, <1>4, <1>5

\* An insertion of a name that is not there keeps a scope good.
LEMMA InsertedGood ==
  ASSUME NEW sc \in ScopeType, NEW n \in Names, NEW s \in Symbols,
         GoodScope(sc), scopeLookupCurrent(sc, n) = NULL
  PROVE  GoodScope(Inserted(sc, n, s))
<1> DEFINE new == Inserted(sc, n, s)
           e == [name |-> n, symbol |-> s]
           old == sc[Hash[n]]
<1>1. /\ new[Hash[n]] = <<e>> \o old
      /\ \A b \in Buckets \ {Hash[n]} : new[b] = sc[b]
      /\ Hash[n] \in Buckets
      /\ old \in Seq(Entry)
      /\ e \in Entry
  BY InsertedScope
<1>2. \A k \in DOMAIN old : old[k].name # n
  <2> SUFFICES ASSUME NEW k \in DOMAIN old, old[k].name = n PROVE FALSE
    OBVIOUS
  <2>1. scopeLookupCurrent(sc, old[k].name) = old[k].symbol
    BY <1>1, LookupEntry
  <2>2. old[k] \in Entry
    BY <1>1
  <2>3. old[k].symbol \in Symbols
    BY <2>2 DEF Entry
  <2> QED
    BY <2>1, <2>3, NullAssumption
<1>3. \A k \in DOMAIN old :
        /\ Hash[old[k].name] = Hash[n]
        /\ \A i \in DOMAIN old : old[k].name = old[i].name => k = i
  BY <1>1 DEF GoodScope
<1>4. /\ Len(old) \in Nat
      /\ DOMAIN old = 1 .. Len(old)
      /\ DOMAIN (<<e>> \o old) = 1 .. Len(old) + 1
      /\ (<<e>> \o old)[1].name = n
      /\ \A k \in 2 .. Len(old) + 1 : (<<e>> \o old)[k] = old[k - 1]
  BY <1>1, ConsList
<1> SUFFICES ASSUME NEW b \in Buckets, NEW j \in DOMAIN new[b]
             PROVE  /\ Hash[new[b][j].name] = b
                    /\ \A k \in DOMAIN new[b] : new[b][j].name = new[b][k].name => j = k
  BY DEF GoodScope
<1> HIDE DEF new, old, e
<1>5. CASE b # Hash[n]
  BY <1>1, <1>5 DEF GoodScope
<1>6. CASE b = Hash[n]
  <2>1. \A k \in DOMAIN new[b] :
          k \in Nat /\ (k # 1 => k - 1 \in DOMAIN old /\ new[b][k] = old[k - 1])
    BY <1>1, <1>4, <1>6
  <2>2. new[b][1].name = n
    BY <1>1, <1>4, <1>6
  <2>3. Hash[new[b][j].name] = b
    BY <1>3, <1>6, <2>1, <2>2
  <2>4. ASSUME NEW k \in DOMAIN new[b], new[b][j].name = new[b][k].name PROVE j = k
    <3>1. CASE j = 1 \/ k = 1
      BY <1>2, <2>1, <2>2, <2>4, <3>1
    <3>2. CASE j # 1 /\ k # 1
      <4>1. j - 1 = k - 1
        BY <1>3, <2>1, <2>4, <3>2
      <4> QED
        BY <2>1, <4>1
    <3> QED
      BY <3>1, <3>2
  <2> QED
    BY <2>3, <2>4
<1> QED
  BY <1>5, <1>6

-----------------------------------------------------------------------------
(* The invariant *)

\* scopes is a sequence of scopes with a last one, the current scope.
LEMMA CurrentScope ==
  ASSUME IInv
  PROVE  /\ scopes \in Seq(ScopeType)
         /\ Len(scopes) \in Nat \ {0}
         /\ DOMAIN scopes = 1 .. Len(scopes)
         /\ Len(scopes) \in DOMAIN scopes
         /\ \A i \in DOMAIN scopes : scopes[i] \in ScopeType
         /\ Current \in ScopeType
         /\ GoodScope(Current)
<1>1. scopes \in Seq(ScopeType) /\ scopes # <<>>
  BY DEF IInv, TypeOK, ScopeType
<1>2. /\ Len(scopes) \in Nat \ {0}
      /\ DOMAIN scopes = 1 .. Len(scopes)
      /\ Len(scopes) \in DOMAIN scopes
      /\ \A i \in DOMAIN scopes : scopes[i] \in ScopeType
  BY <1>1
<1> QED
  BY <1>1, <1>2 DEF IInv, Current

\* scopeCreate makes a scope without symbols.
LEMMA EmptyScopeGood ==
  /\ EmptyScope \in ScopeType
  /\ GoodScope(EmptyScope)
  /\ \A n \in Names : scopeLookupCurrent(EmptyScope, n) = NULL
<1>1. EmptyScope \in ScopeType /\ \A b \in Buckets : EmptyScope[b] = <<>>
  BY DEF EmptyScope, ScopeType
<1>2. GoodScope(EmptyScope)
  BY <1>1 DEF GoodScope
<1>3. \A n \in Names : scopeLookupCurrent(EmptyScope, n) = NULL
  BY <1>1, HashAssumption DEF scopeLookupCurrent, hashName
<1> QED
  BY <1>1, <1>2, <1>3

\* A set of positions that is not empty has a last one, where the walk from the
\* current scope to its parents stops.
LEMMA LastExists ==
  ASSUME NEW N \in Nat, NEW S \in SUBSET (1 .. N), S # {}
  PROVE  \E i \in S : \A j \in S : j <= i
<1> DEFINE R == OpToRel(<, Nat)
           T == {N - i : i \in S}
<1>1. T \subseteq Nat /\ T # {}
  OBVIOUS
<1>2. IsWellFoundedOn(R, Nat)
  BY NatLessThanWellFounded
<1>3. \A x, y \in Nat : <<x, y>> \in R <=> x < y
  BY DEF OpToRel
<1> HIDE DEF R
<1>4. PICK x \in T : \A y \in T : ~(<<y, x>> \in R)
  BY <1>1, <1>2, WFMin
<1>5. PICK i \in S : x = N - i
  OBVIOUS
<1>6. ASSUME NEW j \in S PROVE j <= i
  <2>1. N - j \in T
    OBVIOUS
  <2>2. ~(N - j < N - i)
    BY <1>1, <1>3, <1>4, <1>5, <2>1
  <2> QED
    BY <2>2
<1> QED
  BY <1>6

\* What scopeLookup returns is what the innermost scope that has the name says.
LEMMA LookupInnermost ==
  ASSUME IInv, NEW n \in Names
  PROVE  \/ /\ \A i \in DOMAIN scopes : scopeLookupCurrent(scopes[i], n) = NULL
            /\ scopeLookup(n) = NULL
         \/ \E i \in DOMAIN scopes :
              /\ scopeLookupCurrent(scopes[i], n) # NULL
              /\ \A j \in i + 1 .. Len(scopes) : scopeLookupCurrent(scopes[j], n) = NULL
              /\ scopeLookup(n) = scopeLookupCurrent(scopes[i], n)
<1>1. CASE Declaring(n) = {}
  BY <1>1 DEF Declaring, scopeLookup
<1>2. CASE Declaring(n) # {}
  <2>1. \E i \in Declaring(n) : \A j \in Declaring(n) : j <= i
    BY <1>2, CurrentScope, LastExists DEF Declaring
  <2> DEFINE i == CHOOSE i \in Declaring(n) : \A j \in Declaring(n) : j <= i
  <2>2. i \in Declaring(n) /\ \A j \in Declaring(n) : j <= i
    BY <2>1
  <2> HIDE DEF i
  <2>3. /\ i \in DOMAIN scopes
        /\ scopeLookupCurrent(scopes[i], n) # NULL
        /\ \A j \in i + 1 .. Len(scopes) : scopeLookupCurrent(scopes[j], n) = NULL
    BY <2>2, CurrentScope DEF Declaring
  <2>4. scopeLookup(n) = scopeLookupCurrent(scopes[i], n)
    BY <1>2 DEF scopeLookup, i
  <2> QED
    BY <2>3, <2>4
<1> QED
  BY <1>1, <1>2

\* A declaration changes the current scope and no other.
LEMMA DeclareStep ==
  ASSUME IInv, NEW n \in Names, NEW s \in Symbols, scopeDeclare(n, s)
  PROVE  \/ /\ scopeLookupCurrent(Current, n) # NULL
            /\ scopes' = scopes /\ answer' = FALSE
         \/ /\ scopeLookupCurrent(Current, n) = NULL
            /\ scopes' = [scopes EXCEPT ![Len(scopes)] = Inserted(Current, n, s)]
            /\ answer' = TRUE
<1>1. CASE scopeLookupCurrent(Current, n) # NULL
  BY <1>1, Zenon DEF scopeDeclare
<1>2. CASE scopeLookupCurrent(Current, n) = NULL
  BY <1>2, Zenon DEF scopeDeclare
<1> QED
  BY <1>1, <1>2

\* scopeFree drops the last scope.
LEMMA ShorterSequence ==
  ASSUME NEW S, NEW q \in Seq(S), Len(q) > 1
  PROVE  LET r == SubSeq(q, 1, Len(q) - 1)
         IN  /\ r \in Seq(S) /\ r # <<>> /\ Len(r) = Len(q) - 1
             /\ DOMAIN r = 1 .. Len(q) - 1
             /\ \A i \in 1 .. Len(q) - 1 : r[i] = q[i]
<1> DEFINE r == SubSeq(q, 1, Len(q) - 1)
<1>1. r \in Seq(S)
  BY SubSeqProperties
<1>2. Len(r) = Len(q) - 1 /\ \A i \in 1 .. Len(q) - 1 : r[i] = q[1 + i - 1]
  BY SubSeqProperties
<1>3. \A i \in 1 .. Len(q) - 1 : r[i] = q[i]
  BY <1>2
<1> HIDE DEF r
<1>4. r # <<>> /\ DOMAIN r = 1 .. Len(q) - 1
  BY <1>1, <1>2
<1> QED
  BY <1>1, <1>2, <1>3, <1>4 DEF r

\* scopeCreate adds a scope.
LEMMA LongerSequence ==
  ASSUME NEW S, NEW q \in Seq(S), NEW e \in S
  PROVE  Append(q, e) = [i \in 1 .. Len(q) + 1 |-> IF i = Len(q) + 1 THEN e ELSE q[i]]
<1> DEFINE r == Append(q, e)
<1>1. /\ r \in Seq(S)
      /\ Len(r) = Len(q) + 1
      /\ \A i \in 1 .. Len(q) : r[i] = q[i]
      /\ r[Len(q) + 1] = e
  BY AppendProperties
<1> HIDE DEF r
<1>2. r = [i \in 1 .. Len(q) + 1 |-> r[i]]
  BY <1>1
<1>3. \A i \in 1 .. Len(q) + 1 : r[i] = IF i = Len(q) + 1 THEN e ELSE q[i]
  BY <1>1
<1> QED
  BY <1>2, <1>3 DEF r

\* Every step keeps the invariant.
LEMMA IInvStep ==
  ASSUME IInv, [Next]_vars
  PROVE  IInv'
<1>1. /\ scopes \in Seq(ScopeType)
      /\ Len(scopes) \in Nat \ {0}
      /\ DOMAIN scopes = 1 .. Len(scopes)
      /\ \A i \in DOMAIN scopes : scopes[i] \in ScopeType /\ GoodScope(scopes[i])
      /\ answer \in Symbols \cup {NULL} \cup BOOLEAN
  BY CurrentScope DEF IInv, TypeOK
<1> SUFFICES /\ scopes' \in Seq(ScopeType) /\ scopes' # <<>>
             /\ \A i \in DOMAIN scopes' : GoodScope(scopes'[i])
             /\ answer' \in Symbols \cup {NULL} \cup BOOLEAN
  BY DEF IInv, TypeOK, ScopeType
<1>2. CASE scopeCreate
  <2>1. scopes' = Append(scopes, EmptyScope) /\ answer' = NULL
    BY <1>2 DEF scopeCreate
  <2>2. /\ scopes' \in Seq(ScopeType) /\ scopes' # <<>>
        /\ DOMAIN scopes' = 1 .. Len(scopes) + 1
        /\ \A i \in 1 .. Len(scopes) : scopes'[i] = scopes[i]
        /\ scopes'[Len(scopes) + 1] = EmptyScope
    BY <1>1, <2>1, EmptyScopeGood
  <2>3. \A i \in DOMAIN scopes' : GoodScope(scopes'[i])
    BY <1>1, <2>2, EmptyScopeGood
  <2> QED
    BY <2>1, <2>2, <2>3
<1>3. CASE scopeFree
  <2>1. scopes' = SubSeq(scopes, 1, Len(scopes) - 1) /\ answer' = NULL /\ Len(scopes) > 1
    BY <1>3 DEF scopeFree
  <2>2. /\ scopes' \in Seq(ScopeType) /\ scopes' # <<>>
        /\ DOMAIN scopes' = 1 .. Len(scopes) - 1
        /\ \A i \in 1 .. Len(scopes) - 1 : scopes'[i] = scopes[i]
    BY <1>1, <2>1, ShorterSequence
  <2>3. \A i \in DOMAIN scopes' : GoodScope(scopes'[i])
    BY <1>1, <2>2
  <2> QED
    BY <2>1, <2>2, <2>3
<1>4. ASSUME NEW n \in Names, NEW s \in Symbols, scopeDeclare(n, s)
      PROVE  /\ scopes' \in Seq(ScopeType) /\ scopes' # <<>>
             /\ \A i \in DOMAIN scopes' : GoodScope(scopes'[i])
             /\ answer' \in Symbols \cup {NULL} \cup BOOLEAN
  <2>1. CASE scopes' = scopes /\ answer' = FALSE
    <3>1. scopes # <<>>
      BY <1>1
    <3>2. answer' \in BOOLEAN
      BY <2>1, Zenon
    <3> QED
      BY <1>1, <2>1, <3>1, <3>2
  <2>2. CASE /\ scopeLookupCurrent(Current, n) = NULL
             /\ scopes' = [scopes EXCEPT ![Len(scopes)] = Inserted(Current, n, s)]
             /\ answer' = TRUE
    <3>1. Inserted(Current, n, s) \in ScopeType /\ GoodScope(Inserted(Current, n, s))
      BY <2>2, CurrentScope, InsertedScope, InsertedGood
    <3>2. /\ scopes' \in Seq(ScopeType) /\ scopes' # <<>>
          /\ DOMAIN scopes' = DOMAIN scopes
          /\ \A i \in DOMAIN scopes :
               scopes'[i] = IF i = Len(scopes) THEN Inserted(Current, n, s) ELSE scopes[i]
      BY <1>1, <2>2, <3>1
    <3> QED
      BY <1>1, <2>2, <3>1, <3>2
  <2> QED
    BY <1>4, <2>1, <2>2, DeclareStep
<1>5. ASSUME NEW n \in Names, Lookup(n)
      PROVE  scopes' = scopes /\ answer' \in Symbols \cup {NULL}
  <2>1. scopes' = scopes /\ answer' = scopeLookup(n)
    BY <1>5 DEF Lookup
  <2>2. \A i \in DOMAIN scopes : scopeLookupCurrent(scopes[i], n) \in Symbols \cup {NULL}
    BY <1>1, LookupType
  <2> QED
    BY <2>1, <2>2, LookupInnermost
<1>6. CASE UNCHANGED vars
  BY <1>1, <1>6 DEF vars
<1> QED
  BY <1>1, <1>2, <1>3, <1>4, <1>5, <1>6 DEF Next

\* The initial scope is good.
LEMMA IInvInit == Init => IInv
<1> SUFFICES ASSUME Init PROVE IInv
  OBVIOUS
<1>1. /\ scopes = <<EmptyScope>> /\ answer = NULL
      /\ scopes \in Seq(ScopeType) /\ scopes # <<>> /\ DOMAIN scopes = {1} /\ scopes[1] = EmptyScope
  BY EmptyScopeGood DEF Init
<1> QED
  BY <1>1, EmptyScopeGood DEF IInv, TypeOK, ScopeType

\* In good scopes, walks over the buckets agree with lookups.
LEMMA GoodWalks == IInv => WalkMeetsEachNameOnce
<1> SUFFICES ASSUME IInv, NEW i \in DOMAIN scopes, NEW b \in Buckets, NEW c \in Buckets,
                    NEW j \in DOMAIN scopes[i][b], NEW k \in DOMAIN scopes[i][c]
             PROVE  /\ scopes[i][b][j].name = scopes[i][c][k].name => b = c /\ j = k
                    /\ scopeLookupCurrent(scopes[i], scopes[i][b][j].name) = scopes[i][b][j].symbol
  BY DEF WalkMeetsEachNameOnce
<1>1. scopes[i] \in ScopeType /\ GoodScope(scopes[i])
  BY CurrentScope DEF IInv
<1>2. scopeLookupCurrent(scopes[i], scopes[i][b][j].name) = scopes[i][b][j].symbol
  BY <1>1, LookupEntry
<1>3. ASSUME scopes[i][b][j].name = scopes[i][c][k].name PROVE b = c /\ j = k
  <2>1. b = c
    BY <1>1, <1>3 DEF GoodScope
  <2> QED
    BY <1>1, <1>3, <2>1 DEF GoodScope
<1> QED
  BY <1>2, <1>3

\* The variables of the symbol table keep their types (scope.c).
THEOREM TypeCorrect == Spec => []TypeOK
<1>1. IInv => TypeOK
  BY DEF IInv
<1> QED
  BY <1>1, IInvInit, IInvStep, PTL DEF Spec

\* A walk over the buckets of a scope meets every name once, with the symbol
\* that a lookup returns, whatever was declared in whatever order.
THEOREM WalksCorrect == Spec => []WalkMeetsEachNameOnce
BY IInvInit, IInvStep, GoodWalks, PTL DEF Spec

-----------------------------------------------------------------------------
(* The refinement *)

Maps == [i \in DOMAIN scopes |-> MapOf(scopes[i])]

\* The empty scope is the map without names.
LEMMA EmptyMap == MapOf(EmptyScope) = Env!Nothing
BY EmptyScopeGood DEF MapOf, Env!Nothing

\* A step of the table is a step of the nested maps.
LEMMA RefinementStep ==
  ASSUME IInv, [Next]_vars
  PROVE  [Env!Next]_(Env!vars)
<1>1. /\ scopes \in Seq(ScopeType)
      /\ Len(scopes) \in Nat \ {0}
      /\ DOMAIN scopes = 1 .. Len(scopes)
      /\ Len(scopes) \in DOMAIN scopes
      /\ \A i \in DOMAIN scopes : scopes[i] \in ScopeType
      /\ Current \in ScopeType
  BY CurrentScope
<1>2. /\ Maps \in Seq([Names -> Symbols \cup {NULL}])
      /\ Len(Maps) = Len(scopes)
      /\ DOMAIN Maps = 1 .. Len(scopes)
      /\ \A i \in 1 .. Len(scopes) : Maps[i] = MapOf(scopes[i])
  BY <1>1, LookupType DEF Maps, MapOf
<1>3. CASE scopeCreate
  <2>1. Len(scopes) < MaxScopes /\ scopes' = Append(scopes, EmptyScope) /\ answer' = NULL
    BY <1>3 DEF scopeCreate
  <2>2. /\ DOMAIN scopes' = 1 .. Len(scopes) + 1
        /\ \A i \in 1 .. Len(scopes) : scopes'[i] = scopes[i]
        /\ scopes'[Len(scopes) + 1] = EmptyScope
    BY <1>1, <2>1, EmptyScopeGood
  <2>3. Maps' = [i \in 1 .. Len(Maps) + 1 |->
                   IF i = Len(Maps) + 1 THEN Env!Nothing ELSE Maps[i]]
    <3>1. Maps' = [i \in 1 .. Len(Maps) + 1 |-> MapOf(scopes'[i])]
      BY <1>2, <2>2 DEF Maps
    <3>2. ASSUME NEW i \in 1 .. Len(Maps) + 1
          PROVE  MapOf(scopes'[i]) = IF i = Len(Maps) + 1 THEN Env!Nothing ELSE Maps[i]
      <4>1. CASE i = Len(Maps) + 1
        BY <1>2, <2>2, <4>1, EmptyMap
      <4>2. CASE i # Len(Maps) + 1
        <5>1. i \in 1 .. Len(scopes)
          BY <1>1, <1>2, <4>2
        <5> QED
          BY <1>2, <2>2, <4>2, <5>1
      <4> QED
        BY <4>1, <4>2
    <3> QED
      BY <3>1, <3>2
  <2>4. Maps' = Append(Maps, Env!Nothing)
    <3>1. Env!Nothing \in [Names -> Symbols \cup {NULL}]
      BY DEF Env!Nothing
    <3> QED
      BY <1>2, <2>3, <3>1, LongerSequence
  <2> QED
    BY <1>2, <2>1, <2>4 DEF Env!Next, Env!Enter, Maps
<1>4. CASE scopeFree
  <2>1. /\ Len(scopes) > 1
        /\ scopes' = SubSeq(scopes, 1, Len(scopes) - 1)
        /\ answer' = NULL
    BY <1>4 DEF scopeFree
  <2>2. /\ DOMAIN scopes' = 1 .. Len(scopes) - 1
        /\ \A i \in 1 .. Len(scopes) - 1 : scopes'[i] = scopes[i]
    BY <1>1, <2>1, ShorterSequence
  <2>3. /\ DOMAIN Maps' = 1 .. Len(scopes) - 1
        /\ \A i \in 1 .. Len(scopes) - 1 : Maps'[i] = Maps[i]
    BY <1>1, <1>2, <2>2 DEF Maps
  <2>4. Maps' = SubSeq(Maps, 1, Len(Maps) - 1)
    <3>1. /\ DOMAIN SubSeq(Maps, 1, Len(Maps) - 1) = 1 .. Len(scopes) - 1
          /\ \A i \in 1 .. Len(scopes) - 1 : SubSeq(Maps, 1, Len(Maps) - 1)[i] = Maps[i]
          /\ SubSeq(Maps, 1, Len(Maps) - 1) \in Seq([Names -> Symbols \cup {NULL}])
      BY <1>2, <2>1, ShorterSequence
    <3>2. SubSeq(Maps, 1, Len(Maps) - 1)
            = [i \in 1 .. Len(scopes) - 1 |-> Maps[i]]
      BY <3>1
    <3>3. Maps' = [i \in 1 .. Len(scopes) - 1 |-> Maps[i]]
      BY <2>3 DEF Maps
    <3> QED
      BY <3>2, <3>3
  <2> QED
    BY <1>2, <2>1, <2>4 DEF Env!Next, Env!Leave, Maps
<1>5. ASSUME NEW n \in Names, NEW s \in Symbols, scopeDeclare(n, s)
      PROVE  Env!Declare(n, s)
  <2>1. Maps[Len(Maps)][n] = scopeLookupCurrent(Current, n)
    BY <1>1, <1>2 DEF MapOf, Current
  <2>2. CASE scopeLookupCurrent(Current, n) # NULL /\ scopes' = scopes /\ answer' = FALSE
    <3>1. Maps' = Maps
      BY <2>2 DEF Maps
    <3> QED
      BY <2>1, <2>2, <3>1, Zenon DEF Env!Declare, Maps
  <2>3. CASE /\ scopeLookupCurrent(Current, n) = NULL
             /\ scopes' = [scopes EXCEPT ![Len(scopes)] = Inserted(Current, n, s)]
             /\ answer' = TRUE
    <3>1. /\ DOMAIN scopes' = DOMAIN scopes
          /\ scopes'[Len(scopes)] = Inserted(Current, n, s)
          /\ \A i \in DOMAIN scopes : i # Len(scopes) => scopes'[i] = scopes[i]
      BY <1>1, <2>3
    <3>2. MapOf(Inserted(Current, n, s)) = [MapOf(Current) EXCEPT ![n] = s]
      <4>1. \A m \in Names : scopeLookupCurrent(Inserted(Current, n, s), m)
                               = IF m = n THEN s ELSE scopeLookupCurrent(Current, m)
        BY <1>1, InsertedLookup
      <4> QED
        BY <4>1 DEF MapOf
    <3>3. Maps' = [Maps EXCEPT ![Len(Maps)][n] = s]
      BY <1>1, <1>2, <3>1, <3>2 DEF Maps, Current
    <3> QED
      BY <2>1, <2>3, <3>3, Zenon DEF Env!Declare, Maps
  <2> QED
    BY <1>5, <2>2, <2>3, DeclareStep
<1>6. ASSUME NEW n \in Names, Lookup(n)
      PROVE  Env!Lookup(n)
  <2>1. Maps' = Maps /\ answer' = scopeLookup(n)
    BY <1>6 DEF Lookup, Maps
  <2>2. \A i \in 1 .. Len(scopes) : Maps[i][n] = scopeLookupCurrent(scopes[i], n)
    BY <1>2 DEF MapOf
  <2>3. \/ /\ \A i \in 1 .. Len(Maps) : Maps[i][n] = NULL
           /\ answer' = NULL
        \/ \E i \in 1 .. Len(Maps) :
             /\ Maps[i][n] # NULL
             /\ \A j \in i + 1 .. Len(Maps) : Maps[j][n] = NULL
             /\ answer' = Maps[i][n]
    BY <1>1, <1>2, <2>1, <2>2, LookupInnermost
  <2> QED
    BY <2>1, <2>3 DEF Env!Lookup, Maps
<1>7. CASE UNCHANGED vars
  BY <1>7 DEF vars, Env!vars
<1> QED
  BY <1>3, <1>4, <1>5, <1>6, <1>7 DEF Next, Env!Next

\* The hash table implements nested maps: for every hash function, however
\* names fall into buckets, each operation of scope.c answers as it does on maps.
THEOREM TableImplementsMaps == Spec => Implements
<1>1. Init => Env!Init
  <2> SUFFICES ASSUME Init PROVE Env!Init
    OBVIOUS
  <2>1. scopes = <<EmptyScope>> /\ answer = NULL
    BY DEF Init
  <2>2. [i \in DOMAIN scopes |-> MapOf(scopes[i])] = <<Env!Nothing>>
    BY <2>1, EmptyMap
  <2> QED
    BY <2>1, <2>2 DEF Env!Init
<1> QED
  BY <1>1, IInvInit, IInvStep, RefinementStep, PTL DEF Spec, Implements, Env!Spec
=============================================================================
