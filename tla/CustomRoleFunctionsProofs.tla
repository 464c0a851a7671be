--------------------- MODULE CustomRoleFunctionsProofs ---------------------
(***************************************************************************)
(* Theorems about the functions of custom roles, for all values of the     *)
(* constants of CustomRoleDatabase: none is left open to everybody, a call *)
(* about one role leaves the functions of others alone, and a call that    *)
(* succeeds leaves exactly the functions that were asked for.              *)
(***************************************************************************)
EXTENDS CustomRoleDatabaseProofs, SequenceTheorems, FiniteSetTheorems

USE DEF session, objects, grantLocals, grantVars, functionLocals, functionVars, resources, Syncing

-----------------------------------------------------------------------------
(* Texts.                                                                  *)

\* A part of a text.
LEMMA SubText ==
    ASSUME NEW C, NEW s \in Seq(C), NEW m \in Nat, NEW n \in Nat, 1 <= m, m <= n + 1, n <= Len(s)
    PROVE  /\ SubSeq(s, m, n) \in Seq(C) /\ Len(SubSeq(s, m, n)) = n - m + 1
           /\ \A i \in 1..(n - m + 1) : SubSeq(s, m, n)[i] = s[m + i - 1]
<1>1. \A i \in m..n : s[i] \in C
  OBVIOUS
<1>2. m \in Int /\ n \in Int
  OBVIOUS
<1>3. /\ SubSeq(s, m, n) \in Seq(C)
      /\ Len(SubSeq(s, m, n)) = IF m <= n THEN n - m + 1 ELSE 0
      /\ \A i \in 1..(n - m + 1) : SubSeq(s, m, n)[i] = s[m + i - 1]
  BY <1>1, <1>2, SubSeqProperties
<1>4. QED BY <1>3

\* What follows the first k characters.
LEMMA RestOfText ==
    ASSUME NEW C, NEW s \in Seq(C), NEW k \in Nat, k <= Len(s)
    PROVE  /\ SubSeq(s, k + 1, Len(s)) \in Seq(C) /\ Len(SubSeq(s, k + 1, Len(s))) = Len(s) - k
           /\ \A i \in 1..(Len(s) - k) : SubSeq(s, k + 1, Len(s))[i] = s[k + i]
<1>1. PICK m \in Nat : m = k + 1
  OBVIOUS
<1>2. PICK n \in Nat : n = Len(s)
  OBVIOUS
<1>3. 1 <= m /\ m <= n + 1 /\ n <= Len(s) /\ n - m + 1 = n - k
  BY <1>1, <1>2
<1>4. /\ SubSeq(s, m, n) \in Seq(C) /\ Len(SubSeq(s, m, n)) = n - k
      /\ \A i \in 1..(n - k) : SubSeq(s, m, n)[i] = s[m + i - 1]
  BY <1>3, SubText
<1>5. \A i \in 1..(n - k) : m + i - 1 = k + i
  BY <1>1
<1>6. /\ SubSeq(s, m, n) \in Seq(C) /\ Len(SubSeq(s, m, n)) = n - k
      /\ \A i \in 1..(n - k) : SubSeq(s, m, n)[i] = s[k + i]
  BY <1>4, <1>5
<1>7. QED BY <1>1, <1>2, <1>6

\* One text after another.
LEMMA JoinedText ==
    ASSUME NEW C, NEW r \in Seq(C), NEW t \in Seq(C)
    PROVE  /\ r \o t \in Seq(C) /\ Len(r \o t) = Len(r) + Len(t)
           /\ \A i \in 1..Len(r) : (r \o t)[i] = r[i]
           /\ \A i \in 1..Len(t) : (r \o t)[Len(r) + i] = t[i]
<1>1. Len(r) \in Nat /\ Len(t) \in Nat
  OBVIOUS
<1>2. /\ r \o t \in Seq(C) /\ Len(r \o t) = Len(r) + Len(t)
      /\ \A i \in 1..(Len(r) + Len(t)) : (r \o t)[i] = IF i <= Len(r) THEN r[i] ELSE t[i - Len(r)]
  BY ConcatProperties
<1>3. \A i \in 1..Len(r) : (r \o t)[i] = r[i]
  BY <1>1, <1>2
<1>4. ASSUME NEW i \in 1..Len(t) PROVE (r \o t)[Len(r) + i] = t[i]
  <2>1. Len(r) + i \in 1..(Len(r) + Len(t)) /\ ~(Len(r) + i <= Len(r)) /\ (Len(r) + i) - Len(r) = i
    BY <1>1
  <2>2. QED BY <1>2, <2>1
<1>5. QED BY <1>2, <1>3, <1>4

\* Two characters in a row.
LEMMA PairParts ==
    ASSUME NEW C, NEW s \in Seq(C), NEW i \in 1..(Len(s) - 1), NEW a \in C, NEW b \in C
    PROVE  SubSeq(s, i, i + 1) = <<a, b>> <=> s[i] = a /\ s[i + 1] = b
<1> DEFINE t == SubSeq(s, i, i + 1)
<1>1. Len(s) \in Nat /\ i \in Nat /\ i + 1 \in Nat /\ 1 <= i /\ i <= (i + 1) + 1 /\ i + 1 <= Len(s)
  OBVIOUS
<1>2. t \in Seq(C) /\ Len(t) = (i + 1) - i + 1
      /\ \A j \in 1..((i + 1) - i + 1) : t[j] = s[i + j - 1]
  BY <1>1, SubText
<1>3. (i + 1) - i + 1 = 2 /\ i + 1 - 1 = i /\ i + 2 - 1 = i + 1 /\ 1 \in 1..2 /\ 2 \in 1..2
  BY <1>1
<1>4. Len(t) = 2 /\ t[1] = s[i] /\ t[2] = s[i + 1]
  <2> HIDE DEF t
  <2>1. QED BY <1>2, <1>3
<1>5. <<a, b>> \in Seq(C) /\ Len(<<a, b>>) = 2 /\ <<a, b>>[1] = a /\ <<a, b>>[2] = b
  OBVIOUS
<1>6. ASSUME s[i] = a, s[i + 1] = b PROVE t = <<a, b>>
  <2>1. \A j \in 1..2 : t[j] = <<a, b>>[j]
    BY <1>4, <1>5, <1>6
  <2>2. QED BY <1>2, <1>4, <1>5, <2>1, SeqEqual
<1> HIDE DEF t
<1>7. t = <<a, b>> => s[i] = a /\ s[i + 1] = b
  BY <1>4, <1>5
<1>8. QED BY <1>6, <1>7 DEF t

-----------------------------------------------------------------------------
(* Names.                                                                  *)

\* Names that managedFunctions(r) lists, character by character.
managedParts(r, n) ==
    /\ Len(n) >= Len(r) + 2 /\ \A i \in 1..Len(r) : n[i] = r[i]
    /\ n[Len(r) + 1] = underscore /\ n[Len(r) + 2] = underscore
    /\ \A i \in (Len(r) + 3)..(Len(n) - 1) : ~(n[i] = underscore /\ n[i + 1] = underscore)

\* The separator between the name of a role and that of a function.
LEMMA SeparatorParts ==
    /\ separator \in Seq(Characters) /\ Len(separator) = 2
    /\ separator[1] = underscore /\ separator[2] = underscore /\ underscore \in Characters
<1>1. underscore \in Characters
  BY FunctionsAssumption
<1>2. <<underscore, underscore>> \in Seq(Characters)
  BY <1>1, PairIsText
<1>3. QED BY <1>1, <1>2 DEF separator

\* The prefix of a role.
LEMMA PrefixParts ==
    ASSUME NEW r \in Seq(Characters)
    PROVE  /\ managedFunctionPrefix(r) \in Seq(Characters)
           /\ Len(managedFunctionPrefix(r)) = Len(r) + 2
           /\ \A i \in 1..Len(r) : managedFunctionPrefix(r)[i] = r[i]
           /\ managedFunctionPrefix(r)[Len(r) + 1] = underscore /\ managedFunctionPrefix(r)[Len(r) + 2] = underscore
<1>1. 1 \in 1..Len(separator) /\ 2 \in 1..Len(separator)
  BY SeparatorParts
<1>2. QED BY <1>1, SeparatorParts, JoinedText DEF managedFunctionPrefix

\* The condition of the query, character by character.
LEMMA ManagedParts ==
    ASSUME NEW r \in Seq(Characters), NEW n \in Seq(Characters), isManaged(r, n)
    PROVE  managedParts(r, n)
<1>0. PICK prefix : prefix = managedFunctionPrefix(r)
  OBVIOUS
<1>1. PICK k : k = Len(prefix)
  OBVIOUS
<1>2. /\ k = Len(r) + 2 /\ k \in Nat /\ Len(n) \in Nat /\ Len(r) \in Nat /\ prefix \in Seq(Characters)
      /\ \A i \in 1..Len(r) : prefix[i] = r[i]
      /\ prefix[Len(r) + 1] = underscore /\ prefix[Len(r) + 2] = underscore
  <2>1. Len(r) \in Nat /\ Len(n) \in Nat
    OBVIOUS
  <2>2. /\ prefix \in Seq(Characters) /\ Len(prefix) = Len(r) + 2
        /\ \A i \in 1..Len(r) : prefix[i] = r[i]
        /\ prefix[Len(r) + 1] = underscore /\ prefix[Len(r) + 2] = underscore
    BY <1>0, PrefixParts
  <2>3. QED BY <1>1, <2>1, <2>2
<1>3. PICK rest : rest = SubSeq(n, k + 1, Len(n))
  OBVIOUS
<1>4. k <= Len(n) /\ SubSeq(prefix, 1, k) = SubSeq(n, 1, k) /\ ~pairIn(rest, separator)
  BY <1>0, <1>1, <1>3 DEF isManaged, IsPrefix
<1>5. \A i \in 1..k : n[i] = prefix[i]
  <2> SUFFICES ASSUME NEW i \in 1..k PROVE n[i] = prefix[i]
    OBVIOUS
  <2>1. 1 \in Nat /\ 1 <= 1 /\ 1 <= k + 1 /\ k <= Len(prefix) /\ i \in 1..(k - 1 + 1) /\ 1 + i - 1 = i
    BY <1>1, <1>2
  <2>2. SubSeq(prefix, 1, k)[i] = prefix[1 + i - 1]
    BY <1>2, <2>1, SubText
  <2>3. SubSeq(n, 1, k)[i] = n[1 + i - 1]
    BY <1>2, <1>4, <2>1, SubText
  <2>4. QED BY <1>4, <2>1, <2>2, <2>3
<1>6. \A i \in 1..Len(r) : n[i] = r[i]
  BY <1>2, <1>5
<1>7. n[Len(r) + 1] = underscore /\ n[Len(r) + 2] = underscore
  BY <1>2, <1>5
<1>8. ASSUME NEW i \in (Len(r) + 3)..(Len(n) - 1) PROVE ~(n[i] = underscore /\ n[i + 1] = underscore)
  <2>2. /\ rest \in Seq(Characters) /\ Len(rest) = Len(n) - k
        /\ \A j \in 1..(Len(n) - k) : rest[j] = n[k + j]
    BY <1>2, <1>3, <1>4, RestOfText
  <2>4. PICK j \in Nat : j = i - k
    <3>1. i - k \in Nat
      BY <1>2
    <3>2. QED BY <3>1
  <2>5. j \in 1..(Len(rest) - 1) /\ j + 1 \in 1..(Len(n) - k) /\ j \in 1..(Len(n) - k)
    BY <1>2, <2>2, <2>4
  <2>6. k + j = i /\ k + (j + 1) = i + 1
    BY <1>2, <2>4
  <2>7. rest[j] = n[i] /\ rest[j + 1] = n[i + 1]
    BY <2>2, <2>5, <2>6
  <2>8. SubSeq(rest, j, j + 1) # separator
    BY <1>4, <2>5 DEF pairIn
  <2>9. QED BY <2>2, <2>5, <2>7, <2>8, PairParts, SeparatorParts DEF separator
<1>9. QED BY <1>2, <1>4, <1>6, <1>7, <1>8 DEF managedParts

\* The full name of a function whose own name is without the separator is listed.
LEMMA OwnNameManaged ==
    ASSUME NEW r \in Seq(Characters), NEW n \in Seq(Characters), ~pairIn(n, separator)
    PROVE  isManaged(r, managedFunctionName(r, n))
<1>0. PICK prefix : prefix = managedFunctionPrefix(r)
  OBVIOUS
<1>1. PICK k : k = Len(prefix)
  OBVIOUS
<1>2. prefix \in Seq(Characters) /\ k \in Nat /\ Len(n) \in Nat
  BY <1>0, <1>1, PrefixParts
<1> DEFINE name == managedFunctionName(r, n)
<1>3. /\ name = prefix \o n /\ name \in Seq(Characters) /\ Len(name) = k + Len(n)
      /\ \A i \in 1..k : name[i] = prefix[i]
      /\ \A i \in 1..Len(n) : name[k + i] = n[i]
  BY <1>0, <1>1, <1>2, JoinedText DEF managedFunctionName
<1> HIDE DEF name
<1>4. SubSeq(prefix, 1, k) = SubSeq(name, 1, k)
  <2>1. 1 <= 1 /\ 1 <= k + 1 /\ k <= Len(prefix) /\ k <= Len(name) /\ k - 1 + 1 = k
    BY <1>1, <1>2, <1>3
  <2>2. /\ SubSeq(prefix, 1, k) \in Seq(Characters) /\ Len(SubSeq(prefix, 1, k)) = k
        /\ \A i \in 1..k : SubSeq(prefix, 1, k)[i] = prefix[1 + i - 1]
    BY <1>2, <2>1, SubText
  <2>3. /\ SubSeq(name, 1, k) \in Seq(Characters) /\ Len(SubSeq(name, 1, k)) = k
        /\ \A i \in 1..k : SubSeq(name, 1, k)[i] = name[1 + i - 1]
    BY <1>2, <1>3, <2>1, SubText
  <2>4. \A i \in 1..k : 1 + i - 1 = i
    BY <1>2
  <2>5. \A i \in 1..k : SubSeq(prefix, 1, k)[i] = SubSeq(name, 1, k)[i]
    BY <1>3, <2>2, <2>3, <2>4
  <2>6. QED BY <2>2, <2>3, <2>5, SeqEqual
<1>5. SubSeq(name, k + 1, Len(name)) = n
  <2>1. k <= Len(name) /\ Len(name) - k = Len(n)
    BY <1>2, <1>3
  <2>2. PICK rest : rest = SubSeq(name, k + 1, Len(name))
    OBVIOUS
  <2>3. /\ rest \in Seq(Characters) /\ Len(rest) = Len(n)
        /\ \A i \in 1..Len(n) : rest[i] = name[k + i]
    BY <1>2, <1>3, <2>1, <2>2, RestOfText
  <2>5. \A i \in 1..Len(n) : rest[i] = n[i]
    BY <1>3, <2>3
  <2>6. QED BY <2>2, <2>3, <2>5, SeqEqual
<1>6. IsPrefix(prefix, name)
  BY <1>1, <1>2, <1>3, <1>4 DEF IsPrefix
<1>7. ~pairIn(SubSeq(name, Len(prefix) + 1, Len(name)), separator)
  BY <1>1, <1>5
<1>8. QED BY <1>0, <1>6, <1>7 DEF isManaged, name

\* A name is listed for one role only, but for roles whose names differ by an underscore.
LEMMA OneRoleOfName ==
    ASSUME NEW r1 \in Roles, NEW r2 \in Roles, NEW n \in Seq(Characters),
           isManaged(r1, n), isManaged(r2, n), ~clash(r1, r2)
    PROVE  r1 = r2
<1>1. r1 \in Seq(Characters) /\ r2 \in Seq(Characters)
  BY FunctionsAssumption
<1>2. managedParts(r1, n) /\ managedParts(r2, n)
  BY <1>1, ManagedParts
<1>3. ASSUME NEW a \in Roles, NEW b \in Roles, a \in Seq(Characters), b \in Seq(Characters),
             managedParts(a, n), managedParts(b, n), b # a \o <<underscore>>
      PROVE  ~(Len(a) < Len(b))
  <2> SUFFICES ASSUME Len(a) < Len(b) PROVE FALSE
    OBVIOUS
  <2>1. Len(a) \in Nat /\ Len(b) \in Nat /\ Len(n) \in Nat
    BY <1>3
  <2>2. Len(b) + 2 <= Len(n) /\ n[Len(b) + 1] = underscore /\ n[Len(b) + 2] = underscore
    BY <1>3, <2>1 DEF managedParts
  <2>3. CASE Len(b) >= Len(a) + 2
    <3>1. Len(b) + 1 \in (Len(a) + 3)..(Len(n) - 1) /\ (Len(b) + 1) + 1 = Len(b) + 2
      BY <2>1, <2>2, <2>3
    <3>2. ~(n[Len(b) + 1] = underscore /\ n[(Len(b) + 1) + 1] = underscore)
      BY <1>3, <3>1 DEF managedParts
    <3>3. QED BY <2>2, <3>1, <3>2
  <2>4. CASE Len(b) = Len(a) + 1
    <3>1. /\ \A i \in 1..Len(a) : n[i] = a[i]
          /\ \A i \in 1..Len(b) : n[i] = b[i]
          /\ n[Len(a) + 1] = underscore
      BY <1>3 DEF managedParts
    <3>2. \A i \in 1..Len(a) : b[i] = a[i]
      BY <2>1, <2>4, <3>1
    <3>3. b[Len(a) + 1] = underscore
      BY <2>1, <2>4, <3>1
    <3>4. <<underscore>> \in Seq(Characters) /\ Len(<<underscore>>) = 1 /\ <<underscore>>[1] = underscore
      <4>1. underscore \in Characters
        BY SeparatorParts
      <4>2. QED BY <4>1
    <3>5. PICK c : c = a \o <<underscore>>
      OBVIOUS
    <3>6. c \in Seq(Characters) /\ Len(c) = Len(a) + 1
          /\ (\A i \in 1..Len(a) : c[i] = a[i]) /\ c[Len(a) + 1] = underscore
      BY <1>3, <3>4, <3>5, JoinedText
    <3>7. \A i \in 1..Len(b) : b[i] = c[i]
      BY <2>1, <2>4, <3>2, <3>3, <3>6
    <3>8. b = c
      BY <1>3, <2>4, <3>6, <3>7, SeqEqual
    <3>9. QED BY <1>3, <3>5, <3>8
  <2>5. QED BY <2>1, <2>3, <2>4
<1>4. Len(r1) = Len(r2)
  <2>1. ~(Len(r1) < Len(r2)) /\ ~(Len(r2) < Len(r1))
    BY <1>1, <1>2, <1>3 DEF clash
  <2>2. Len(r1) \in Nat /\ Len(r2) \in Nat
    BY <1>1
  <2>3. QED BY <2>1, <2>2
<1>5. \A i \in 1..Len(r1) : r1[i] = r2[i]
  BY <1>2, <1>4 DEF managedParts
<1>6. QED BY <1>1, <1>4, <1>5, SeqEqual

-----------------------------------------------------------------------------
(* Whose functions there are, made inductive.                              *)

\* PostgreSQL has one function of a name and of argument types.
UniqueInv ==
    \A i, j \in DOMAIN procs : same(procs[i], procs[j].name, procs[j].args) => i = j

\* A role may only execute functions of its own name.
ExecInv == \A i \in DOMAIN procs : \A r \in procs[i].execs : isManaged(r, procs[i].name)

\* A call deals with functions of its own role only: those it has listed, and those
\* that are asked for, whose names have been validated.
OwnInv ==
    /\ pc \in Syncing \cup {"dropping"} => \A p \in listed : isManaged(role, p.name)
    /\ pc \in Syncing =>
          /\ Range(left) \subseteq Range(functions)
          /\ \A fn \in Range(functions) : validateFunction(fn)
          /\ \A n \in DOMAIN currentOwner : \E p \in listed : p.name = n /\ p.owner = currentOwner[n]
    /\ pc = "stale" => left = <<>>

-----------------------------------------------------------------------------
(* PublicShutOut, made inductive.                                          *)

key(p) == <<p.name, p.args>>

\* What the call has listed, and neither kept nor dropped yet.
pending == {key(p) : p \in listed} \ dealtWith

\* No function of that name is newer.
isNewest(i) == \A j \in DOMAIN procs : procs[j].name = procs[i].name => j <= i

\* A function of the role that is open to everybody is still to be dealt with, or is
\* the one in hand.
PublicInv ==
    /\ pc \in Syncing =>
          \A i \in DOMAIN procs : isManaged(role, procs[i].name) /\ procs[i].public =>
              \/ key(procs[i]) \in pending
              \/ pc = "lookup" /\ procs[i].name = pgName /\ isNewest(i)
              \/ pc = "revoke" /\ inHand(procs[i])
    /\ pc = "execute" => \A i \in DOMAIN procs : inHand(procs[i]) => ~procs[i].public

-----------------------------------------------------------------------------
(* FunctionsSynced, made inductive.                                        *)

\* A function as it is asked for, and one as it is found.
want(fn) ==
    [name |-> managedFunctionName(role, fn.name), args |-> fn.args, returns |-> fn.returns,
     body |-> fn.body, owner |-> ownerOf(fn)]
fields(p) ==
    [name |-> p.name, args |-> p.args, returns |-> p.returns, body |-> p.body, owner |-> p.owner]

Distinct == distinctNames(asked) /\ distinctNames(listed)

\* Every function of the role is still to be dealt with or is as asked for.
Explained ==
    \A i \in DOMAIN procs : isManaged(role, procs[i].name) =>
        key(procs[i]) \in pending \/ fields(procs[i]) \in asked

\* Of two functions of one name the newer one is as asked for.
NewerAsked ==
    \A i, j \in DOMAIN procs :
        isManaged(role, procs[i].name) /\ procs[i].name = procs[j].name /\ i < j =>
            fields(procs[j]) \in asked

\* A function that was listed is still there, unless it is asked for with another owner.
ListedKept ==
    \A p \in listed :
        \/ \E i \in DOMAIN procs : key(procs[i]) = key(p) /\ procs[i].owner = p.owner
        \/ \A a \in asked : a.name = p.name => a.owner # p.owner

\* Dropping one that was listed drops no other: that is the function itself, or belongs to
\* somebody else.
ListedAlone ==
    \A p \in listed : \A i \in DOMAIN procs :
        same(procs[i], p.name, p.args) => procs[i].args = p.args \/ procs[i].owner # p.owner

\* The function is there as asked for, and will stay.
settled(a) ==
    /\ <<a.name, a.args>> \in dealtWith
    /\ \E i \in DOMAIN procs : fields(procs[i]) = a /\ ~procs[i].public /\ role \in procs[i].execs

AskedSettled == \A fn \in Range(functions) : fn \in Range(left) \/ settled(want(fn))

\* The function in hand is there, and lookups by its name find it.
InHandCreated ==
    /\ pc = "lookup" => \E i \in DOMAIN procs : fields(procs[i]) = want(f) /\ isNewest(i)
    /\ pc \in {"revoke", "execute"} =>
          /\ identity = f.args
          /\ \E i \in DOMAIN procs :
                fields(procs[i]) = want(f) /\ (pc = "execute" => ~procs[i].public)

SyncedParts ==
    /\ Explained /\ NewerAsked /\ (pc # "stale" => ListedKept) /\ ListedAlone
    /\ AskedSettled /\ InHandCreated

SyncedInv == pc \in Syncing /\ Distinct => SyncedParts

-----------------------------------------------------------------------------
(* What the statements do to the catalog.                                  *)

FunctionsInv == UniqueInv /\ ExecInv /\ OwnInv

\* The functions asked for, one by one.
LEMMA AskedIsWanted == asked = {want(fn) : fn \in Range(functions)}
BY DEF asked, want, Range

\* The function in hand is asked for, under a name of the role.
LEMMA HandParts ==
    ASSUME TypeInv, OwnInv, pc \in Syncing, left # <<>>
    PROVE  /\ role \in Roles /\ f \in Functions /\ f \in Range(functions)
           /\ pgName \in Seq(Characters) /\ isManaged(role, pgName) /\ want(f) \in asked
           /\ want(f).name = pgName /\ want(f).args = f.args /\ want(f).returns = f.returns
           /\ want(f).body = f.body /\ want(f).owner = owner
<1>1. role \in Roles /\ FunctionsTypeOK /\ left \in Seq(Functions)
  BY DEF TypeInv, Typed, CallInv, FunctionsTypeOK
<1>2. f \in Functions /\ pgName \in Seq(Characters)
  BY <1>1, InHandType
<1>3. f \in Range(left)
  BY <1>1 DEF f, Range
<1>4. f \in Range(functions) /\ ~pairIn(f.name, separator)
  BY <1>3 DEF OwnInv, validateFunction
<1>5. role \in Seq(Characters) /\ f.name \in Seq(Characters)
  BY <1>1, <1>2, FunctionsAssumption DEF Functions
<1>6. isManaged(role, pgName)
  BY <1>4, <1>5, OwnNameManaged DEF pgName
<1>7. want(f) \in asked
  BY <1>4, AskedIsWanted
<1>8. QED BY <1>1, <1>2, <1>4, <1>6, <1>7 DEF want, pgName, owner

\* The functions in the catalog, and the same function with one field changed.
LEMMA ProcParts ==
    ASSUME NEW p \in ManagedProcs, NEW b, NEW rs
    PROVE  /\ p.name \in Seq(Characters) /\ p.args \in Args /\ p.execs \subseteq Roles
           /\ p.public \in BOOLEAN
           /\ \A q : q = [p EXCEPT !.body = b] =>
                 /\ q.name = p.name /\ q.args = p.args /\ q.returns = p.returns /\ q.body = b
                 /\ q.owner = p.owner /\ q.public = p.public /\ q.execs = p.execs
           /\ \A q : q = [p EXCEPT !.public = FALSE] =>
                 /\ q.name = p.name /\ q.args = p.args /\ q.returns = p.returns /\ q.body = p.body
                 /\ q.owner = p.owner /\ q.public = FALSE /\ q.execs = p.execs
           /\ \A q : q = [p EXCEPT !.execs = rs] =>
                 /\ q.name = p.name /\ q.args = p.args /\ q.returns = p.returns /\ q.body = p.body
                 /\ q.owner = p.owner /\ q.public = p.public /\ q.execs = rs
BY DEF ManagedProcs

\* Functions that differ in nothing but what may be executed by whom.
alike(p, q) ==
    /\ p.name = q.name /\ p.args = q.args /\ p.returns = q.returns /\ p.body = q.body
    /\ p.owner = q.owner

\* CREATE OR REPLACE FUNCTION either changes the body of the one function there is ...
replacedBody(i) ==
    /\ same(procs[i], pgName, f.args)
    /\ procs[i].owner = owner /\ procs[i].args = f.args /\ procs[i].returns = f.returns
    /\ DOMAIN procs' = DOMAIN procs
    /\ \A j \in DOMAIN procs \ {i} : procs'[j] = procs[j]
    /\ procs'[i].name = pgName /\ procs'[i].args = f.args /\ procs'[i].returns = f.returns
    /\ procs'[i].body = f.body /\ procs'[i].owner = owner
    /\ procs'[i].public = procs[i].public /\ procs'[i].execs = procs[i].execs

\* ... or adds one that is newer than all others.
addedFunction(i) ==
    /\ i \notin DOMAIN procs /\ DOMAIN procs' = DOMAIN procs \cup {i}
    /\ \A j \in DOMAIN procs : ~same(procs[j], pgName, f.args) /\ procs'[j] = procs[j] /\ j < i
    /\ procs'[i].name = pgName /\ procs'[i].args = f.args /\ procs'[i].returns = f.returns
    /\ procs'[i].body = f.body /\ procs'[i].owner = owner
    /\ procs'[i].public = TRUE /\ procs'[i].execs = {}

\* It does one or the other.
LEMMA CreateEffect ==
    ASSUME TypeInv, UniqueInv, OwnInv, CreateFunction
    PROVE  \/ \E i \in DOMAIN procs : replacedBody(i)
           \/ \E i \in Nat : addedFunction(i)
<1>1. ProcsType /\ OidsBounded /\ left # <<>> /\ pc \in Syncing
  BY DEF TypeInv, Typed, FunctionsTypeOK, ProcsType, CallInv, CreateFunction
<1>2. procs' = created /\ mayCreate
  BY DEF CreateFunction
<1>3. CASE \E p \in Range(procs) : same(p, pgName, f.args)
  <2>1. PICK i \in DOMAIN procs : same(procs[i], pgName, f.args)
    BY <1>3 DEF Range
  <2>2. procs' = [j \in DOMAIN procs |-> IF same(procs[j], pgName, f.args)
                                 THEN [procs[j] EXCEPT !.body = f.body] ELSE procs[j]]
    BY <1>2, <1>3 DEF created
  <2>3. procs[i].owner = owner /\ procs[i].args = f.args /\ procs[i].returns = f.returns
        /\ procs[i].name = pgName
    BY <1>2, <2>1 DEF mayCreate, Range, same
  <2>4. \A j \in DOMAIN procs : same(procs[j], pgName, f.args) => j = i
    BY <2>1, <2>3 DEF UniqueInv
  <2>5. procs[i] \in ManagedProcs
    BY <1>1 DEF ProcsType
  <2>6. procs'[i] = [procs[i] EXCEPT !.body = f.body]
    BY <2>1, <2>2
  <2>7. DOMAIN procs' = DOMAIN procs /\ \A j \in DOMAIN procs \ {i} : procs'[j] = procs[j]
    BY <2>2, <2>4
  <2>8. /\ procs'[i].name = procs[i].name /\ procs'[i].args = procs[i].args
        /\ procs'[i].returns = procs[i].returns /\ procs'[i].body = f.body
        /\ procs'[i].owner = procs[i].owner /\ procs'[i].public = procs[i].public
        /\ procs'[i].execs = procs[i].execs
    BY <2>5, <2>6, ProcParts
  <2>9. QED BY <2>1, <2>3, <2>7, <2>8 DEF replacedBody
<1>4. CASE ~ \E p \in Range(procs) : same(p, pgName, f.args)
  <2>1. procs' = [i \in DOMAIN procs \cup {newOid} |-> IF i = newOid THEN newFunction ELSE procs[i]]
    BY <1>2, <1>4 DEF created
  <2>2. newOid \in Nat /\ newOid \notin DOMAIN procs /\ \A i \in DOMAIN procs : i < newOid
    BY <1>1, NewOid
  <2>3. procs'[newOid] = newFunction
    BY <2>1
  <2>4. addedFunction(newOid)
    BY <1>4, <2>1, <2>2, <2>3 DEF addedFunction, newFunction, Range
  <2>5. QED BY <2>2, <2>4
<1>5. QED BY <1>3, <1>4

\* REVOKE and GRANT.
LEMMA AlterEffect ==
    ASSUME TypeInv, RevokePublic \/ GrantExecute
    PROVE  /\ DOMAIN procs' = DOMAIN procs
           /\ \A i \in DOMAIN procs :
                 /\ alike(procs[i], procs'[i])
                 /\ ~inHand(procs[i]) => procs'[i] = procs[i]
                 /\ RevokePublic => procs'[i].execs = procs[i].execs
                 /\ RevokePublic /\ inHand(procs[i]) => ~procs'[i].public
                 /\ GrantExecute => procs'[i].public = procs[i].public
                 /\ GrantExecute /\ inHand(procs[i]) => procs'[i].execs = procs[i].execs \cup {role}
<1>1. \A i \in DOMAIN procs : procs[i] \in ManagedProcs
  BY DEF TypeInv, Typed, FunctionsTypeOK
<1>2. CASE RevokePublic
  <2>1. procs' = [i \in DOMAIN procs |-> IF inHand(procs[i])
                     THEN [procs[i] EXCEPT !.public = FALSE] ELSE procs[i]]
        /\ ~GrantExecute
    BY <1>2 DEF RevokePublic, GrantExecute
  <2>2. DOMAIN procs' = DOMAIN procs
    BY <2>1
  <2>3. ASSUME NEW i \in DOMAIN procs
        PROVE  /\ alike(procs[i], procs'[i]) /\ (~inHand(procs[i]) => procs'[i] = procs[i])
               /\ procs'[i].execs = procs[i].execs /\ (inHand(procs[i]) => ~procs'[i].public)
    <3>1. procs'[i] = IF inHand(procs[i]) THEN [procs[i] EXCEPT !.public = FALSE] ELSE procs[i]
      BY <2>1
    <3>2. QED BY <1>1, <3>1, ProcParts DEF alike
  <2>4. QED BY <2>1, <2>2, <2>3
<1>3. CASE GrantExecute
  <2>1. procs' = [i \in DOMAIN procs |-> IF inHand(procs[i])
                     THEN [procs[i] EXCEPT !.execs = @ \cup {role}] ELSE procs[i]]
        /\ ~RevokePublic
    BY <1>3 DEF RevokePublic, GrantExecute
  <2>2. DOMAIN procs' = DOMAIN procs
    BY <2>1
  <2>3. ASSUME NEW i \in DOMAIN procs
        PROVE  /\ alike(procs[i], procs'[i]) /\ (~inHand(procs[i]) => procs'[i] = procs[i])
               /\ procs'[i].public = procs[i].public
               /\ inHand(procs[i]) => procs'[i].execs = procs[i].execs \cup {role}
    <3>1. procs'[i] = IF inHand(procs[i])
                      THEN [procs[i] EXCEPT !.execs = procs[i].execs \cup {role}] ELSE procs[i]
      BY <2>1
    <3>2. QED BY <1>1, <3>1, ProcParts DEF alike
  <2>4. QED BY <2>1, <2>2, <2>3
<1>4. QED BY <1>2, <1>3

-----------------------------------------------------------------------------
(* A call about one role and the functions of others.                      *)

\* The functions of other roles are as they were.
othersKept ==
    \A i \in DOMAIN procs : ~isManaged(role, procs[i].name) =>
        i \in DOMAIN procs' /\ procs'[i] = procs[i]

\* Functions that are dropped, or altered for the role of the call.
LEMMA FewerFunctions ==
    ASSUME UniqueInv, ExecInv, DOMAIN procs' \subseteq DOMAIN procs,
           \A i \in DOMAIN procs' :
              /\ procs'[i].name = procs[i].name /\ procs'[i].args = procs[i].args
              /\ \A r \in procs'[i].execs : r \in procs[i].execs \/ isManaged(r, procs[i].name)
    PROVE  UniqueInv' /\ ExecInv'
BY DEF UniqueInv, ExecInv, same

\* A call goes on about the same role with what it has read.
LEMMA SameCall ==
    ASSUME OwnInv, pc \in Syncing, pc' \in Syncing, pc' = "stale" => left' = <<>>,
           Range(left') \subseteq Range(left), UNCHANGED <<role, functions, listed, currentOwner>>
    PROVE  OwnInv'
BY DEF OwnInv

\* Every statement about functions keeps the catalog in order, and the functions of other
\* roles out of it.
LEMMA CatalogStep ==
    ASSUME TypeInv, FunctionsInv, FunctionsNext
    PROVE  FunctionsInv' /\ othersKept
<1> USE DEF FunctionsInv
<1> ProcsType /\ OidsBounded /\ FunctionsTypeOK /\ left \in Seq(Functions)
  BY DEF TypeInv, Typed, FunctionsTypeOK, ProcsType
<1>1. CASE SyncDatabaseFunctions
  <2>1. /\ pc' = "drop" /\ left' = functions /\ listed' = managedFunctions(role)
        /\ currentOwner' \in ownersByName(listed') /\ UNCHANGED <<procs, functions, role>>
        /\ \A i \in DOMAIN functions : validateFunction(functions[i])
    BY <1>1 DEF SyncDatabaseFunctions, continue
  <2>2. UniqueInv' /\ ExecInv' /\ othersKept
    BY <2>1 DEF UniqueInv, ExecInv, othersKept
  <2>3. \A p \in listed' : isManaged(role', p.name)
    BY <2>1 DEF managedFunctions
  <2>4. \A n \in DOMAIN currentOwner' : \E p \in listed' : p.name = n /\ p.owner = currentOwner'[n]
    BY <2>1 DEF ownersByName
  <2>5. \A fn \in Range(functions') : validateFunction(fn)
    BY <2>1 DEF Range
  <2>6. OwnInv'
    BY <2>1, <2>3, <2>4, <2>5 DEF OwnInv
  <2>7. QED BY <2>2, <2>6
<1>2. CASE InvalidFunctions \/ FunctionCallFails
  <2>1. pc' = "idle" /\ UNCHANGED procs
    BY <1>2 DEF InvalidFunctions, FunctionCallFails, endReconcile
  <2>2. QED BY <2>1 DEF UniqueInv, ExecInv, othersKept, OwnInv
<1>3. CASE DropForNewOwner
  <2>1. pc = "drop" /\ pc' = "create" /\ left # <<>> /\ UNCHANGED <<role, functionLocals>>
    BY <1>3 DEF DropForNewOwner, continue
  <2>2. OwnInv'
    BY <2>1, SameCall
  <2>3. CASE ownerChanges
    <3>1. /\ DOMAIN procs' = {i \in DOMAIN procs : ~same(procs[i], pgName, f.args)}
          /\ \A i \in DOMAIN procs' : procs'[i] = procs[i]
      BY <1>3, <2>3, DroppedType DEF DropForNewOwner
    <3>2. UniqueInv' /\ ExecInv'
      BY <3>1, FewerFunctions
    <3>3. isManaged(role, pgName)
      BY <2>1, HandParts
    <3>4. othersKept
      BY <3>1, <3>3 DEF othersKept, same
    <3>5. QED BY <2>2, <3>2, <3>4
  <2>4. CASE ~ownerChanges
    BY <1>3, <2>2, <2>4 DEF DropForNewOwner, UniqueInv, ExecInv, othersKept
  <2>5. QED BY <2>3, <2>4
<1>4. CASE CreateFunction
  <2>1. pc = "create" /\ pc' = "lookup" /\ left # <<>> /\ UNCHANGED <<role, functionLocals>>
    BY <1>4 DEF CreateFunction, continue, TypeInv, CallInv
  <2>2. OwnInv'
    BY <2>1, SameCall
  <2>3. isManaged(role, pgName)
    BY <2>1, HandParts
  <2>4. ASSUME NEW i \in DOMAIN procs, replacedBody(i) PROVE FunctionsInv' /\ othersKept
    <3>1. UniqueInv' /\ ExecInv'
      BY <2>4, FewerFunctions DEF replacedBody, same
    <3>2. othersKept
      BY <2>3, <2>4 DEF replacedBody, othersKept, same
    <3>3. QED BY <2>2, <3>1, <3>2
  <2>5. ASSUME NEW i \in Nat, addedFunction(i) PROVE FunctionsInv' /\ othersKept
    <3>1. \A j \in DOMAIN procs : j \in DOMAIN procs' /\ procs'[j] = procs[j]
      BY <2>5 DEF addedFunction
    <3>2. UniqueInv'
      <4> SUFFICES ASSUME NEW j \in DOMAIN procs', NEW k \in DOMAIN procs',
                          same(procs'[j], procs'[k].name, procs'[k].args)
                   PROVE  j = k
        BY DEF UniqueInv, same
      <4>1. CASE j \in DOMAIN procs /\ k \in DOMAIN procs
        BY <4>1, <3>1 DEF UniqueInv, same
      <4>2. CASE j = i \/ k = i
        BY <4>2, <2>5, <3>1 DEF addedFunction, same
      <4>3. QED BY <2>5, <4>1, <4>2 DEF addedFunction
    <3>3. ExecInv'
      BY <2>5, <3>1 DEF addedFunction, ExecInv
    <3>4. QED BY <2>2, <3>1, <3>2, <3>3 DEF othersKept
  <2>6. QED BY <1>4, <2>4, <2>5, CreateEffect
<1>5. CASE LookupIdentity \/ BeginStale
  <2>1. pc \in Syncing /\ pc' \in Syncing /\ (pc' = "stale" => left' = <<>>) /\ left' = left
        /\ UNCHANGED <<procs, role, functions, listed, currentOwner>>
    BY <1>5 DEF LookupIdentity, BeginStale, continue
  <2>2. OwnInv'
    BY <2>1, SameCall
  <2>3. QED BY <2>1, <2>2 DEF UniqueInv, ExecInv, othersKept
<1>6. CASE RevokePublic \/ GrantExecute
  <2>1. /\ pc \in Syncing /\ left # <<>> /\ pc' \in Syncing \ {"stale"}
        /\ UNCHANGED <<role, functions, listed, currentOwner>>
        /\ left' = left \/ left' = Tail(left)
    BY <1>6 DEF RevokePublic, GrantExecute, continue, TypeInv, CallInv
  <2>2. Range(Tail(left)) \subseteq Range(left)
    BY <2>1 DEF Range
  <2>3. OwnInv'
    <3>1. Range(left') \subseteq Range(left)
      BY <2>1, <2>2
    <3>2. QED BY <2>1, <3>1, SameCall
  <2>4. isManaged(role, pgName)
    BY <2>1, HandParts
  <2>5. /\ DOMAIN procs' = DOMAIN procs
        /\ \A i \in DOMAIN procs :
              /\ procs'[i].name = procs[i].name /\ procs'[i].args = procs[i].args
              /\ ~inHand(procs[i]) => procs'[i] = procs[i]
              /\ procs'[i].execs \subseteq procs[i].execs \cup {role}
    BY <1>6, AlterEffect DEF alike
  <2>6. \A i \in DOMAIN procs : inHand(procs[i]) => isManaged(role, procs[i].name)
    BY <2>4 DEF inHand
  <2>7. UniqueInv' /\ ExecInv'
    BY <2>5, <2>6, FewerFunctions
  <2>8. QED BY <2>3, <2>5, <2>6, <2>7 DEF othersKept
<1>7. CASE DropManagedFunctions
  <2>1. pc' = "dropping" /\ listed' = managedFunctions(role) /\ UNCHANGED <<procs, role>>
    BY <1>7 DEF DropManagedFunctions, continue
  <2>2. QED BY <2>1 DEF UniqueInv, ExecInv, othersKept, OwnInv, managedFunctions
<1>8. ASSUME NEW p \in listed, DropStale(p) PROVE FunctionsInv' /\ othersKept
  <2>1. pc \in {"stale", "dropping"} /\ pc' = pc
        /\ UNCHANGED <<role, left, functions, listed, currentOwner>>
    BY <1>8 DEF DropStale, continue
  <2>2. OwnInv'
    BY <2>1 DEF OwnInv
  <2>3. isManaged(role, p.name)
    BY <2>1 DEF OwnInv
  <2>4. /\ DOMAIN procs' = {i \in DOMAIN procs : ~same(procs[i], p.name, p.args)}
        /\ \A i \in DOMAIN procs' : procs'[i] = procs[i]
    BY <1>8, DroppedType DEF DropStale
  <2>5. UniqueInv' /\ ExecInv'
    BY <2>4, FewerFunctions
  <2>6. othersKept
    BY <2>3, <2>4 DEF othersKept, same
  <2>7. QED BY <2>2, <2>5, <2>6
<1>9. QED
  BY <1>1, <1>2, <1>3, <1>4, <1>5, <1>6, <1>7, <1>8 DEF FunctionsNext

\* A step that is none of a call on functions leaves the catalog alone, and a call on
\* functions begins with nothing read.
LEMMA OtherSteps ==
    ASSUME Next, ~(FunctionsNext /\ UNCHANGED <<grantVars, resources>>)
    PROVE  /\ UNCHANGED procs
           /\ \/ pc' \notin Syncing \cup {"dropping"}
              \/ UNCHANGED <<pc, role, functionLocals>>
<1>1. CASE \/ \E r \in Roles : StartSync(r) \/ StartClean(r)
           \/ GrantsDone \/ FunctionsDone \/ DropDone \/ CleanDone
           \/ DropCustomRole \/ DropRefused \/ Fault
  BY <1>1 DEF StartSync, StartClean, GrantsDone, CleanDone, DropDone, FunctionsDone,
     DropCustomRole, DropRefused, Fault, continue, endReconcile
<1>2. CASE GrantsNext /\ UNCHANGED <<functionVars, resources>>
  <2>1. UNCHANGED procs
    BY <1>2
  <2>2. pc' \notin Syncing \cup {"dropping"}
    BY <1>2 DEF GrantsNext, SyncDatabaseGrants, InvalidGrants, ExpandGrants, PlanSync,
       RevokeAllDatabaseGrants, CleanSchema, Execute, Skip, StatementFails, continue, endReconcile
  <2>3. QED BY <2>1, <2>2
<1>3. CASE Outside
  <2>1. CASE OutsideNext /\ UNCHANGED <<functionVars, resources>>
    BY <2>1 DEF OutsideNext, ChangeTable, ChangeSchema, GrantByHand, ChangeMembership, outside
  <2>2. CASE (\E o \in Owners : ChangeDatabaseOwner(o))
    BY <2>2 DEF ChangeDatabaseOwner, outside
  <2>3. CASE \E r \in Roles : Delete(r) \/ \E sp \in Specs[r] : Edit(r, sp)
    BY <2>3 DEF Delete, Edit
  <2>4. QED BY <1>3, <2>1, <2>2, <2>3 DEF Outside
<1>4. QED BY <1>1, <1>2, <1>3 DEF Next, Call

\* The catalog stays in order.
LEMMA StepKeepsCatalog == TypeInv /\ FunctionsInv /\ [Next]_vars => FunctionsInv'
<1> SUFFICES ASSUME TypeInv, FunctionsInv, [Next]_vars PROVE FunctionsInv'
  OBVIOUS
<1>1. CASE FunctionsNext
  BY <1>1, CatalogStep
<1>2. CASE Next /\ ~FunctionsNext
  <2>1. /\ UNCHANGED procs
        /\ pc' \notin Syncing \cup {"dropping"} \/ UNCHANGED <<pc, role, functionLocals>>
    BY <1>2, OtherSteps
  <2>2. QED BY <2>1 DEF FunctionsInv, UniqueInv, ExecInv, OwnInv
<1>3. CASE UNCHANGED vars
  BY <1>3 DEF vars, FunctionsInv, UniqueInv, ExecInv, OwnInv
<1>4. QED BY <1>1, <1>2, <1>3

\* It is in order to begin with.
LEMMA InitCatalog == Init => FunctionsInv
<1> SUFFICES ASSUME Init PROVE FunctionsInv
  OBVIOUS
<1>1. procs = <<>> /\ pc = "idle"
  BY DEF Init
<1>2. DOMAIN procs = {}
  BY <1>1
<1>3. QED BY <1>1, <1>2 DEF FunctionsInv, UniqueInv, ExecInv, OwnInv

\* The inductive invariant of the catalog.
LEMMA CatalogInvariant == Spec => [](TypeInv /\ FunctionsInv)
BY InitTypes, StepKeepsTypes, InitCatalog, StepKeepsCatalog, PTL DEF Spec

\* A call about one role changes no function that another role can execute: the test on
\* names in the query, "no separator after the prefix", tells the functions of roles
\* apart whose prefixes begin one another (a and a__b).  Only roles whose names differ by
\* an underscore at the end (a and a_) are excepted.
THEOREM OthersKept == Spec => OthersFunctionsKept
<1> DEFINE A == \A i \in DOMAIN procs :
                  (\E r \in procs[i].execs : r # role /\ ~clash(r, role)) =>
                      procs[i] \in Range(procs')
<1>1. TypeInv /\ FunctionsInv /\ [Next]_vars => [A]_<<functionVars, session>>
  <2> SUFFICES ASSUME TypeInv, FunctionsInv, Next, NEW i \in DOMAIN procs,
                      \E r \in procs[i].execs : r # role /\ ~clash(r, role)
               PROVE  procs[i] \in Range(procs')
    BY DEF vars
  <2>1. CASE ~FunctionsNext
    <3>1. UNCHANGED procs
      BY <2>1, OtherSteps
    <3>2. QED BY <3>1 DEF Range
  <2>2. CASE FunctionsNext
    <3>1. PICK r \in procs[i].execs : r # role /\ ~clash(r, role)
      OBVIOUS
    <3>0. r \in Roles
      BY <3>1 DEF TypeInv, Typed, FunctionsTypeOK, ManagedProcs
    <3>2. isManaged(r, procs[i].name)
      BY <3>1 DEF FunctionsInv, ExecInv
    <3>3. procs[i].name \in Seq(Characters)
      BY DEF TypeInv, Typed, FunctionsTypeOK, ManagedProcs
    <3>4. role \in Roles
      BY <2>2 DEF TypeInv, CallInv, FunctionsNext, SyncDatabaseFunctions, InvalidFunctions,
         DropForNewOwner, CreateFunction, LookupIdentity, RevokePublic, GrantExecute, BeginStale,
         DropManagedFunctions, DropStale, FunctionCallFails
    <3>5. ~isManaged(role, procs[i].name)
      BY <3>0, <3>1, <3>2, <3>3, <3>4, OneRoleOfName
    <3>6. i \in DOMAIN procs' /\ procs'[i] = procs[i]
      BY <2>2, <3>5, CatalogStep DEF othersKept
    <3>7. QED BY <3>6 DEF Range
  <2>3. QED BY <2>1, <2>2
<1>2. QED BY <1>1, CatalogInvariant, PTL DEF Spec, OthersFunctionsKept

\* The exception cannot be dropped: the query of managedFunctions lists a function of the
\* role r_ for the role r too, whenever r_ is r with an underscore after it and the name
\* of the function does not begin with one.
THEOREM UnderscoreClash ==
    ASSUME NEW r \in Seq(Characters), NEW n \in Seq(Characters), n # <<>>,
           ~pairIn(n, separator), n[1] # underscore
    PROVE  /\ isManaged(r \o <<underscore>>, managedFunctionName(r \o <<underscore>>, n))
           /\ isManaged(r, managedFunctionName(r \o <<underscore>>, n))
<1>1. PICK u : u = <<underscore>>
  OBVIOUS
<1>2. u \in Seq(Characters) /\ Len(u) = 1 /\ u[1] = underscore
  BY <1>1, SeparatorParts
<1>3. r \o u \in Seq(Characters) /\ separator \in Seq(Characters)
  BY <1>2, SeparatorParts, JoinedText
<1>4. PICK m : m = u \o n
  OBVIOUS
<1>5. /\ m \in Seq(Characters) /\ Len(m) = 1 + Len(n) /\ m[1] = underscore
      /\ \A i \in 1..Len(n) : m[1 + i] = n[i]
  <2>1. 1 \in 1..Len(u)
    BY <1>2
  <2>2. /\ m \in Seq(Characters) /\ Len(m) = Len(u) + Len(n) /\ \A i \in 1..Len(u) : m[i] = u[i]
        /\ \A i \in 1..Len(n) : m[Len(u) + i] = n[i]
    <3>1. \A t1, t2 \in Seq(Characters) :
             /\ t1 \o t2 \in Seq(Characters) /\ Len(t1 \o t2) = Len(t1) + Len(t2)
             /\ \A i \in 1..Len(t1) : (t1 \o t2)[i] = t1[i]
             /\ \A i \in 1..Len(t2) : (t1 \o t2)[Len(t1) + i] = t2[i]
      BY JoinedText
    <3>2. QED BY <1>2, <1>4, <3>1
  <2>3. QED BY <1>2, <2>1, <2>2
<1>6. ~pairIn(m, separator)
  <2> SUFFICES ASSUME NEW i \in 1..(Len(m) - 1), SubSeq(m, i, i + 1) = separator PROVE FALSE
    BY DEF pairIn
  <2>1. m[i] = underscore /\ m[i + 1] = underscore
    BY <1>5, PairParts, SeparatorParts DEF separator
  <2>2. i \in 1..Len(n) /\ 1 + i = i + 1 /\ Len(n) \in Nat
    BY <1>5
  <2>3. n[i] = underscore
    BY <1>5, <2>1, <2>2
  <2>4. i # 1
    BY <2>3
  <2>5. PICK j \in Nat : j = i - 1
    BY <2>2
  <2>6. j \in 1..(Len(n) - 1) /\ 1 + j = i /\ j \in 1..Len(n) /\ j + 1 = i
    BY <2>2, <2>4, <2>5
  <2>7. n[j] = underscore /\ n[j + 1] = underscore
    BY <1>5, <2>1, <2>3, <2>6
  <2>8. SubSeq(n, j, j + 1) = separator
    BY <2>6, <2>7, PairParts, SeparatorParts DEF separator
  <2>9. QED BY <2>6, <2>8 DEF pairIn
<1>7. u \o separator = separator \o u
  BY <1>1 DEF separator
<1>8. managedFunctionName(r \o u, n) = managedFunctionName(r, m)
  <2>0. \A a, b, c \in Seq(Characters) : (a \o b) \o c = a \o (b \o c)
    BY ConcatAssociative
  <2>1. (r \o u) \o separator = r \o (u \o separator)
    BY <1>2, <1>3, <2>0
  <2>2. r \o (separator \o u) = (r \o separator) \o u
    BY <1>2, <1>3, <2>0
  <2>3. r \o separator \in Seq(Characters)
    BY <1>3, JoinedText
  <2>4. ((r \o separator) \o u) \o n = (r \o separator) \o (u \o n)
    BY <1>2, <2>0, <2>3
  <2>5. ((r \o u) \o separator) \o n = (r \o separator) \o m
    BY <1>4, <1>7, <2>1, <2>2, <2>4
  <2>6. QED BY <2>5 DEF managedFunctionName, managedFunctionPrefix
<1>9. isManaged(r, managedFunctionName(r, m))
  BY <1>5, <1>6, OwnNameManaged
<1>10. isManaged(r \o u, managedFunctionName(r \o u, n))
  BY <1>3, OwnNameManaged
<1>11. QED BY <1>1, <1>8, <1>9, <1>10

-----------------------------------------------------------------------------
(* Functions that are open to everybody.                                   *)

\* A call that goes on about the same role has the same function in hand.
LEMMA SameHand ==
    ASSUME UNCHANGED <<role, left>>
    PROVE  UNCHANGED pgName /\ UNCHANGED f
BY DEF pgName, f

\* A function of the role that is open to everybody is still to be dealt with, when no
\* statement has just created it.
LEMMA OpenIsPending ==
    ASSUME PublicInv, pc \in Syncing \ {"lookup", "revoke"}, NEW i \in DOMAIN procs,
           isManaged(role, procs[i].name), procs[i].public
    PROVE  key(procs[i]) \in pending
BY DEF PublicInv

\* Every statement about functions keeps that invariant.
LEMMA PublicStep ==
    ASSUME TypeInv, FunctionsInv, PublicInv, FunctionsNext
    PROVE  PublicInv'
<1> ProcsType /\ OidsBounded
  BY DEF TypeInv, Typed, FunctionsTypeOK, ProcsType
<1>1. CASE SyncDatabaseFunctions
  <2>1. /\ pc' = "drop" /\ listed' = managedFunctions(role) /\ dealtWith' = {}
        /\ UNCHANGED <<procs, role>>
    BY <1>1 DEF SyncDatabaseFunctions, continue
  <2>2. \A i \in DOMAIN procs : isManaged(role, procs[i].name) => procs[i] \in listed'
    BY <2>1 DEF managedFunctions, Range
  <2>3. \A i \in DOMAIN procs : isManaged(role, procs[i].name) => key(procs[i]) \in pending'
    BY <2>1, <2>2 DEF pending, key
  <2>4. QED BY <2>1, <2>3 DEF PublicInv, key
<1>2. CASE InvalidFunctions \/ FunctionCallFails \/ DropManagedFunctions
  <2>1. pc' \in {"idle", "dropping"}
    BY <1>2 DEF InvalidFunctions, FunctionCallFails, DropManagedFunctions, endReconcile, continue
  <2>2. QED BY <2>1 DEF PublicInv
<1>3. CASE DropForNewOwner
  <2>1. pc = "drop" /\ pc' = "create" /\ UNCHANGED <<role, listed, dealtWith>>
    BY <1>3 DEF DropForNewOwner, continue
  <2>2. DOMAIN procs' \subseteq DOMAIN procs /\ \A i \in DOMAIN procs' : procs'[i] = procs[i]
    BY <1>3, DroppedType DEF DropForNewOwner
  <2>3. \A i \in DOMAIN procs :
            isManaged(role, procs[i].name) /\ procs[i].public => key(procs[i]) \in pending
    BY <2>1, OpenIsPending
  <2>4. UNCHANGED pending
    BY <2>1 DEF pending, key
  <2>5. QED BY <2>1, <2>2, <2>3, <2>4 DEF PublicInv, key
<1>4. CASE CreateFunction
  <2>1. pc = "create" /\ pc' = "lookup" /\ UNCHANGED <<role, left, listed, dealtWith>>
    BY <1>4 DEF CreateFunction, continue
  <2>2. UNCHANGED pending /\ UNCHANGED pgName
    BY <2>1, SameHand DEF pending, key
  <2>3. \A i \in DOMAIN procs :
            isManaged(role, procs[i].name) /\ procs[i].public => key(procs[i]) \in pending
    BY <2>1, OpenIsPending
  <2>4. ASSUME NEW i \in DOMAIN procs, replacedBody(i) PROVE PublicInv'
    <3>1. DOMAIN procs' = DOMAIN procs
          /\ \A j \in DOMAIN procs : /\ procs'[j].name = procs[j].name /\ procs'[j].args = procs[j].args
                                     /\ procs'[j].public = procs[j].public
      BY <2>4 DEF replacedBody, same
    <3>2. QED BY <2>1, <2>2, <2>3, <3>1 DEF PublicInv, key
  <2>5. ASSUME NEW i \in Nat, addedFunction(i) PROVE PublicInv'
    <3>1. /\ DOMAIN procs' = DOMAIN procs \cup {i} /\ procs'[i].name = pgName
          /\ \A j \in DOMAIN procs : procs'[j] = procs[j] /\ j < i
      BY <2>5 DEF addedFunction
    <3>2. DOMAIN procs' \subseteq Nat
      BY <3>1 DEF ProcsType
    <3>3. isNewest(i)'
      BY <3>1, <3>2 DEF isNewest
    <3>4. \A j \in DOMAIN procs :
             isManaged(role, procs'[j].name) /\ procs'[j].public => key(procs'[j]) \in pending'
      BY <2>2, <2>3, <3>1
    <3>5. QED BY <2>1, <2>2, <3>1, <3>3, <3>4 DEF PublicInv, key
  <2>6. QED BY <1>4, <2>4, <2>5, CreateEffect DEF FunctionsInv
<1>5. CASE LookupIdentity
  <2>1. /\ pc = "lookup" /\ pc' = "revoke" /\ UNCHANGED <<procs, role, left, listed, dealtWith>>
        /\ overloads(pgName) # {} /\ identity' = newest(pgName).args
    BY <1>5 DEF LookupIdentity, continue
  <2>2. UNCHANGED pending /\ UNCHANGED pgName
    BY <2>1, SameHand DEF pending, key
  <2>3. PICK k \in DOMAIN procs :
            /\ procs[k].name = pgName /\ newest(pgName) = procs[k]
            /\ \A j \in DOMAIN procs : procs[j].name = pgName => j <= k
    BY <2>1, Newest
  <2>4. ASSUME NEW i \in DOMAIN procs, isManaged(role, procs[i].name), procs[i].public
        PROVE  key(procs[i]) \in pending \/ (procs[i].name = pgName /\ procs[i].args = identity')
    <3>1. key(procs[i]) \in pending \/ (procs[i].name = pgName /\ isNewest(i))
      BY <2>1, <2>4 DEF PublicInv
    <3>2. ASSUME procs[i].name = pgName, isNewest(i) PROVE i = k
      <4>1. i <= k /\ k <= i /\ i \in Nat /\ k \in Nat
        BY <2>3, <3>2 DEF isNewest, ProcsType
      <4>2. QED BY <4>1
    <3>3. QED BY <2>1, <2>3, <3>1, <3>2
  <2>5. QED BY <2>1, <2>2, <2>4 DEF PublicInv, key, inHand
<1>6. CASE RevokePublic
  <2>1. pc = "revoke" /\ pc' = "execute" /\ UNCHANGED <<role, left, listed, dealtWith, identity>>
    BY <1>6 DEF RevokePublic, continue
  <2>2. UNCHANGED pending /\ UNCHANGED pgName
    BY <2>1, SameHand DEF pending, key
  <2>3. /\ DOMAIN procs' = DOMAIN procs
        /\ \A i \in DOMAIN procs :
              /\ procs'[i].name = procs[i].name /\ procs'[i].args = procs[i].args
              /\ ~inHand(procs[i]) => procs'[i] = procs[i]
              /\ inHand(procs[i]) => ~procs'[i].public
    BY <1>6, AlterEffect DEF alike
  <2>4. \A i \in DOMAIN procs :
            procs'[i].name = pgName' /\ procs'[i].args = identity' => ~procs'[i].public
    BY <2>1, <2>2, <2>3 DEF inHand
  <2>5. \A i \in DOMAIN procs :
            isManaged(role, procs[i].name) /\ procs[i].public => key(procs[i]) \in pending \/ inHand(procs[i])
    BY <2>1 DEF PublicInv
  <2>6. QED BY <2>1, <2>2, <2>3, <2>4, <2>5 DEF PublicInv, key, inHand
<1>7. CASE GrantExecute
  <2>1. /\ pc = "execute" /\ pc' = "drop" /\ UNCHANGED <<role, listed>>
        /\ dealtWith' = dealtWith \cup {<<pgName, identity>>}
    BY <1>7 DEF GrantExecute, continue
  <2>2. /\ DOMAIN procs' = DOMAIN procs
        /\ \A i \in DOMAIN procs :
              /\ procs'[i].name = procs[i].name /\ procs'[i].args = procs[i].args
              /\ procs'[i].public = procs[i].public
    BY <1>7, AlterEffect DEF alike
  <2>3. ASSUME NEW i \in DOMAIN procs, isManaged(role, procs[i].name), procs[i].public
        PROVE  key(procs[i]) \in pending'
    <3>1. key(procs[i]) \in pending
      BY <2>1, <2>3, OpenIsPending
    <3>2. ~inHand(procs[i])
      BY <2>1, <2>3 DEF PublicInv
    <3>3. key(procs[i]) # <<pgName, identity>>
      BY <3>2 DEF key, inHand
    <3>4. QED BY <2>1, <3>1, <3>3 DEF pending, key
  <2>4. QED BY <2>1, <2>2, <2>3 DEF PublicInv, key
<1>8. CASE BeginStale
  <2>1. pc = "drop" /\ pc' = "stale" /\ UNCHANGED <<procs, role, listed, dealtWith>>
    BY <1>8 DEF BeginStale, continue
  <2>2. UNCHANGED pending
    BY <2>1 DEF pending, key
  <2>3. QED BY <2>1, <2>2, OpenIsPending DEF PublicInv, key
<1>9. ASSUME NEW p \in listed, DropStale(p) PROVE PublicInv'
  <2>1. /\ pc \in {"stale", "dropping"} /\ pc' = pc /\ UNCHANGED <<role, listed>>
        /\ dealtWith' = dealtWith \cup {<<p.name, p.args>>}
    BY <1>9 DEF DropStale, continue
  <2>2. /\ DOMAIN procs' = {i \in DOMAIN procs : ~same(procs[i], p.name, p.args)}
        /\ \A i \in DOMAIN procs' : procs'[i] = procs[i]
    BY <1>9, DroppedType DEF DropStale
  <2>3. ASSUME pc = "stale", NEW i \in DOMAIN procs', isManaged(role, procs[i].name), procs[i].public
        PROVE  key(procs[i]) \in pending'
    <3>1. i \in DOMAIN procs /\ key(procs[i]) \in pending
      BY <2>1, <2>2, <2>3, OpenIsPending
    <3>2. key(procs[i]) # <<p.name, p.args>>
      BY <2>2, <2>3 DEF key, same
    <3>3. QED BY <2>1, <3>1, <3>2 DEF pending, key
  <2>4. QED BY <2>1, <2>2, <2>3 DEF PublicInv, key
<1>10. QED
  BY <1>1, <1>2, <1>3, <1>4, <1>5, <1>6, <1>7, <1>8, <1>9 DEF FunctionsNext

\* So does every other step.
LEMMA StepKeepsPublic == TypeInv /\ FunctionsInv /\ PublicInv /\ [Next]_vars => PublicInv'
<1> SUFFICES ASSUME TypeInv, FunctionsInv, PublicInv, [Next]_vars PROVE PublicInv'
  OBVIOUS
<1>1. CASE FunctionsNext
  BY <1>1, PublicStep
<1>2. CASE UNCHANGED <<procs, pc, role, functionLocals>>
  <2>1. UNCHANGED pending /\ UNCHANGED pgName /\ UNCHANGED <<procs, pc, role, identity>>
    BY <1>2, SameHand DEF pending, key
  <2>2. QED BY <2>1 DEF PublicInv, key, inHand, isNewest
<1>3. CASE Next /\ ~FunctionsNext
  <2>1. /\ UNCHANGED procs
        /\ pc' \notin Syncing \cup {"dropping"} \/ UNCHANGED <<pc, role, functionLocals>>
    BY <1>3, OtherSteps
  <2>2. CASE pc' \notin Syncing \cup {"dropping"}
    BY <2>2 DEF PublicInv
  <2>3. QED BY <1>2, <2>1, <2>2
<1>4. CASE UNCHANGED vars
  BY <1>2, <1>4 DEF vars
<1>5. QED BY <1>1, <1>3, <1>4

\* When SyncDatabaseFunctions returns nil no function of the role is open to everybody,
\* also after calls that failed between CREATE FUNCTION and REVOKE: what an earlier call
\* has left open is either created again and revoked, or listed and dropped.
THEOREM PublicNever == Spec => []PublicShutOut
<1>1. Init => PublicInv
  BY DEF Init, PublicInv
<1>2. PublicInv => PublicShutOut
  <2> SUFFICES ASSUME PublicInv, pc = "stale", stale = {}, NEW p \in managedFunctions(role), p.public
               PROVE  FALSE
    BY DEF PublicShutOut, functionsDone
  <2>1. PICK i \in DOMAIN procs : procs[i] = p
    BY DEF managedFunctions, Range
  <2>2. key(p) \in pending
    BY <2>1, OpenIsPending DEF managedFunctions
  <2>3. PICK q \in listed : key(p) = key(q) /\ key(q) \notin dealtWith
    BY <2>2 DEF pending
  <2>4. q \in stale
    BY <2>3 DEF stale, key
  <2>5. QED BY <2>4
<1>3. QED BY <1>1, <1>2, CatalogInvariant, StepKeepsPublic, PTL DEF Spec

-----------------------------------------------------------------------------
(* The functions that are asked for.                                       *)

\* What is asked for stays the same during a call.
LEMMA SameAsked ==
    ASSUME UNCHANGED <<role, functions, dbOwner, listed>>
    PROVE  /\ asked' = asked /\ (Distinct' <=> Distinct) /\ \A fn : want(fn)' = want(fn)
<1>1. \A fn : want(fn)' = want(fn)
  BY DEF want, ownerOf
<1>2. asked' = {want(fn)' : fn \in Range(functions')}
  BY DEF asked, want, Range
<1>3. asked' = asked
  BY <1>1, <1>2, AskedIsWanted
<1>4. QED BY <1>1, <1>3 DEF Distinct, distinctNames

\* The fields of a function, and when two have the same.
LEMMA FieldParts ==
    ASSUME NEW p, NEW q
    PROVE  /\ fields(p).name = p.name /\ fields(p).args = p.args /\ fields(p).returns = p.returns
           /\ fields(p).body = p.body /\ fields(p).owner = p.owner
           /\ fields(p) = fields(q) <=> alike(p, q)
BY DEF fields, alike

\* A function that is as the one in hand is asked for.
LEMMA AsWanted ==
    ASSUME TypeInv, OwnInv, pc \in Syncing, left # <<>>, NEW p
    PROVE  /\ fields(p) = want(f) <=> /\ p.name = pgName /\ p.args = f.args /\ p.returns = f.returns
                                      /\ p.body = f.body /\ p.owner = owner
           /\ fields(p) = want(f) => fields(p) \in asked
<1>1. fields(p) = want(f) <=> /\ p.name = pgName /\ p.args = f.args /\ p.returns = f.returns
                              /\ p.body = f.body /\ p.owner = owner
  BY DEF fields, want, pgName, owner
<1>2. QED BY <1>1, HandParts

\* One function is asked for of the name in hand.
LEMMA AskedOnce ==
    ASSUME TypeInv, OwnInv, pc \in Syncing, left # <<>>, Distinct, NEW a \in asked, a.name = pgName
    PROVE  a = want(f)
BY HandParts DEF Distinct, distinctNames

\* What is said of each function alone stays true when functions are dropped, and when it
\* changes who may execute them.
LEMMA FewerOrAlike ==
    ASSUME ProcsType, NewerAsked, ListedAlone, UNCHANGED <<role, functions, dbOwner, listed>>,
           DOMAIN procs' \subseteq DOMAIN procs, \A i \in DOMAIN procs' : alike(procs[i], procs'[i])
    PROVE  NewerAsked' /\ ListedAlone'
<1>1. asked' = asked
  BY SameAsked
<1>2. \A i \in DOMAIN procs' : /\ fields(procs'[i]) = fields(procs[i])
                               /\ procs'[i].name = procs[i].name /\ procs'[i].args = procs[i].args
                               /\ procs'[i].owner = procs[i].owner
  BY FieldParts DEF alike
<1>3. NewerAsked'
  BY <1>1, <1>2 DEF NewerAsked
<1>4. ListedAlone'
  BY <1>2 DEF ListedAlone, same
<1>5. QED BY <1>3, <1>4

\* Functions that are all there, and have their fields still, are listed as before.
LEMMA KeptOrAlike ==
    ASSUME ListedKept, UNCHANGED <<role, functions, dbOwner, listed>>,
           \A i \in DOMAIN procs : /\ i \in DOMAIN procs' /\ procs'[i].name = procs[i].name
                                   /\ procs'[i].args = procs[i].args /\ procs'[i].owner = procs[i].owner
    PROVE  ListedKept'
<1>1. asked' = asked
  BY SameAsked
<1>2. QED BY <1>1 DEF ListedKept, key

\* So are they all explained, if the call has dealt with no more of them.
LEMMA StillExplained ==
    ASSUME Explained, UNCHANGED <<role, functions, dbOwner, listed, dealtWith>>,
           DOMAIN procs' \subseteq DOMAIN procs, \A i \in DOMAIN procs' : alike(procs[i], procs'[i])
    PROVE  Explained'
<1>1. asked' = asked /\ pending' = pending
  BY SameAsked DEF pending, key
<1>2. \A i \in DOMAIN procs' : /\ fields(procs'[i]) = fields(procs[i]) /\ key(procs'[i]) = key(procs[i])
                               /\ procs'[i].name = procs[i].name
  BY FieldParts DEF alike, key
<1>3. QED BY <1>1, <1>2 DEF Explained

\* And they are settled, if they may be executed as before.
LEMMA StillSettled ==
    ASSUME AskedSettled, UNCHANGED <<role, functions, dbOwner, listed, left>>,
           dealtWith \subseteq dealtWith',
           \A fn \in Range(functions) : \A i \in DOMAIN procs :
               settled(want(fn)) /\ fields(procs[i]) = want(fn) /\ ~procs[i].public /\ role \in procs[i].execs =>
                   /\ i \in DOMAIN procs' /\ fields(procs'[i]) = want(fn)
                   /\ ~procs'[i].public /\ role \in procs'[i].execs
    PROVE  AskedSettled'
<1>1. \A fn : want(fn)' = want(fn)
  BY SameAsked
<1>2. ASSUME NEW fn \in Range(functions), settled(want(fn)) PROVE settled(want(fn))'
  <2>1. PICK i \in DOMAIN procs : fields(procs[i]) = want(fn) /\ ~procs[i].public /\ role \in procs[i].execs
    BY <1>2 DEF settled
  <2>2. /\ i \in DOMAIN procs' /\ fields(procs'[i]) = want(fn)
        /\ ~procs'[i].public /\ role \in procs'[i].execs
    BY <1>2, <2>1
  <2>3. <<want(fn).name, want(fn).args>> \in dealtWith'
    BY <1>2 DEF settled
  <2>4. QED BY <1>1, <2>2, <2>3 DEF settled
<1>3. QED BY <1>2 DEF AskedSettled

-----------------------------------------------------------------------------
(* SyncDatabaseFunctions, statement by statement.                          *)

\* It begins with everything listed.
LEMMA SyncBegins ==
    ASSUME UniqueInv, ProcsType, SyncDatabaseFunctions, Distinct'
    PROVE  SyncedParts'
<1>1. /\ pc' = "drop" /\ listed' = managedFunctions(role) /\ dealtWith' = {} /\ left' = functions
      /\ UNCHANGED <<procs, role, functions>>
  BY DEF SyncDatabaseFunctions, continue
<1>2. \A i \in DOMAIN procs : isManaged(role, procs[i].name) => procs[i] \in listed'
  BY <1>1 DEF managedFunctions, Range
<1>3. \A p \in listed' : \E i \in DOMAIN procs : procs[i] = p
  BY <1>1 DEF managedFunctions, Range
<1>4. Explained'
  <2>1. \A i \in DOMAIN procs : isManaged(role, procs[i].name) => key(procs[i]) \in pending'
    BY <1>1, <1>2 DEF pending, key
  <2>2. QED BY <1>1, <2>1 DEF Explained
<1>5. NewerAsked'
  <2> SUFFICES ASSUME NEW i \in DOMAIN procs, NEW j \in DOMAIN procs, i < j,
                      isManaged(role, procs[i].name), procs[i].name = procs[j].name
               PROVE  FALSE
    BY <1>1 DEF NewerAsked
  <2>1. procs[i] \in listed' /\ procs[j] \in listed'
    BY <1>2
  <2>2. procs[i] = procs[j]
    BY <2>1 DEF Distinct, distinctNames
  <2>3. i = j
    BY <2>2 DEF UniqueInv, same
  <2>4. i \in Nat /\ j \in Nat
    BY DEF ProcsType
  <2>5. QED BY <2>3, <2>4
<1>6. ListedKept'
  BY <1>1, <1>3 DEF ListedKept
<1>7. ListedAlone'
  <2> SUFFICES ASSUME NEW p \in listed', NEW i \in DOMAIN procs, same(procs[i], p.name, p.args)
               PROVE  procs[i].args = p.args
    BY <1>1 DEF ListedAlone, same
  <2>1. PICK k \in DOMAIN procs : procs[k] = p
    BY <1>3
  <2>2. QED BY <2>1 DEF UniqueInv
<1>8. AskedSettled' /\ InHandCreated'
  BY <1>1 DEF AskedSettled, InHandCreated
<1>9. QED BY <1>4, <1>5, <1>6, <1>7, <1>8 DEF SyncedParts

\* A function that is dropped for its new owner is not settled.
LEMMA DropKeepsSynced ==
    ASSUME TypeInv, FunctionsInv, ProcsType, OidsBounded, Distinct, SyncedParts, DropForNewOwner
    PROVE  SyncedParts'
<1>1. /\ pc = "drop" /\ pc' = "create" /\ left # <<>>
      /\ UNCHANGED <<role, functions, left, dbOwner, listed, dealtWith>>
  BY DEF DropForNewOwner, continue
<1>2. \A fn : want(fn)' = want(fn)
  BY <1>1, SameAsked
<1>3. asked' = asked
  BY <1>1, SameAsked
<1>4. CASE ~ownerChanges
  <2>1. UNCHANGED procs
    BY <1>4 DEF DropForNewOwner
  <2>2. Explained' /\ NewerAsked' /\ ListedAlone'
    BY <1>1, <2>1, FewerOrAlike, StillExplained DEF SyncedParts, alike
  <2>3. ListedKept'
    BY <1>1, <2>1, KeptOrAlike DEF SyncedParts
  <2>4. AskedSettled'
    BY <1>1, <2>1, StillSettled DEF SyncedParts
  <2>5. QED BY <1>1, <2>2, <2>3, <2>4 DEF SyncedParts, InHandCreated
<1>5. CASE ownerChanges
  <2>1. /\ DOMAIN procs' = {i \in DOMAIN procs : ~same(procs[i], pgName, f.args)}
        /\ \A i \in DOMAIN procs' : procs'[i] = procs[i]
    BY <1>5, DroppedType DEF DropForNewOwner
  <2>2. PICK p0 \in listed : p0.name = pgName /\ p0.owner = currentOwner[pgName] /\ p0.owner # owner
    BY <1>1, <1>5 DEF ownerChanges, FunctionsInv, OwnInv
  <2>3. \A i \in DOMAIN procs : same(procs[i], pgName, f.args) => procs[i].owner # owner
    BY <1>5, <2>2 DEF DropForNewOwner, mayDrop, Range
  <2>4. \A a \in asked : a.name = pgName => a.owner = owner
    <3>1. want(f).owner = owner
      BY <1>1, HandParts DEF FunctionsInv
    <3>2. QED BY <1>1, <3>1, AskedOnce DEF FunctionsInv
  <2>5. Explained' /\ NewerAsked' /\ ListedAlone'
    BY <1>1, <2>1, FewerOrAlike, StillExplained DEF SyncedParts, alike
  <2>6. ListedKept'
    <3> SUFFICES ASSUME NEW p \in listed
                 PROVE  \/ \E i \in DOMAIN procs' : key(procs'[i]) = key(p) /\ procs'[i].owner = p.owner
                        \/ \A a \in asked : a.name = p.name => a.owner # p.owner
      BY <1>1, <1>3 DEF ListedKept
    <3>1. CASE \A a \in asked : a.name = p.name => a.owner # p.owner
      BY <3>1
    <3>2. ASSUME NEW i \in DOMAIN procs, key(procs[i]) = key(p), procs[i].owner = p.owner,
                 i \notin DOMAIN procs'
          PROVE  \A a \in asked : a.name = p.name => a.owner # p.owner
      <4>1. p.name = pgName
        BY <2>1, <3>2 DEF same, key
      <4>2. p = p0
        BY <2>2, <4>1 DEF Distinct, distinctNames
      <4>3. QED BY <2>2, <2>4, <4>1, <4>2
    <3>3. QED BY <1>1, <2>1, <3>1, <3>2 DEF SyncedParts, ListedKept
  <2>7. AskedSettled'
    <3>1. ASSUME NEW fn \in Range(functions), NEW i \in DOMAIN procs, fields(procs[i]) = want(fn)
          PROVE  ~same(procs[i], pgName, f.args)
      <4> SUFFICES ASSUME same(procs[i], pgName, f.args) PROVE FALSE
        OBVIOUS
      <4>1. want(fn) \in asked
        BY AskedIsWanted
      <4>2. want(fn).name = procs[i].name /\ want(fn).owner = procs[i].owner
        BY <3>1, FieldParts
      <4>3. procs[i].owner = owner
        BY <2>4, <4>1, <4>2 DEF same
      <4>4. QED BY <2>3, <4>3
    <3>2. QED BY <1>1, <2>1, <3>1, StillSettled DEF SyncedParts
  <2>8. QED BY <1>1, <2>5, <2>6, <2>7 DEF SyncedParts, InHandCreated
<1>6. QED BY <1>4, <1>5

\* The function that is created is the newest of its name, and the only one that a listed
\* function of its types and its owner could be.
LEMMA CreateKeepsSynced ==
    ASSUME TypeInv, FunctionsInv, ProcsType, OidsBounded, Distinct, SyncedParts, CreateFunction
    PROVE  SyncedParts'
<1>1. /\ pc = "create" /\ pc' = "lookup" /\ left # <<>>
      /\ UNCHANGED <<role, functions, left, dbOwner, listed, dealtWith>>
  BY DEF CreateFunction, continue, TypeInv, CallInv
<1>2. \A fn : want(fn)' = want(fn)
  BY <1>1, SameAsked
<1>3. asked' = asked /\ pending' = pending
  BY <1>1, SameAsked DEF pending, key
<1>4. want(f)' = want(f)
  BY <1>1, SameHand DEF want, ownerOf
<1>5. \A p : fields(p) = want(f) <=> /\ p.name = pgName /\ p.args = f.args /\ p.returns = f.returns
                                     /\ p.body = f.body /\ p.owner = owner
  BY <1>1, AsWanted DEF FunctionsInv
<1>6. /\ want(f) \in asked /\ want(f).name = pgName /\ want(f).args = f.args /\ want(f).owner = owner
      /\ \A a \in asked : a.name = pgName => a = want(f)
  BY <1>1, HandParts, AskedOnce DEF FunctionsInv
<1>7. ASSUME NEW i \in DOMAIN procs, replacedBody(i) PROVE SyncedParts'
  <2>1. /\ DOMAIN procs' = DOMAIN procs /\ procs[i].name = pgName /\ procs[i].args = f.args
        /\ \A j \in DOMAIN procs : j # i => procs'[j] = procs[j]
        /\ \A j \in DOMAIN procs : /\ procs'[j].name = procs[j].name /\ procs'[j].args = procs[j].args
                                   /\ procs'[j].owner = procs[j].owner /\ key(procs'[j]) = key(procs[j])
                                   /\ procs'[j].public = procs[j].public /\ procs'[j].execs = procs[j].execs
    BY <1>7 DEF replacedBody, same, key
  <2>2. fields(procs'[i]) = want(f) /\ fields(procs'[i]) \in asked
    BY <1>5, <1>6, <1>7 DEF replacedBody
  <2>3. Explained'
    BY <1>1, <1>3, <2>1, <2>2 DEF Explained, SyncedParts
  <2>4. NewerAsked'
    BY <1>1, <1>3, <2>1, <2>2 DEF NewerAsked, SyncedParts
  <2>5. ListedKept'
    BY <1>1, <2>1, KeptOrAlike DEF SyncedParts
  <2>6. ListedAlone'
    BY <1>1, <2>1 DEF ListedAlone, SyncedParts, same
  <2>7. AskedSettled'
    <3>1. ASSUME NEW fn \in Range(functions), NEW j \in DOMAIN procs, fields(procs[j]) = want(fn)
          PROVE  fields(procs'[j]) = want(fn)
      <4>1. CASE j # i
        BY <2>1, <3>1, <4>1
      <4>2. CASE j = i
        <5>1. want(fn) \in asked /\ want(fn).name = pgName
          BY <2>1, <3>1, <4>2, AskedIsWanted, FieldParts
        <5>2. QED BY <1>6, <2>2, <4>2, <5>1
      <4>3. QED BY <4>1, <4>2
    <3>2. QED BY <1>1, <2>1, <3>1, StillSettled DEF SyncedParts
  <2>8. isNewest(i)'
    <3> SUFFICES ASSUME NEW j \in DOMAIN procs, procs[j].name = pgName, ~(j <= i) PROVE FALSE
      BY <2>1 DEF isNewest
    <3>1. i < j
      BY DEF ProcsType
    <3>2. isManaged(role, pgName)
      BY <1>1, HandParts DEF FunctionsInv
    <3>3. fields(procs[j]) \in asked
      BY <2>1, <3>1, <3>2 DEF NewerAsked, SyncedParts
    <3>4. fields(procs[j]) = want(f)
      BY <1>6, <3>3, FieldParts
    <3>5. same(procs[j], procs[i].name, procs[i].args)
      BY <1>5, <2>1, <3>4 DEF same
    <3>6. j = i
      BY <3>5 DEF FunctionsInv, UniqueInv
    <3>7. QED BY <3>1, <3>6 DEF ProcsType
  <2>9. InHandCreated'
    BY <1>1, <1>4, <2>1, <2>2, <2>8 DEF InHandCreated
  <2>10. QED BY <2>3, <2>4, <2>5, <2>6, <2>7, <2>9 DEF SyncedParts
<1>8. ASSUME NEW i \in Nat, addedFunction(i) PROVE SyncedParts'
  <2>1. /\ DOMAIN procs' = DOMAIN procs \cup {i} /\ i \notin DOMAIN procs
        /\ procs'[i].name = pgName /\ procs'[i].args = f.args /\ procs'[i].owner = owner
        /\ \A j \in DOMAIN procs : procs'[j] = procs[j] /\ j < i /\ ~same(procs[j], pgName, f.args)
    BY <1>8 DEF addedFunction
  <2>2. fields(procs'[i]) = want(f) /\ fields(procs'[i]) \in asked
    BY <1>5, <1>6, <1>8 DEF addedFunction
  <2>3. Explained'
    BY <1>1, <1>3, <2>1, <2>2 DEF Explained, SyncedParts
  <2>4. NewerAsked'
    <3> SUFFICES ASSUME NEW j \in DOMAIN procs', NEW k \in DOMAIN procs', j < k,
                        isManaged(role, procs'[j].name), procs'[j].name = procs'[k].name
                 PROVE  fields(procs'[k]) \in asked
      BY <1>1, <1>3 DEF NewerAsked
    <3>1. CASE k = i
      BY <2>2, <3>1
    <3>2. CASE j = i /\ k # i
      <4>1. k < i /\ k \in Nat
        BY <2>1, <3>2 DEF ProcsType
      <4>2. QED BY <3>2, <4>1
    <3>3. CASE j # i /\ k # i
      BY <2>1, <3>3 DEF NewerAsked, SyncedParts
    <3>4. QED BY <3>1, <3>2, <3>3
  <2>5. ListedKept'
    BY <1>1, <2>1, KeptOrAlike DEF SyncedParts
  <2>6. ListedAlone'
    <3> SUFFICES ASSUME NEW p \in listed, NEW j \in DOMAIN procs', same(procs'[j], p.name, p.args)
                 PROVE  procs'[j].args = p.args \/ procs'[j].owner # p.owner
      BY <1>1 DEF ListedAlone, same
    <3>1. CASE j # i
      BY <2>1, <3>1 DEF ListedAlone, SyncedParts
    <3>2. CASE j = i
      <4>1. p.name = pgName /\ Types[p.args] = Types[f.args]
        BY <2>1, <3>2 DEF same
      <4>2. \A k \in DOMAIN procs : key(procs[k]) # key(p)
        BY <2>1, <4>1 DEF same, key
      <4>3. \A a \in asked : a.name = p.name => a.owner # p.owner
        BY <1>1, <4>2 DEF ListedKept, SyncedParts
      <4>4. QED BY <1>6, <2>1, <3>2, <4>1, <4>3
    <3>3. QED BY <3>1, <3>2
  <2>7. AskedSettled'
    BY <1>1, <2>1, StillSettled DEF SyncedParts
  <2>8. isNewest(i)'
    BY <2>1 DEF isNewest, ProcsType
  <2>9. InHandCreated'
    BY <1>1, <1>4, <2>1, <2>2, <2>8 DEF InHandCreated
  <2>10. QED BY <2>3, <2>4, <2>5, <2>6, <2>7, <2>9 DEF SyncedParts
<1>9. QED BY <1>7, <1>8, CreateEffect DEF FunctionsInv

\* The lookup by name finds the function in hand.
LEMMA LookupKeepsSynced ==
    ASSUME TypeInv, FunctionsInv, ProcsType, OidsBounded, Distinct, SyncedParts, LookupIdentity
    PROVE  SyncedParts'
<1>1. /\ pc = "lookup" /\ pc' = "revoke" /\ left # <<>>
      /\ UNCHANGED <<role, functions, left, dbOwner, listed, dealtWith, procs>>
      /\ overloads(pgName) # {} /\ identity' = newest(pgName).args
  BY DEF LookupIdentity, continue, TypeInv, CallInv
<1>2. want(f)' = want(f) /\ f' = f
  BY <1>1, SameHand DEF want, ownerOf
<1>3. PICK i \in DOMAIN procs : fields(procs[i]) = want(f) /\ isNewest(i)
  BY <1>1 DEF InHandCreated, SyncedParts
<1>4. procs[i].name = pgName /\ procs[i].args = f.args
  BY <1>1, <1>3, AsWanted DEF FunctionsInv
<1>5. PICK k \in DOMAIN procs :
          /\ procs[k].name = pgName /\ newest(pgName) = procs[k]
          /\ \A j \in DOMAIN procs : procs[j].name = pgName => j <= k
  BY <1>1, Newest
<1>6. i = k
  <2>1. i <= k /\ k <= i /\ i \in Nat /\ k \in Nat
    BY <1>3, <1>4, <1>5 DEF isNewest, ProcsType
  <2>2. QED BY <2>1
<1>7. InHandCreated'
  BY <1>1, <1>2, <1>3, <1>4, <1>5, <1>6 DEF InHandCreated
<1>8. Explained' /\ NewerAsked' /\ ListedAlone'
  BY <1>1, FewerOrAlike, StillExplained DEF SyncedParts, alike
<1>9. ListedKept' /\ AskedSettled'
  BY <1>1, KeptOrAlike, StillSettled DEF SyncedParts
<1>10. QED BY <1>7, <1>8, <1>9 DEF SyncedParts

\* It is the one that REVOKE is about.
LEMMA RevokeKeepsSynced ==
    ASSUME TypeInv, FunctionsInv, ProcsType, Distinct, SyncedParts, RevokePublic
    PROVE  SyncedParts'
<1>1. /\ pc = "revoke" /\ pc' = "execute" /\ left # <<>>
      /\ UNCHANGED <<role, functions, left, dbOwner, listed, dealtWith, identity>>
  BY DEF RevokePublic, continue, TypeInv, CallInv
<1>2. want(f)' = want(f) /\ f' = f
  BY <1>1, SameHand DEF want, ownerOf
<1>3. /\ DOMAIN procs' = DOMAIN procs
      /\ \A i \in DOMAIN procs :
            /\ alike(procs[i], procs'[i]) /\ procs'[i].execs = procs[i].execs
            /\ ~inHand(procs[i]) => procs'[i] = procs[i]
            /\ inHand(procs[i]) => ~procs'[i].public
  BY AlterEffect
<1>4. \A i \in DOMAIN procs : fields(procs'[i]) = fields(procs[i])
  BY <1>3, FieldParts
<1>5. PICK i \in DOMAIN procs : fields(procs[i]) = want(f)
  BY <1>1 DEF InHandCreated, SyncedParts
<1>6. inHand(procs[i])
  <2>1. procs[i].name = pgName /\ procs[i].args = f.args
    BY <1>1, <1>5, AsWanted DEF FunctionsInv
  <2>2. identity = f.args
    BY <1>1 DEF InHandCreated, SyncedParts
  <2>3. QED BY <2>1, <2>2 DEF inHand
<1>7. InHandCreated'
  BY <1>1, <1>2, <1>3, <1>4, <1>5, <1>6 DEF InHandCreated, SyncedParts
<1>8. Explained' /\ NewerAsked' /\ ListedAlone'
  BY <1>1, <1>3, FewerOrAlike, StillExplained DEF SyncedParts
<1>9. ListedKept'
  BY <1>1, <1>3, KeptOrAlike DEF SyncedParts, alike
<1>10. AskedSettled'
  BY <1>1, <1>3, <1>4, StillSettled DEF SyncedParts
<1>11. QED BY <1>7, <1>8, <1>9, <1>10 DEF SyncedParts

\* With GRANT it is settled.
LEMMA GrantKeepsSynced ==
    ASSUME TypeInv, FunctionsInv, ProcsType, Distinct, SyncedParts, GrantExecute
    PROVE  SyncedParts'
<1>1. /\ pc = "execute" /\ pc' = "drop" /\ left # <<>> /\ left' = Tail(left)
      /\ UNCHANGED <<role, functions, dbOwner, listed, identity>>
      /\ dealtWith' = dealtWith \cup {<<pgName, identity>>}
  BY DEF GrantExecute, continue, TypeInv, CallInv
<1>2. \A fn : want(fn)' = want(fn)
  BY <1>1, SameAsked
<1>3. asked' = asked
  BY <1>1, SameAsked
<1>4. /\ DOMAIN procs' = DOMAIN procs
      /\ \A i \in DOMAIN procs :
            /\ alike(procs[i], procs'[i]) /\ procs'[i].public = procs[i].public
            /\ ~inHand(procs[i]) => procs'[i] = procs[i]
            /\ inHand(procs[i]) => procs'[i].execs = procs[i].execs \cup {role}
  BY AlterEffect
<1>5. \A i \in DOMAIN procs : fields(procs'[i]) = fields(procs[i]) /\ key(procs'[i]) = key(procs[i])
                              /\ procs'[i].name = procs[i].name
  BY <1>4, FieldParts DEF alike, key
<1>6. PICK k \in DOMAIN procs : fields(procs[k]) = want(f) /\ ~procs[k].public
  BY <1>1 DEF InHandCreated, SyncedParts
<1>7. procs[k].name = pgName /\ procs[k].args = f.args /\ identity = f.args
      /\ fields(procs[k]) \in asked
  <2>1. procs[k].name = pgName /\ procs[k].args = f.args /\ fields(procs[k]) \in asked
    BY <1>1, <1>6, AsWanted DEF FunctionsInv
  <2>2. identity = f.args
    BY <1>1 DEF InHandCreated, SyncedParts
  <2>3. QED BY <2>1, <2>2
<1>8. Explained'
  <2> SUFFICES ASSUME NEW i \in DOMAIN procs, isManaged(role, procs[i].name), fields(procs[i]) \notin asked
               PROVE  key(procs[i]) \in pending'
    BY <1>1, <1>3, <1>4, <1>5 DEF Explained
  <2>1. key(procs[i]) \in pending
    BY DEF Explained, SyncedParts
  <2>2. key(procs[i]) # <<pgName, identity>>
    <3> SUFFICES ASSUME key(procs[i]) = <<pgName, identity>> PROVE FALSE
      OBVIOUS
    <3>1. same(procs[i], procs[k].name, procs[k].args)
      BY <1>7 DEF same, key
    <3>2. i = k
      BY <3>1 DEF FunctionsInv, UniqueInv
    <3>3. QED BY <1>7, <3>2
  <2>3. QED BY <1>1, <2>1, <2>2 DEF pending, key
<1>9. NewerAsked' /\ ListedAlone'
  BY <1>1, <1>4, FewerOrAlike DEF SyncedParts
<1>10. ListedKept'
  BY <1>1, <1>4, KeptOrAlike DEF SyncedParts, alike
<1>11. AskedSettled'
  <2> SUFFICES ASSUME NEW fn \in Range(functions), fn \notin Range(Tail(left)) PROVE settled(want(fn))'
    BY <1>1 DEF AskedSettled
  <2>1. CASE fn = f
    <3>1. want(f).name = pgName /\ want(f).args = f.args
      BY <1>1, HandParts DEF FunctionsInv
    <3>2. <<want(f).name, want(f).args>> \in dealtWith'
      BY <1>1, <1>7, <3>1
    <3>3. role \in procs'[k].execs
      BY <1>4, <1>7 DEF inHand
    <3>4. /\ k \in DOMAIN procs' /\ fields(procs'[k]) = want(fn) /\ ~procs'[k].public
          /\ role' \in procs'[k].execs /\ want(fn)' = want(fn)
      BY <1>1, <1>2, <1>4, <1>5, <1>6, <2>1, <3>3
    <3>5. QED BY <2>1, <3>2, <3>4 DEF settled
  <2>2. CASE fn # f
    <3>1. fn \notin Range(left)
      <4>1. left \in Seq(Functions)
        BY DEF TypeInv, Typed, FunctionsTypeOK
      <4>2. ASSUME NEW j \in DOMAIN left, left[j] = fn PROVE FALSE
        <5>1. j \in 1..Len(left) /\ j # 1 /\ Len(left) \in Nat
          BY <1>1, <2>2, <4>1, <4>2 DEF f
        <5>2. j - 1 \in DOMAIN Tail(left) /\ Tail(left)[j - 1] = left[j]
          BY <1>1, <4>1, <5>1
        <5>3. QED BY <4>2, <5>2 DEF Range
      <4>3. QED BY <4>2 DEF Range
    <3>2. settled(want(fn))
      BY <3>1 DEF AskedSettled, SyncedParts
    <3>3. PICK i \in DOMAIN procs : fields(procs[i]) = want(fn) /\ ~procs[i].public /\ role \in procs[i].execs
      BY <3>2 DEF settled
    <3>4. role \in procs'[i].execs
      BY <1>4, <3>3
    <3>5. /\ i \in DOMAIN procs' /\ fields(procs'[i]) = want(fn) /\ ~procs'[i].public
          /\ role' \in procs'[i].execs /\ want(fn)' = want(fn)
      BY <1>1, <1>2, <1>4, <1>5, <3>3, <3>4
    <3>6. <<want(fn).name, want(fn).args>> \in dealtWith'
      BY <1>1, <3>2 DEF settled
    <3>7. QED BY <3>5, <3>6 DEF settled
  <2>3. QED BY <2>1, <2>2
<1>12. QED BY <1>1, <1>8, <1>9, <1>10, <1>11 DEF SyncedParts, InHandCreated

\* What is dropped as stale is not settled: that was listed under the same arguments and
\* is not dealt with, or belongs to somebody else and may not be dropped.
LEMMA StaleKeepsSynced ==
    ASSUME TypeInv, FunctionsInv, ProcsType, OidsBounded, Distinct, SyncedParts,
           NEW p \in listed, DropStale(p), pc = "stale"
    PROVE  SyncedParts'
<1>1. /\ pc' = "stale" /\ UNCHANGED <<role, functions, left, dbOwner, listed>>
      /\ dealtWith' = dealtWith \cup {<<p.name, p.args>>} /\ <<p.name, p.args>> \notin dealtWith
      /\ \A i \in DOMAIN procs : same(procs[i], p.name, p.args) => procs[i].owner = p.owner
  BY DEF DropStale, continue, stale, mayDrop, Range
<1>2. /\ DOMAIN procs' = {i \in DOMAIN procs : ~same(procs[i], p.name, p.args)}
      /\ \A i \in DOMAIN procs' : procs'[i] = procs[i]
  BY DroppedType DEF DropStale
<1>3. asked' = asked
  BY <1>1, SameAsked
<1>4. Explained'
  <2> SUFFICES ASSUME NEW i \in DOMAIN procs', isManaged(role, procs[i].name), fields(procs[i]) \notin asked
               PROVE  key(procs[i]) \in pending'
    BY <1>1, <1>2, <1>3 DEF Explained
  <2>1. key(procs[i]) \in pending
    BY <1>2 DEF Explained, SyncedParts
  <2>2. key(procs[i]) # <<p.name, p.args>>
    BY <1>2 DEF key, same
  <2>3. QED BY <1>1, <2>1, <2>2 DEF pending, key
<1>5. NewerAsked' /\ ListedAlone'
  BY <1>1, <1>2, FewerOrAlike DEF SyncedParts, alike
<1>6. AskedSettled'
  <2>1. ASSUME NEW fn \in Range(functions), NEW i \in DOMAIN procs, settled(want(fn)),
               fields(procs[i]) = want(fn)
        PROVE  ~same(procs[i], p.name, p.args)
    <3> SUFFICES ASSUME same(procs[i], p.name, p.args) PROVE FALSE
      OBVIOUS
    <3>1. procs[i].args = p.args /\ procs[i].name = p.name
      BY <1>1 DEF ListedAlone, SyncedParts, same
    <3>2. want(fn).name = p.name /\ want(fn).args = p.args
      BY <2>1, <3>1, FieldParts
    <3>3. QED BY <1>1, <2>1, <3>2 DEF settled
  <2>2. QED BY <1>1, <1>2, <2>1, StillSettled DEF SyncedParts
<1>7. QED BY <1>1, <1>4, <1>5, <1>6 DEF SyncedParts, InHandCreated

\* Every statement keeps the invariant.
LEMMA SyncedStep ==
    ASSUME TypeInv, FunctionsInv, SyncedInv, FunctionsNext
    PROVE  SyncedInv'
<1> SUFFICES ASSUME pc' \in Syncing, Distinct' PROVE SyncedParts'
  BY DEF SyncedInv
<1> ProcsType /\ OidsBounded /\ UniqueInv
  BY DEF TypeInv, Typed, FunctionsTypeOK, ProcsType, FunctionsInv
<1>1. CASE SyncDatabaseFunctions
  BY <1>1, SyncBegins
<1>2. CASE InvalidFunctions \/ FunctionCallFails \/ DropManagedFunctions
  BY <1>2 DEF InvalidFunctions, FunctionCallFails, DropManagedFunctions, endReconcile, continue
<1>3. ASSUME pc \in Syncing, UNCHANGED <<role, functions, dbOwner, listed>> PROVE Distinct /\ SyncedParts
  BY <1>3, SameAsked DEF SyncedInv
<1>4. CASE DropForNewOwner
  <2>1. Distinct /\ SyncedParts
    BY <1>3, <1>4 DEF DropForNewOwner, continue
  <2>2. QED BY <1>4, <2>1, DropKeepsSynced
<1>5. CASE CreateFunction
  <2>1. Distinct /\ SyncedParts
    BY <1>3, <1>5 DEF CreateFunction, continue
  <2>2. QED BY <1>5, <2>1, CreateKeepsSynced
<1>6. CASE LookupIdentity
  <2>1. Distinct /\ SyncedParts
    BY <1>3, <1>6 DEF LookupIdentity, continue
  <2>2. QED BY <1>6, <2>1, LookupKeepsSynced
<1>7. CASE RevokePublic
  <2>1. Distinct /\ SyncedParts
    BY <1>3, <1>7 DEF RevokePublic, continue
  <2>2. QED BY <1>7, <2>1, RevokeKeepsSynced
<1>8. CASE GrantExecute
  <2>1. Distinct /\ SyncedParts
    BY <1>3, <1>8 DEF GrantExecute, continue
  <2>2. QED BY <1>8, <2>1, GrantKeepsSynced
<1>9. CASE BeginStale
  <2>1. pc = "drop" /\ pc' = "stale"
        /\ UNCHANGED <<procs, role, functions, left, dbOwner, listed, dealtWith>>
    BY <1>9 DEF BeginStale, continue
  <2>2. Distinct /\ SyncedParts
    BY <1>3, <2>1
  <2>3. Explained' /\ NewerAsked' /\ ListedAlone'
    BY <2>1, <2>2, FewerOrAlike, StillExplained DEF SyncedParts, alike
  <2>4. AskedSettled'
    BY <2>1, <2>2, StillSettled DEF SyncedParts
  <2>5. QED BY <2>1, <2>3, <2>4 DEF SyncedParts, InHandCreated
<1>10. ASSUME NEW p \in listed, DropStale(p) PROVE SyncedParts'
  <2>1. pc = "stale" /\ UNCHANGED <<role, functions, dbOwner, listed>>
    BY <1>10 DEF DropStale, continue
  <2>2. Distinct /\ SyncedParts
    BY <1>3, <2>1
  <2>3. QED BY <1>10, <2>1, <2>2, StaleKeepsSynced
<1>11. QED
  BY <1>1, <1>2, <1>4, <1>5, <1>6, <1>7, <1>8, <1>9, <1>10 DEF FunctionsNext

\* So does every other step.
LEMMA StepKeepsSynced == TypeInv /\ FunctionsInv /\ SyncedInv /\ [Next]_vars => SyncedInv'
<1> SUFFICES ASSUME TypeInv, FunctionsInv, SyncedInv, [Next]_vars PROVE SyncedInv'
  OBVIOUS
<1>1. CASE FunctionsNext
  BY <1>1, SyncedStep
<1>2. CASE UNCHANGED <<procs, pc, role, functionLocals>>
  <2> SUFFICES ASSUME pc' \in Syncing, Distinct' PROVE SyncedParts'
    BY DEF SyncedInv
  <2>1. UNCHANGED <<procs, pc, role, functions, left, dbOwner, listed, dealtWith, identity>>
    BY <1>2
  <2>2. Distinct /\ SyncedParts
    BY <2>1, SameAsked DEF SyncedInv
  <2>3. ProcsType
    BY DEF TypeInv, Typed, FunctionsTypeOK, ProcsType
  <2>4. Explained' /\ NewerAsked' /\ ListedAlone'
    BY <2>1, <2>2, <2>3, FewerOrAlike, StillExplained DEF SyncedParts, alike
  <2>5. AskedSettled' /\ (pc' # "stale" => ListedKept')
    BY <2>1, <2>2, StillSettled, KeptOrAlike DEF SyncedParts
  <2>6. InHandCreated'
    <3>1. want(f)' = want(f) /\ f' = f
      BY <2>1, SameHand DEF want, ownerOf
    <3>2. QED BY <2>1, <2>2, <3>1 DEF InHandCreated, SyncedParts, isNewest
  <2>7. QED BY <2>4, <2>5, <2>6 DEF SyncedParts
<1>3. CASE Next /\ ~FunctionsNext
  <2>1. /\ UNCHANGED procs
        /\ pc' \notin Syncing \cup {"dropping"} \/ UNCHANGED <<pc, role, functionLocals>>
    BY <1>3, OtherSteps
  <2>2. CASE pc' \notin Syncing \cup {"dropping"}
    BY <2>2 DEF SyncedInv
  <2>3. QED BY <1>2, <2>1, <2>2
<1>4. CASE UNCHANGED vars
  BY <1>2, <1>4 DEF vars
<1>5. QED BY <1>1, <1>3, <1>4

\* A call that has nothing left to do has left what was asked for.
LEMMA SyncedAtEnd == TypeInv /\ FunctionsInv /\ SyncedInv => FunctionsSynced
<1> SUFFICES ASSUME TypeInv, FunctionsInv, SyncedInv, pc = "stale", stale = {}, Distinct
             PROVE  found = asked
  BY DEF FunctionsSynced, functionsDone, Distinct
<1>1. SyncedParts /\ left = <<>>
  BY DEF SyncedInv, FunctionsInv, OwnInv
<1>2. found = {fields(p) : p \in {q \in managedFunctions(role) : ~q.public /\ role \in q.execs}}
  BY DEF found, fields
<1>3. pending = {}
  BY DEF pending, stale, key
<1>4. found \subseteq asked
  <2> SUFFICES ASSUME NEW p \in managedFunctions(role) PROVE fields(p) \in asked
    BY <1>2
  <2>1. PICK i \in DOMAIN procs : procs[i] = p
    BY DEF managedFunctions, Range
  <2>2. QED BY <1>1, <1>3, <2>1 DEF managedFunctions, Explained, SyncedParts
<1>5. asked \subseteq found
  <2> SUFFICES ASSUME NEW fn \in Range(functions) PROVE want(fn) \in found
    BY AskedIsWanted
  <2>1. fn \notin Range(left)
    BY <1>1 DEF Range
  <2>2. settled(want(fn))
    BY <1>1, <2>1 DEF AskedSettled, SyncedParts
  <2>3. PICK i \in DOMAIN procs : fields(procs[i]) = want(fn) /\ ~procs[i].public /\ role \in procs[i].execs
    BY <2>2 DEF settled
  <2>4. procs[i].name = managedFunctionName(role, fn.name)
    BY <2>3, FieldParts DEF want
  <2>5. fn \in Functions /\ role \in Roles
    BY DEF TypeInv, Typed, FunctionsTypeOK, CallInv, Range
  <2>6. role \in Seq(Characters) /\ fn.name \in Seq(Characters)
    BY <2>5, FunctionsAssumption DEF Functions
  <2>7. ~pairIn(fn.name, separator)
    BY DEF FunctionsInv, OwnInv, validateFunction
  <2>8. isManaged(role, procs[i].name)
    BY <2>4, <2>6, <2>7, OwnNameManaged
  <2>9. procs[i] \in managedFunctions(role)
    BY <2>8 DEF managedFunctions, Range
  <2>10. QED BY <1>2, <2>3, <2>9
<1>6. QED BY <1>4, <1>5

\* SyncDatabaseFunctions that returns nil leaves the role exactly the functions that its
\* resource asks for, with their arguments, types, bodies and owners, closed to everybody
\* else, whatever functions there were before and whatever calls have failed; as long as
\* neither the resource nor the role has two functions of one name.
THEOREM FunctionsAchieved == Spec => []FunctionsSynced
<1>1. Init => SyncedInv
  BY DEF Init, SyncedInv
<1>2. QED BY <1>1, CatalogInvariant, StepKeepsSynced, SyncedAtEnd, PTL DEF Spec

-----------------------------------------------------------------------------
(* What isSafeArgs and isSafeReturns accept.                               *)

\* The loop over the first n characters: the depths after each of them.
isRun(bl, s, n, d) == d = [k \in 0..n |-> IF k = 0 THEN 0 ELSE nesting(bl, d[k - 1], s[k])]

\* There is one for every text.
LEMMA RunExists ==
    ASSUME NEW bl, NEW s, NEW m \in Nat
    PROVE  \E d : isRun(bl, s, m, d)
<1> DEFINE S == {n \in Nat : ~ \E d : isRun(bl, s, n, d)}
<1> SUFFICES ASSUME S # {} PROVE FALSE
  OBVIOUS
<1>1. S \in SUBSET Nat
  OBVIOUS
<1>2. PICK n \in S : \A x \in S : n <= x
  BY <1>1, SmallestOf
<1>3. n # 0
  <2>1. isRun(bl, s, 0, [k \in 0..0 |-> 0])
    BY DEF isRun
  <2>2. QED BY <1>2, <2>1
<1>4. n - 1 \in Nat /\ n - 1 \notin S
  BY <1>2, <1>3
<1>5. PICK d : isRun(bl, s, n - 1, d)
  BY <1>4
<1> DEFINE e == [k \in 0..n |-> IF k = n THEN nesting(bl, d[n - 1], s[n]) ELSE d[k]]
<1>6. \A k \in 0..(n - 1) : e[k] = d[k]
  BY <1>2
<1>7. \A k \in 0..n : e[k] = IF k = 0 THEN 0 ELSE nesting(bl, e[k - 1], s[k])
  <2> SUFFICES ASSUME NEW k \in 0..n PROVE e[k] = IF k = 0 THEN 0 ELSE nesting(bl, e[k - 1], s[k])
    OBVIOUS
  <2> HIDE DEF e
  <2>1. CASE k = n
    <3>1. e[n] = nesting(bl, d[n - 1], s[n])
      BY <1>2 DEF e
    <3>2. e[n - 1] = d[n - 1]
      BY <1>4, <1>6
    <3>3. QED BY <1>3, <2>1, <3>1, <3>2
  <2>2. CASE k # n
    <3>1. k \in 0..(n - 1)
      BY <1>2, <2>2
    <3>2. d[k] = IF k = 0 THEN 0 ELSE nesting(bl, d[k - 1], s[k])
      BY <1>5, <3>1 DEF isRun
    <3>3. k # 0 => k - 1 \in 0..(n - 1)
      BY <1>4, <3>1
    <3>4. k # 0 => e[k - 1] = d[k - 1]
      BY <1>6, <3>3
    <3>5. e[k] = d[k]
      BY <1>6, <3>1
    <3>6. QED BY <3>2, <3>4, <3>5
  <2>3. QED BY <2>1, <2>2
<1>8. e = [k \in 0..n |-> e[k]]
  OBVIOUS
<1>9. isRun(bl, s, n, e)
  <2> HIDE DEF e
  <2>1. QED BY <1>7, <1>8 DEF isRun
<1>10. QED BY <1>2, <1>9

\* The verdict on a text is where the loop ends.
LEMMA RunOfText ==
    ASSUME NEW bl, NEW s, Len(s) \in Nat
    PROVE  \E d : isRun(bl, s, Len(s), d) /\ nestingOf(bl, s) = d[Len(s)]
<1> DEFINE d == CHOOSE x : isRun(bl, s, Len(s), x)
<1>1. isRun(bl, s, Len(s), d)
  BY RunExists
<1>2. nestingOf(bl, s) = d[Len(s)]
  BY DEF nestingOf, isRun
<1>3. QED BY <1>1, <1>2

\* Parentheses are no blanks, and neither is SETOF.
LEMMA CharactersDiffer ==
    /\ opening # closing /\ opening \notin whiteSpace /\ closing \notin whiteSpace
    /\ setof \notin whiteSpace /\ setof # opening /\ setof # closing /\ blank \in whiteSpace
BY DEF opening, closing, setof, blank, whiteSpace

\* One turn of the loop.
LEMMA Turn ==
    ASSUME NEW bl, NEW depth \in Int, NEW c, opening \notin bl, closing \notin bl
    PROVE  /\ depth = Refused => nesting(bl, depth, c) = Refused
           /\ depth = 0 /\ c \in bl => nesting(bl, depth, c) = Refused
           /\ nesting(bl, depth, c) # Refused =>
                 nesting(bl, depth, c) = depth + (IF c = opening THEN 1 ELSE IF c = closing THEN -1 ELSE 0)
BY CharactersDiffer DEF nesting, Refused

\* A loop that does not end refused was never refused.
LEMMA NeverRefused ==
    ASSUME NEW bl, NEW s, NEW m \in Nat, NEW d, isRun(bl, s, m, d), d[m] # Refused,
           opening \notin bl, closing \notin bl
    PROVE  /\ d[0] = 0 /\ \A k \in 0..m : d[k] \in Nat
           /\ \A k \in 1..m : d[k] = nesting(bl, d[k - 1], s[k]) /\ d[k] # Refused
<1>1. d[0] = 0 /\ \A k \in 1..m : d[k] = nesting(bl, d[k - 1], s[k])
  BY DEF isRun
<1>2. \A k \in 0..m : d[k] # Refused
  <2> DEFINE T == {k \in 0..m : d[k] = Refused}
  <2> SUFFICES ASSUME T # {} PROVE FALSE
    OBVIOUS
  <2>1. T \in SUBSET (0..m)
    OBVIOUS
  <2>2. PICK k \in T : \A x \in T : x <= k
    BY <2>1, LargestOf
  <2>3. k \in Nat /\ k <= m /\ k # m /\ d[k] = Refused
    BY <2>2
  <2>4. k + 1 \in 1..m /\ (k + 1) - 1 = k /\ k + 1 \in 0..m /\ ~(k + 1 <= k)
    BY <2>3
  <2>5. d[k + 1] = nesting(bl, d[k], s[k + 1])
    BY <1>1, <2>4
  <2>6. d[k + 1] = Refused
    BY <2>3, <2>5 DEF nesting
  <2>7. k + 1 \in T
    BY <2>4, <2>6
  <2>8. QED BY <2>2, <2>4, <2>7
<1>3. \A k \in 0..m : d[k] \in Nat
  <2> DEFINE S == {k \in 0..m : d[k] \notin Nat}
  <2> SUFFICES ASSUME S # {} PROVE FALSE
    OBVIOUS
  <2>1. S \in SUBSET Nat
    OBVIOUS
  <2>2. PICK k \in S : \A x \in S : k <= x
    BY <2>1, SmallestOf
  <2>3. k \in Nat /\ k <= m /\ d[k] \notin Nat /\ k # 0
    BY <1>1, <2>2
  <2>4. k - 1 \in 0..m /\ k \in 1..m /\ ~(k <= k - 1)
    BY <2>3
  <2>5. k - 1 \notin S
    BY <2>2, <2>4
  <2>6. d[k - 1] \in Nat
    BY <2>4, <2>5
  <2>7. d[k] = nesting(bl, d[k - 1], s[k]) /\ d[k] # Refused /\ d[k - 1] # Refused
    BY <1>1, <1>2, <2>3, <2>4
  <2>8. d[k] = d[k - 1] + (IF s[k] = opening THEN 1 ELSE IF s[k] = closing THEN -1 ELSE 0)
    BY <2>6, <2>7, Turn
  <2>9. QED BY <2>3, <2>6, <2>7, <2>8 DEF Refused
<1>4. QED
  <2>1. \A k \in 1..m : k \in 0..m
    OBVIOUS
  <2>2. QED BY <1>1, <1>2, <1>3, <2>1

\* How often a character occurs.
LEMMA CountStep ==
    ASSUME NEW s, NEW c, NEW n \in Nat
    PROVE  /\ count(s, c, n) \in Nat /\ count(s, c, 0) = 0
           /\ count(s, c, n + 1) = count(s, c, n) + (IF s[n + 1] = c THEN 1 ELSE 0)
<1> DEFINE at(m) == {i \in 1..m : s[i] = c}
<1>1. IsFiniteSet(1..n)
  BY FS_Interval
<1>2. at(n) \in SUBSET (1..n)
  OBVIOUS
<1>3. IsFiniteSet(at(n)) /\ Cardinality(at(n)) \in Nat
  BY <1>1, <1>2, FS_Subset, FS_CardinalityType
<1>4. at(0) = {}
  OBVIOUS
<1>5. at(n + 1) = IF s[n + 1] = c THEN at(n) \cup {n + 1} ELSE at(n)
  <2>1. 1..(n + 1) = (1..n) \cup {n + 1} /\ n + 1 \notin 1..n
    OBVIOUS
  <2>2. QED BY <2>1
<1>6. n + 1 \notin at(n)
  OBVIOUS
<1>7. Cardinality({}) = 0
  BY FS_EmptySet
<1>8. Cardinality(at(n) \cup {n + 1}) = Cardinality(at(n)) + 1
  <2> HIDE DEF at
  <2>1. QED BY <1>3, <1>6, FS_AddElement
<1>9. count(s, c, n) = Cardinality(at(n)) /\ count(s, c, n + 1) = Cardinality(at(n + 1))
      /\ count(s, c, 0) = Cardinality(at(0))
  BY DEF count
<1> HIDE DEF at
<1>10. QED BY <1>3, <1>4, <1>5, <1>7, <1>8, <1>9

\* How many parentheses are open.
LEMMA OpenStep ==
    ASSUME NEW s, NEW n \in Nat
    PROVE  /\ open(s, n) \in Int /\ open(s, 0) = 0
           /\ open(s, n + 1) = open(s, n) + (IF s[n + 1] = opening THEN 1 ELSE IF s[n + 1] = closing THEN -1 ELSE 0)
BY CountStep, CharactersDiffer DEF open

\* The text t of length m is what follows the first k characters of s.
follows(s, k, m, t) == \A i \in 1..m : t[i] = s[k + i]

\* A loop over the end of a text, before which everything is closed, counts what is open;
\* and a blank that it passes is inside parentheses.
LEMMA OpenIsDepth ==
    ASSUME NEW bl, NEW s, NEW t, NEW k \in Nat, NEW m \in Nat, NEW d, isRun(bl, t, m, d), d[m] = 0,
           opening \notin bl, closing \notin bl, open(s, k) = 0, follows(s, k, m, t)
    PROVE  /\ \A n \in 0..m : open(s, k + n) = d[n] /\ d[n] \in Nat
           /\ \A n \in 1..m : t[n] \in bl => d[n] > 0
<1>1. /\ d[0] = 0 /\ \A n \in 0..m : d[n] \in Nat
      /\ \A n \in 1..m : d[n] = nesting(bl, d[n - 1], t[n]) /\ d[n] # Refused
  BY NeverRefused DEF Refused
<1>2. \A n \in 1..m : n - 1 \in 0..m /\ n \in 0..m /\ n \in Nat /\ n - 1 \in Nat
  OBVIOUS
<1>3. ASSUME NEW n \in 1..m
      PROVE  d[n] = d[n - 1] + (IF t[n] = opening THEN 1 ELSE IF t[n] = closing THEN -1 ELSE 0)
  <2>1. d[n - 1] \in Int /\ d[n] = nesting(bl, d[n - 1], t[n]) /\ nesting(bl, d[n - 1], t[n]) # Refused
    BY <1>1, <1>2
  <2>2. QED BY <2>1, Turn
<1>4. \A n \in 0..m : open(s, k + n) = d[n]
  <2> DEFINE S == {n \in 0..m : open(s, k + n) # d[n]}
  <2> SUFFICES ASSUME S # {} PROVE FALSE
    OBVIOUS
  <2>1. S \in SUBSET Nat
    OBVIOUS
  <2>2. PICK n \in S : \A x \in S : n <= x
    BY <2>1, SmallestOf
  <2>3. n \in Nat /\ n <= m /\ open(s, k + n) # d[n] /\ n # 0
    <3>1. k + 0 = k
      OBVIOUS
    <3>2. QED BY <1>1, <2>2, <3>1
  <2>4. n \in 1..m /\ n - 1 \in 0..m /\ ~(n <= n - 1)
    BY <2>3
  <2>5. n - 1 \notin S
    BY <2>2, <2>4
  <2>6. open(s, k + (n - 1)) = d[n - 1]
    BY <2>4, <2>5
  <2>7. PICK j \in Nat : j = k + (n - 1)
    BY <2>3
  <2>8. j + 1 = k + n
    BY <2>3, <2>7
  <2>9. open(s, k + n) = open(s, j) + (IF s[k + n] = opening THEN 1 ELSE IF s[k + n] = closing THEN -1 ELSE 0)
    BY <2>8, OpenStep
  <2>10. t[n] = s[k + n]
    BY <2>4 DEF follows
  <2>11. QED BY <1>3, <2>3, <2>4, <2>6, <2>7, <2>9, <2>10
<1>5. ASSUME NEW n \in 1..m, t[n] \in bl PROVE d[n] > 0
  <2>1. d[n] = nesting(bl, d[n - 1], t[n]) /\ d[n] # Refused /\ d[n - 1] \in Nat
    BY <1>1, <1>2
  <2>2. d[n - 1] # 0
    <3>1. d[n - 1] \in Int
      BY <2>1
    <3>2. QED BY <1>5, <2>1, <3>1, Turn
  <2>3. d[n] = d[n - 1]
    BY <1>3, <1>5, <2>1
  <2>4. QED BY <2>1, <2>2, <2>3
<1>6. QED BY <1>1, <1>4, <1>5

\* Nothing is open after any of the first k characters.
closedUpTo(s, k) == \A n \in 0..k : open(s, n) = 0

\* If the loop over the rest of a text ends with everything closed, the text is balanced.
LEMMA BalancedRest ==
    ASSUME NEW bl, NEW C, NEW s \in Seq(C), NEW t, NEW k \in Nat, NEW m \in Nat, Len(t) = m,
           k + m = Len(s), follows(s, k, m, t), closedUpTo(s, k), nestingOf(bl, t) = 0,
           opening \notin bl, closing \notin bl
    PROVE  /\ balanced(s)
           /\ \A i \in DOMAIN s : s[i] \in bl => open(s, i) > 0 \/ i \in 1..k
<1>1. Len(s) \in Nat /\ DOMAIN s = 1..Len(s)
  OBVIOUS
<1>2. PICK d : isRun(bl, t, m, d) /\ d[m] = 0
  BY RunOfText
<1>3. open(s, k) = 0
  BY DEF closedUpTo
<1>4. /\ \A n \in 0..m : open(s, k + n) = d[n] /\ d[n] \in Nat
      /\ \A n \in 1..m : t[n] \in bl => d[n] > 0
  BY <1>2, <1>3, OpenIsDepth
<1>5. ASSUME NEW n \in 0..Len(s), ~(n <= k)
      PROVE  open(s, n) >= 0 /\ (s[n] \in bl => open(s, n) > 0)
  <2>1. PICK j \in 1..m : j = n - k
    BY <1>1, <1>5
  <2>2. k + j = n /\ j \in 0..m
    BY <1>1, <2>1
  <2>3. open(s, n) = d[j] /\ d[j] \in Nat /\ t[j] = s[n]
    BY <1>4, <2>2 DEF follows
  <2>4. QED BY <1>4, <2>3
<1>6. ASSUME NEW n \in 0..Len(s) PROVE open(s, n) >= 0
  <2>1. CASE n <= k
    <3>1. n \in 0..k
      BY <2>1
    <3>2. QED BY <3>1 DEF closedUpTo
  <2>2. QED BY <1>5, <2>1
<1>7. open(s, Len(s)) = 0
  <2>1. m \in 0..m
    OBVIOUS
  <2>2. QED BY <1>2, <1>4, <2>1
<1>8. ASSUME NEW i \in DOMAIN s, s[i] \in bl PROVE open(s, i) > 0 \/ i \in 1..k
  <2>1. i \in 0..Len(s) /\ 1 <= i /\ i \in Nat
    BY <1>1
  <2>2. CASE i <= k
    BY <2>1, <2>2
  <2>3. QED BY <1>5, <1>8, <2>1, <2>2
<1>9. QED BY <1>6, <1>7, <1>8 DEF balanced

\* The whole text follows its first no characters.
LEMMA WholeText ==
    ASSUME NEW C, NEW s \in Seq(C)
    PROVE  /\ Len(s) \in Nat /\ 0 + Len(s) = Len(s)
           /\ follows(s, 0, Len(s), s) /\ closedUpTo(s, 0)
<1>1. Len(s) \in Nat /\ 0 + Len(s) = Len(s) /\ \A i \in 1..Len(s) : 0 + i = i
  OBVIOUS
<1>2. open(s, 0) = 0
  BY OpenStep
<1>3. QED BY <1>1, <1>2 DEF follows, closedUpTo

\* PostgreSQL reads a text without quotes as it is written.
LEMMA ReadAsWritten ==
    ASSUME NEW C, NEW s \in Seq(C), plain(s) PROVE read(s) = s
<1>1. Len(s) \in Nat /\ DOMAIN s = 1..Len(s)
  OBVIOUS
<1>2. ASSUME NEW i \in 1..Len(s) PROVE ~quotedName(s, i)
  <2>1. {j \in 1..i : s[j] = quote} = {}
    BY <1>1, <1>2 DEF plain
  <2>2. count(s, quote, i) = 0
    BY <2>1, FS_EmptySet DEF count
  <2>3. QED BY <2>2 DEF quotedName
<1>3. read(s) = [i \in 1..Len(s) |-> s[i]]
  BY <1>2 DEF read
<1>4. QED BY <1>1, <1>3

\* An argument list that is accepted closes what it opens, and no more.
LEMMA SafeArgs ==
    ASSUME NEW C, NEW s \in Seq(C), isSafeArgs(s)
    PROVE  balanced(s)
<1>1. PICK none : none = {}
  OBVIOUS
<1>2. ~forbidden(s) /\ nestingOf(none, s) = 0
  BY <1>1 DEF isSafeArgs
<1>3. opening \notin none /\ closing \notin none
  BY <1>1
<1>4. QED BY <1>2, <1>3, WholeText, BalancedRest

\* So does a return type, and it has no blank outside parentheses but the one after SETOF.
LEMMA SafeReturns ==
    ASSUME NEW C, NEW s \in Seq(C), isSafeReturns(s), plain(s)
    PROVE  balanced(s) /\ oneWord(s)
<1>1. Len(s) \in Nat /\ DOMAIN s = 1..Len(s)
  OBVIOUS
<1>0. \A i \in DOMAIN s : s[i] \in whiteSpace \cup {formFeed} => s[i] \in whiteSpace
  BY DEF plain
<1>2. CASE ~IsPrefix(<<setof, blank>>, s)
  <2>1. nestingOf(whiteSpace, s) = 0
    BY <1>2 DEF isSafeReturns
  <2>2. balanced(s) /\ \A i \in DOMAIN s : s[i] \in whiteSpace => open(s, i) > 0 \/ i \in 1..0
    BY <2>1, CharactersDiffer, WholeText, BalancedRest
  <2>3. QED BY <1>0, <1>1, <2>2 DEF oneWord
<1>3. CASE IsPrefix(<<setof, blank>>, s)
  <2>1. PICK t : t = SubSeq(s, 3, Len(s))
    OBVIOUS
  <2>2. nestingOf(whiteSpace, t) = 0
    BY <1>3, <2>1 DEF isSafeReturns
  <2>3. 2 <= Len(s) /\ s[1] = setof /\ s[2] = blank
    <3>1. Len(<<setof, blank>>) = 2 /\ <<setof, blank>>[1] = setof /\ <<setof, blank>>[2] = blank
      OBVIOUS
    <3>2. 2 <= Len(s) /\ SubSeq(<<setof, blank>>, 1, 2) = SubSeq(s, 1, 2)
      BY <1>3, <3>1 DEF IsPrefix
    <3>3. <<setof, blank>> \in Seq({setof, blank})
      OBVIOUS
    <3>4. SubSeq(<<setof, blank>>, 1, 2)[1] = setof /\ SubSeq(<<setof, blank>>, 1, 2)[2] = blank
      <4>1. \A i \in 1..(2 - 1 + 1) : SubSeq(<<setof, blank>>, 1, 2)[i] = <<setof, blank>>[1 + i - 1]
        BY <3>1, <3>3, SubText
      <4>2. 1 \in 1..(2 - 1 + 1) /\ 2 \in 1..(2 - 1 + 1) /\ 1 + 1 - 1 = 1 /\ 1 + 2 - 1 = 2
        OBVIOUS
      <4>3. QED BY <3>1, <4>1, <4>2
    <3>5. SubSeq(s, 1, 2)[1] = s[1] /\ SubSeq(s, 1, 2)[2] = s[2]
      <4>1. \A i \in 1..(2 - 1 + 1) : SubSeq(s, 1, 2)[i] = s[1 + i - 1]
        BY <1>1, <3>2, SubText
      <4>2. 1 \in 1..(2 - 1 + 1) /\ 2 \in 1..(2 - 1 + 1) /\ 1 + 1 - 1 = 1 /\ 1 + 2 - 1 = 2
        OBVIOUS
      <4>3. QED BY <4>1, <4>2
    <3>6. QED BY <3>2, <3>4, <3>5
  <2>4. Len(s) - 2 \in Nat
    BY <1>1, <2>3
  <2>5. PICK m \in Nat : m = Len(s) - 2
    BY <2>4
  <2>6. PICK k \in Nat : k = 2
    OBVIOUS
  <2>7. k <= Len(s) /\ k + 1 = 3 /\ Len(s) - k = m /\ k + m = Len(s)
    BY <1>1, <2>3, <2>5, <2>6
  <2>8. Len(t) = m /\ follows(s, k, m, t)
    <3>1. Len(SubSeq(s, k + 1, Len(s))) = Len(s) - k
          /\ \A i \in 1..(Len(s) - k) : SubSeq(s, k + 1, Len(s))[i] = s[k + i]
      BY <2>7, RestOfText
    <3>2. QED BY <2>1, <2>7, <3>1 DEF follows
  <2>9. closedUpTo(s, k)
    <3>1. s[0 + 1] = setof /\ s[1 + 1] = blank /\ blank # opening /\ blank # closing
      BY <2>3, CharactersDiffer
    <3>2. open(s, 0) = 0 /\ open(s, 0 + 1) = 0
      BY <3>1, CharactersDiffer, OpenStep
    <3>3. open(s, 1) = 0
      BY <3>2
    <3>4. open(s, 1 + 1) = 0
      BY <3>1, <3>3, OpenStep
    <3>5. QED BY <2>6, <3>2, <3>3, <3>4 DEF closedUpTo
  <2>10. balanced(s) /\ \A i \in DOMAIN s : s[i] \in whiteSpace => open(s, i) > 0 \/ i \in 1..k
    BY <2>2, <2>7, <2>8, <2>9, CharactersDiffer, BalancedRest
  <2>11. \A i \in 1..k : s[i] \in whiteSpace => i = 2
    BY <2>3, <2>6, CharactersDiffer
  <2>12. QED BY <1>0, <1>1, <2>3, <2>10, <2>11 DEF oneWord
<1>4. QED BY <1>1, <1>2, <1>3

\* Of every function that a call creates, and for texts of every length, isSafeArgs and
\* isSafeReturns have counted the parentheses right, if no quoted name, dollar quote or form
\* feed is in the text.
THEOREM WellFormed == Spec => []StatementsWellFormed
<1>1. TypeInv /\ FunctionsInv => StatementsWellFormed
  <2> SUFFICES ASSUME TypeInv, OwnInv, pc = "create"
               PROVE  /\ plain(f.args) => balanced(read(f.args))
                      /\ plain(f.returns) => balanced(read(f.returns)) /\ oneWord(read(f.returns))
    BY DEF FunctionsInv, StatementsWellFormed
  <2>1. f \in Functions /\ f \in Range(functions)
    BY HandParts DEF TypeInv, CallInv
  <2>2. f.args \in Seq(Characters) /\ f.returns \in Seq(Characters)
    BY <2>1, FunctionsAssumption DEF Functions
  <2>3. isSafeArgs(f.args) /\ isSafeReturns(f.returns)
    BY <2>1 DEF OwnInv, validateFunction
  <2>4. QED BY <2>2, <2>3, ReadAsWritten, SafeArgs, SafeReturns
<1>2. QED BY <1>1, CatalogInvariant, PTL
=============================================================================
