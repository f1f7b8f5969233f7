---------------------------- MODULE MigrationProofs ----------------------------
(***************************************************************************)
(* The repair of the ids, for any number of files, any contents and any    *)
(* number of interrupted starts: no problem file is lost, a finished start *)
(* leaves nothing to repair, and the references follow their problems.     *)
(***************************************************************************)
EXTENDS Migration, TLAPS

Ids == Range(Numbers) \cup Range(Names)

\* Files have the names the model knows, and whole ones carry such an id.
FilesOK ==
  /\ files = [s \in Ids |-> files[s]]
  /\ \A s \in Ids : /\ files[s] # Absent => files[s].kind \in {"broken", "list", "whole"}
                    /\ files[s].kind = "whole" => files[s].id \in Ids
  /\ pc \in {"scan", "file", "unlink", "refs", "up", "failed"}

\* While a start goes through the files, every safe name that exists is in use.
NamesUsed == pc \in {"file", "unlink"} => LegalStems \subseteq used

\* What is left to do exists; a file that is not left needs no repair.
Repaired == \A s \in Ids : Exists(s) => Skipped(s)

TodoOK ==
  /\ pc \in {"file", "unlink"} =>
       /\ \A s \in todo : s \in Ids /\ Exists(s)
       /\ \A s \in Ids : Exists(s) => s \in todo \/ Skipped(s)
  /\ pc = "unlink" => \A s \in todo : Foremost(s, todo) => ~Skipped(s) /\ files[s].kind = "whole"
  /\ pc \in {"refs", "up"} => Repaired

\* The body of a problem is in a file that the start is not about to remove.
Kept(s) ==
  \E t \in Ids : files[t].kind = "whole" /\ files[t].body = s /\ (pc = "unlink" => ~Foremost(t, todo))

\* New ids are safe.
MappingOK ==
  /\ mapping \in Seq(Ids \X Ids)
  /\ \A k \in DOMAIN mapping : Legal(mapping[k][2])

\* The references that are still unsafe wait for a number or for their update.
RefsOK ==
  /\ DOMAIN draft = DOMAIN refs
  /\ \A i \in DOMAIN refs : refs[i] \in Ids /\ draft[i] \in Ids
  /\ results = [i \in DOMAIN results |-> results[i]] /\ \A i \in DOMAIN results : results[i] \in Ids
  /\ applied \in Nat

Awaiting ==
  pc = "refs" =>
    /\ applied <= Len(mapping) /\ (applied > 0 => Missing = {})
    /\ \A i \in DOMAIN refs :
         Legal(draft[i]) \/ draft[i] \in Missing \/ \E k \in DOMAIN mapping : k > applied /\ mapping[k][1] = draft[i]
    /\ \A i \in DOMAIN results :
         Legal(results[i]) \/ results[i] \in Missing \/ \E k \in DOMAIN mapping : mapping[k][1] = results[i]

\* After a finished start there is nothing to do.
Settled ==
  settled # <<>> =>
    /\ settled = <<files, refs, results>> /\ Repaired
    /\ (\A i \in DOMAIN refs : Legal(refs[i])) /\ \A i \in DOMAIN results : Legal(results[i])
    /\ pc \notin {"unlink", "failed"}
    /\ pc \in {"file", "refs"} => mapping = <<>>
    /\ pc = "refs" => draft = refs

IInv ==
  /\ FilesOK /\ NamesUsed /\ TodoOK /\ MappingOK /\ RefsOK /\ Awaiting
  /\ (\A s \in Whole1 : Kept(s)) /\ Settled

-----------------------------------------------------------------------------
(* The first start, where the files carry the ids of their names *)

Undisturbed == ~crashed /\ \A s \in Whole1 : first[s].id = s

\* The file of a problem has got the number that its references will get.
Moved(s) == \E k \in DOMAIN mapping : mapping[k][1] = s /\ files[mapping[k][2]] = Whole(mapping[k][2], s)

FilesMoved ==
  /\ pc = "scan" => files = first
  /\ pc \in {"file", "unlink"} => \A s \in todo : files[s] = first[s]
  /\ \A s \in Whole1 : Legal(s) => files[s] = Whole(s, s)
  /\ pc \in {"file", "unlink", "refs"} => \A s \in Whole1 :
       \/ Legal(s) \/ Moved(s)
       \/ pc # "refs" /\ s \in todo /\ (pc = "unlink" => ~Foremost(s, todo))

KeysOK ==
  pc \in {"file", "unlink", "refs"} =>
    /\ \A k \in DOMAIN mapping : ~Legal(mapping[k][1])
    /\ \A j, k \in DOMAIN mapping : mapping[j][1] = mapping[k][1] => j = k
    /\ pc # "refs" => \A k \in DOMAIN mapping :
         /\ mapping[k][1] \in todo => pc = "unlink" /\ Foremost(mapping[k][1], todo)
         /\ mapping[k][2] \notin todo /\ mapping[k][2] \in used

RefsMoved ==
  /\ (\A i \in DOMAIN refs : refs[i] = i) /\ \A i \in DOMAIN results : results[i] = i
  /\ pc = "refs" => \A i \in DOMAIN refs :
       \/ draft[i] = i
       \/ ~Legal(i) /\ \E k \in DOMAIN mapping : mapping[k] = <<i, draft[i]>>

FirstStart == pc \notin {"up", "failed"} /\ FilesMoved /\ KeysOK /\ RefsMoved

\* Nothing is said where a start fails at a file that is no object: it stays.
Stuck == \E s \in Ids : files[s].kind = "list"

Leads(now) ==
  \A i \in DOMAIN now :
    /\ Legal(now[i]) /\ (Legal(i) => now[i] = i)
    /\ i \in Whole1 => files[now[i]] = Whole(now[i], i)

Follow == Leads(refs) /\ Leads(results)

FInv ==
  /\ pc = "up" => settled # <<>>
  /\ DOMAIN first = Ids /\ \A s \in Whole1 : first[s] = Whole(first[s].id, s)
  /\ Undisturbed => IF settled # <<>> THEN Follow ELSE Stuck \/ FirstStart

Inv == IInv /\ FInv

-----------------------------------------------------------------------------
(* The operators *)

LEMMA OrderRange == Range(Order) = Ids
<1>1. Numbers \in Seq(Range(Numbers)) /\ Names \in Seq(Range(Names))
  BY MigrationAssumption
<1>2. /\ DOMAIN Order = 1 .. Len(Numbers) + Len(Names)
      /\ DOMAIN Numbers = 1 .. Len(Numbers) /\ DOMAIN Names = 1 .. Len(Names)
      /\ Len(Numbers) \in Nat /\ Len(Names) \in Nat
      /\ \A k \in DOMAIN Order : Order[k] = IF k <= Len(Numbers) THEN Numbers[k] ELSE Names[k - Len(Numbers)]
  BY <1>1 DEF Order
<1>3. Range(Order) \subseteq Ids
  <2> SUFFICES ASSUME NEW k \in DOMAIN Order PROVE Order[k] \in Ids
    BY DEF Range
  <2>1. CASE k <= Len(Numbers)
    BY <1>2, <2>1 DEF Ids, Range
  <2>2. CASE ~(k <= Len(Numbers))
    <3>1. k - Len(Numbers) \in DOMAIN Names
      BY <1>2, <2>2
    <3> QED BY <1>2, <2>2, <3>1 DEF Ids, Range
  <2> QED BY <2>1, <2>2
<1>4. \A k \in DOMAIN Numbers : k \in DOMAIN Order /\ Order[k] = Numbers[k]
  BY <1>2
<1>5. \A k \in DOMAIN Names : k + Len(Numbers) \in DOMAIN Order /\ Order[k + Len(Numbers)] = Names[k]
  BY <1>2
<1>6. Ids \subseteq Range(Order)
  BY <1>4, <1>5 DEF Ids, Range
<1> QED BY <1>3, <1>6

\* The places in the order tell the ids apart, so at most one is the foremost.
LEMMA OneForemost ==
  ASSUME NEW S, \A s \in S : s \in Ids, NEW s, Foremost(s, S), NEW t, Foremost(t, S)
  PROVE  s = t
<1>1. ASSUME NEW i \in Ids
      PROVE  Position(i) \in Nat /\ Order[Position(i)] = i
  <2>1. \E k \in DOMAIN Order : Order[k] = i
    BY <1>1, OrderRange DEF Range
  <2>2. DOMAIN Order \subseteq Nat
    BY MigrationAssumption DEF Order
  <2> QED BY <2>1, <2>2 DEF Position
<1>2. s \in S /\ t \in S /\ Position(s) <= Position(t) /\ Position(t) <= Position(s)
  BY DEF Foremost
<1>3. Position(s) \in Nat /\ Position(t) \in Nat /\ Order[Position(s)] = s /\ Order[Position(t)] = t
  BY <1>1, <1>2
<1>4. Position(s) = Position(t)
  BY <1>2, <1>3
<1> QED BY <1>3, <1>4

\* A number that is given out is safe and not in use.
LEMMA FreeIsNew ==
  ASSUME NumbersLeft
  PROVE  LET i == Numbers[Free(next, used)] IN i \in Ids /\ Legal(i) /\ i \notin used
<1>1. Free(next, used) \in DOMAIN Numbers /\ NextFree(next, used, Free(next, used))
  BY DEF NumbersLeft, Free
<1>2. Numbers[Free(next, used)] \in Range(Numbers)
  BY <1>1 DEF Range
<1> QED BY <1>1, <1>2, MigrationAssumption DEF NextFree, Ids, Legal

LEMMA WholeFields ==
  /\ \A i, b : Whole(i, b).kind = "whole" /\ Whole(i, b).id = i /\ Whole(i, b).body = b /\ Whole(i, b) # Absent
  /\ Absent.kind = "absent"
<1>1. Absent.kind = "absent"
  BY DEF Absent
<1>2. \A i, b : Whole(i, b).kind = "whole" /\ Whole(i, b).id = i /\ Whole(i, b).body = b
  BY DEF Whole
<1> QED BY <1>1, <1>2

\* An entry of the mapping is an old one or the one that was entered.
LEMMA EnterPairs ==
  ASSUME NEW m \in Seq(Ids \X Ids), NEW old \in Ids, NEW new \in Ids
  PROVE  /\ Enter(m, old, new) \in Seq(Ids \X Ids)
         /\ \A k \in DOMAIN Enter(m, old, new) :
              \/ k \in DOMAIN m /\ Enter(m, old, new)[k] = m[k]
              \/ Enter(m, old, new)[k] = <<old, new>>
<1>1. CASE \E i \in DOMAIN m : m[i][1] = old
  <2> DEFINE e == [i \in DOMAIN m |-> IF m[i][1] = old THEN <<old, new>> ELSE m[i]]
  <2>1. Enter(m, old, new) = e
    BY <1>1 DEF Enter
  <2>2. DOMAIN m = 1 .. Len(m) /\ Len(m) \in Nat /\ \A i \in DOMAIN m : m[i] \in Ids \X Ids
    OBVIOUS
  <2>3. \A i \in 1 .. Len(m) : e[i] \in Ids \X Ids
    BY <2>2
  <2>4. e \in Seq(Ids \X Ids)
    BY <2>2, <2>3
  <2> QED BY <2>1, <2>4
<1>2. CASE ~\E i \in DOMAIN m : m[i][1] = old
  <2>1. Enter(m, old, new) = Append(m, <<old, new>>)
    BY <1>2, Zenon DEF Enter
  <2>2. /\ Append(m, <<old, new>>) \in Seq(Ids \X Ids)
        /\ DOMAIN Append(m, <<old, new>>) = 1 .. Len(m) + 1 /\ DOMAIN m = 1 .. Len(m)
        /\ \A k \in 1 .. Len(m) : Append(m, <<old, new>>)[k] = m[k]
        /\ Append(m, <<old, new>>)[Len(m) + 1] = <<old, new>>
    OBVIOUS
  <2> QED BY <2>1, <2>2
<1> QED BY <1>1, <1>2

\* What appending an entry leaves of the mapping
LEMMA Appended ==
  ASSUME NEW m \in Seq(Ids \X Ids), NEW old \in Ids, NEW new \in Ids
  PROVE  LET a == Append(m, <<old, new>>) IN
           /\ a \in Seq(Ids \X Ids) /\ Len(a) = Len(m) + 1
           /\ DOMAIN m = 1 .. Len(m) /\ DOMAIN a = DOMAIN m \cup {Len(m) + 1}
           /\ \A k \in DOMAIN m : a[k] = m[k] /\ k # Len(m) + 1
           /\ a[Len(m) + 1] = <<old, new>>
OBVIOUS

LEMMA EnterNew ==
  ASSUME NEW m, NEW old, NEW new, \A k \in DOMAIN m : m[k][1] # old
  PROVE  Enter(m, old, new) = Append(m, <<old, new>>)
BY Zenon DEF Enter

LEMMA NoPairs == <<>> \in Seq(Ids \X Ids) /\ \A k \in DOMAIN <<>> : FALSE
<1>1. <<>> \in Seq(Ids \X Ids)
  OBVIOUS
<1>2. DOMAIN <<>> = {}
  OBVIOUS
<1> QED BY <1>1, <1>2

-----------------------------------------------------------------------------
(* The start of a start *)

LEMMA InitHolds == Init => Inv
<1> SUFFICES ASSUME Init PROVE Inv
  OBVIOUS
<1>1. PICK f \in [Stems -> {Absent, [kind |-> "broken"], [kind |-> "list"]} \cup {Whole(i, "") : i \in Stems}] :
        files = [s \in Range(Order) |-> IF s \notin Stems THEN Absent
                  ELSE IF f[s].kind = "whole" THEN Whole(f[s].id, s) ELSE f[s]]
  BY DEF Init
<1>2. /\ pc = "scan" /\ first = files /\ Stems \subseteq Ids /\ mapping = <<>>
      /\ results = refs /\ draft = refs /\ applied = 0 /\ settled = <<>>
  BY MigrationAssumption DEF Init, Ids
<1>3. files = [s \in Ids |-> files[s]] /\ DOMAIN files = Ids
  BY <1>1, OrderRange
<1>4. PICK S \in SUBSET Stems : refs = [i \in S |-> i]
  BY DEF Init
<1>5. ASSUME NEW s \in Ids
      PROVE  /\ files[s] # Absent => files[s].kind \in {"broken", "list", "whole"}
             /\ files[s].kind = "whole" => files[s].id \in Ids /\ files[s] = Whole(files[s].id, s)
  <2>1. CASE s \notin Stems
    <3>1. files[s] = Absent
      BY <1>1, <2>1, OrderRange, Zenon
    <3> QED BY <3>1, WholeFields
  <2>2. CASE s \in Stems /\ f[s] \in {Whole(i, "") : i \in Stems}
    <3>1. PICK i \in Stems : f[s] = Whole(i, "")
      BY <2>2
    <3>2. f[s].kind = "whole" /\ f[s].id = i
      <4>1. Whole(i, "").kind = "whole" /\ Whole(i, "").id = i
        BY WholeFields
      <4> QED BY <3>1, <4>1, ZenonT(30)
    <3>3. files[s] = Whole(i, s)
      BY <1>1, <2>2, <3>2, OrderRange, Zenon
    <3>4. files[s].kind = "whole" /\ files[s].id = i
      <4>1. Whole(i, s).kind = "whole" /\ Whole(i, s).id = i
        BY WholeFields
      <4> QED BY <3>3, <4>1, ZenonT(30)
    <3> QED BY <1>2, <3>3, <3>4
  <2>3. CASE s \in Stems /\ f[s] \in {Absent, [kind |-> "broken"], [kind |-> "list"]}
    <3>1. [kind |-> "broken"].kind = "broken" /\ [kind |-> "list"].kind = "list"
      OBVIOUS
    <3>2. f[s].kind \in {"absent", "broken", "list"} /\ (f[s] # Absent => f[s].kind # "absent")
      BY <2>3, <3>1, WholeFields
    <3>3. files[s] = f[s]
      BY <1>1, <2>3, <3>2, OrderRange
    <3> QED BY <3>2, <3>3
  <2> QED BY <2>1, <2>2, <2>3
<1>6. FilesOK
  BY <1>2, <1>3, <1>5 DEF FilesOK
<1>7. NamesUsed /\ TodoOK /\ Awaiting /\ Settled
  BY <1>2 DEF NamesUsed, TodoOK, Awaiting, Settled
<1>8. MappingOK
  <2>1. mapping = <<>>
    BY <1>2
  <2> QED BY <2>1, NoPairs DEF MappingOK
<1>9. RefsOK
  BY <1>2, <1>4 DEF RefsOK
<1>10. DOMAIN first = Ids /\ \A s \in Whole1 : s \in Ids /\ first[s] = Whole(first[s].id, s)
  BY <1>2, <1>3, <1>5 DEF Whole1
<1>11. \A s \in Whole1 : Kept(s)
  <2> SUFFICES ASSUME NEW s \in Whole1 PROVE Kept(s)
    OBVIOUS
  <2>1. s \in Ids /\ files[s] = Whole(first[s].id, s)
    BY <1>2, <1>10
  <2>2. files[s].kind = "whole" /\ files[s].body = s
    <3>1. Whole(first[s].id, s).kind = "whole" /\ Whole(first[s].id, s).body = s
      BY WholeFields
    <3> QED BY <2>1, <3>1
  <2> QED BY <1>2, <2>1, <2>2 DEF Kept
<1>12. Undisturbed => FirstStart
  <2> SUFFICES ASSUME Undisturbed PROVE FirstStart
    OBVIOUS
  <2>1. \A s \in Whole1 : files[s] = Whole(s, s)
    BY <1>2, <1>10 DEF Undisturbed
  <2>2. FilesMoved
    BY <1>2, <2>1 DEF FilesMoved
  <2>3. KeysOK /\ RefsMoved
    BY <1>2, <1>4 DEF KeysOK, RefsMoved
  <2> QED BY <1>2, <2>2, <2>3 DEF FirstStart
<1> QED BY <1>2, <1>6, <1>7, <1>8, <1>9, <1>10, <1>11, <1>12 DEF Inv, IInv, FInv

LEMMA ScanKeeps ==
  ASSUME Inv, Scan
  PROVE  Inv'
<1>1. /\ pc = "scan" /\ pc' = "file" /\ used' = LegalStems /\ mapping' = <<>>
      /\ todo' = {s \in DOMAIN files : Exists(s)}
      /\ files' = files /\ refs' = refs /\ results' = results /\ draft' = draft /\ applied' = applied
      /\ first' = first /\ crashed' = crashed /\ settled' = settled
  BY DEF Scan, transaction, ghosts
<1>2. IInv /\ FInv /\ DOMAIN files = Ids
  BY DEF Inv, IInv, FilesOK
<1>3. FilesOK' /\ NamesUsed' /\ RefsOK' /\ Awaiting'
  BY <1>1, <1>2 DEF IInv, FilesOK, NamesUsed, LegalStems, Exists, RefsOK, Awaiting
<1>4. TodoOK'
  BY <1>1, <1>2 DEF TodoOK, Exists
<1>5. MappingOK'
  BY <1>1 DEF MappingOK
<1>6. Whole1' = Whole1 /\ \A s \in Whole1 : Kept(s)'
  BY <1>1, <1>2 DEF IInv, Kept, Whole1
<1>7. Settled'
  BY <1>1, <1>2 DEF IInv, Settled, Repaired, Exists, Skipped
<1>8. ASSUME Undisturbed, ~(settled # <<>>), FirstStart
      PROVE  FirstStart'
  <2>1. files = first /\ \A s \in Whole1 : s \in Ids /\ first[s] = Whole(first[s].id, s) /\ first[s].id = s
    BY <1>1, <1>2, <1>8 DEF FirstStart, FilesMoved, Undisturbed, FInv, Whole1
  <2>2. \A s \in Whole1 : files[s] = Whole(s, s) /\ s \in todo'
    BY <1>1, <1>2, <2>1, WholeFields DEF Exists
  <2>3. FilesMoved'
    BY <1>1, <1>6, <2>1, <2>2 DEF FilesMoved
  <2>4. KeysOK' /\ RefsMoved'
    BY <1>1, <1>8 DEF KeysOK, RefsMoved, FirstStart
  <2> QED BY <1>1, <2>3, <2>4 DEF FirstStart
<1>9. FInv'
  <2>1. (Undisturbed' <=> Undisturbed) /\ (Stuck => Stuck') /\ (Follow => Follow')
    BY <1>1, <1>6 DEF Undisturbed, Stuck, Follow, Leads
  <2> QED BY <1>1, <1>2, <1>6, <1>8, <2>1 DEF FInv
<1> QED BY <1>3, <1>4, <1>5, <1>6, <1>7, <1>9 DEF Inv, IInv

LEMMA RestartKeeps ==
  ASSUME Inv, Restart
  PROVE  Inv'
<1>1. /\ pc' = "scan" /\ crashed' = (crashed \/ pc \notin {"up", "failed"})
      /\ mapping' = <<>> /\ draft' = refs /\ applied' = 0
      /\ files' = files /\ refs' = refs /\ results' = results /\ first' = first /\ settled' = settled
  BY DEF Restart
<1>2. IInv /\ FInv
  BY DEF Inv
<1>3. FilesOK' /\ NamesUsed' /\ TodoOK' /\ Awaiting'
  BY <1>1, <1>2 DEF IInv, FilesOK, NamesUsed, TodoOK, Awaiting
<1>4. MappingOK'
  BY <1>1 DEF MappingOK
<1>5. RefsOK'
  BY <1>1, <1>2 DEF IInv, RefsOK
<1>6. Whole1' = Whole1 /\ \A s \in Whole1 : Kept(s)'
  BY <1>1, <1>2 DEF IInv, Kept, Whole1
<1>7. Settled'
  BY <1>1, <1>2 DEF IInv, Settled, Repaired, Exists, Skipped
<1>8. FInv'
  <2>1. ASSUME Undisturbed', ~(settled # <<>>)
        PROVE  Stuck'
    <3>1. Undisturbed /\ pc \in {"up", "failed"}
      BY <1>1, <1>6, <2>1 DEF Undisturbed
    <3> QED BY <1>1, <1>2, <2>1, <3>1 DEF FInv, FirstStart, Stuck
  <2>2. (Undisturbed' => Undisturbed) /\ (Follow => Follow')
    BY <1>1, <1>6 DEF Undisturbed, Follow, Leads
  <2> QED BY <1>1, <1>2, <1>6, <2>1, <2>2 DEF FInv
<1> QED BY <1>3, <1>4, <1>5, <1>6, <1>7, <1>8 DEF Inv, IInv

-----------------------------------------------------------------------------
(* The files *)

LEMMA SkipKeeps ==
  ASSUME Inv, NEW s, Skip(s)
  PROVE  Inv'
<1>1. /\ pc = "file" /\ s \in todo /\ Skipped(s) /\ pc' = pc /\ todo' = todo \ {s}
      /\ files' = files /\ refs' = refs /\ results' = results /\ used' = used /\ mapping' = mapping
      /\ draft' = draft /\ applied' = applied
      /\ first' = first /\ crashed' = crashed /\ settled' = settled
  BY DEF Skip, Foremost, transaction, ghosts
<1>2. IInv /\ FInv
  BY DEF Inv
<1>3. FilesOK' /\ NamesUsed' /\ MappingOK' /\ RefsOK' /\ Awaiting'
  BY <1>1, <1>2 DEF IInv, FilesOK, NamesUsed, LegalStems, Exists, MappingOK, RefsOK, Awaiting
<1>4. TodoOK'
  <2>1. TodoOK
    BY <1>2 DEF IInv
  <2> QED BY <1>1, <2>1 DEF TodoOK, Exists, Skipped
<1>5. Whole1' = Whole1 /\ \A t \in Whole1 : Kept(t)'
  BY <1>1, <1>2 DEF IInv, Kept, Whole1
<1>6. Settled'
  BY <1>1, <1>2 DEF IInv, Settled, Repaired, Exists, Skipped
<1>7. ASSUME FirstStart
      PROVE  FirstStart'
  <2>1. ASSUME NEW t \in Whole1
        PROVE  Legal(t) \/ Moved(t)' \/ t \in todo'
    <3>1. Moved(t) => Moved(t)'
      BY <1>1 DEF Moved
    <3>2. ASSUME t = s
          PROVE  Legal(t)
      <4>1. files[s] = first[s] /\ first[s].kind = "whole"
        BY <1>1, <1>7, <2>1, <3>2 DEF FirstStart, FilesMoved, Whole1
      <4> QED BY <1>1, <3>2, <4>1 DEF Skipped
    <3> QED BY <1>1, <1>7, <2>1, <3>1, <3>2 DEF FirstStart, FilesMoved
  <2>2. FilesMoved'
    BY <1>1, <1>5, <1>7, <2>1 DEF FirstStart, FilesMoved
  <2>3. KeysOK' /\ RefsMoved'
    BY <1>1, <1>7 DEF FirstStart, KeysOK, RefsMoved
  <2> QED BY <1>1, <1>7, <2>2, <2>3 DEF FirstStart
<1>8. FInv'
  <2>1. (Undisturbed' <=> Undisturbed) /\ (Stuck => Stuck') /\ (Follow => Follow')
    BY <1>1, <1>5 DEF Undisturbed, Stuck, Follow, Leads
  <2> QED BY <1>1, <1>2, <1>5, <1>7, <2>1 DEF FInv
<1> QED BY <1>3, <1>4, <1>5, <1>6, <1>8 DEF Inv, IInv

NewId(s) == IF Legal(files[s].id) /\ ~Occupied(s) THEN files[s].id ELSE Numbers[Free(next, used)]

\* The copy gets a safe name that was free.
LEMMA RenameMoves ==
  ASSUME Inv, NEW s, Rename(s), files[s].kind # "list"
  PROVE  \E n \in Ids :
         /\ Legal(n) /\ files[n] = Absent /\ n # s /\ n \notin todo
         /\ s \in Ids /\ s \in todo /\ ~Skipped(s) /\ files[s].kind = "whole" /\ files[s].id \in Ids
         /\ \A t \in todo : t \in Ids /\ Exists(t)
         /\ \A t : Foremost(t, todo) => t = s
         /\ Foremost(s, todo)
         /\ \A t \in Ids : files'[t] = IF t = n THEN Whole(n, files[s].body) ELSE files[t]
         /\ files' = [t \in Ids |-> files'[t]]
         /\ mapping' = IF Legal(files[s].id) /\ ~Occupied(s) THEN mapping ELSE Enter(mapping, files[s].id, n)
         /\ pc = "file" /\ pc' = "unlink" /\ todo' = todo /\ used' = used \cup {n}
         /\ refs' = refs /\ results' = results /\ draft' = draft /\ applied' = applied
         /\ first' = first /\ crashed' = crashed /\ settled' = settled
<1> DEFINE n == NewId(s)
<1>1. pc = "file" /\ ~Skipped(s) /\ s \in todo /\ Foremost(s, todo) /\ NumbersLeft
  BY DEF Rename, Foremost
<1>2. /\ FilesOK /\ LegalStems \subseteq used
      /\ \A t \in todo : t \in Ids /\ Exists(t)
  BY <1>1 DEF Inv, IInv, NamesUsed, TodoOK
<1>3. s \in Ids /\ files[s].kind = "whole" /\ files[s].id \in Ids
  BY <1>1, <1>2 DEF FilesOK, Exists, Skipped
<1>4. n \in Ids /\ Legal(n) /\ n \notin used
  BY <1>1, <1>3, FreeIsNew DEF NewId, Occupied
<1>5. ~Exists(n) /\ n \notin todo
  BY <1>2, <1>4 DEF LegalStems, FilesOK
<1>6. files[n] = Absent /\ n # s
  BY <1>1, <1>5 DEF Exists
<1>7. \A t : Foremost(t, todo) => t = s
  BY <1>1, <1>2, OneForemost
<1>8. /\ files' = [files EXCEPT ![n] = Whole(n, files[s].body)] /\ pc' = "unlink" /\ used' = used \cup {n}
      /\ mapping' = IF Legal(files[s].id) /\ ~Occupied(s) THEN mapping ELSE Enter(mapping, files[s].id, n)
      /\ todo' = todo /\ refs' = refs /\ results' = results /\ draft' = draft /\ applied' = applied
      /\ first' = first /\ crashed' = crashed /\ settled' = settled
  BY DEF Rename, NewId, transaction, ghosts
<1> HIDE DEF n
<1>9. /\ \A t \in Ids : files'[t] = IF t = n THEN Whole(n, files[s].body) ELSE files[t]
      /\ files' = [t \in Ids |-> files'[t]]
  BY <1>2, <1>4, <1>8 DEF FilesOK
<1> QED BY <1>1, <1>2, <1>3, <1>4, <1>5, <1>6, <1>7, <1>8, <1>9 DEF n

LEMMA FailKeeps ==
  ASSUME Inv, NEW s, Rename(s), files[s].kind = "list"
  PROVE  Inv'
<1>1. /\ pc = "file" /\ s \in todo /\ ~Skipped(s) /\ pc' = "failed"
      /\ files' = files /\ refs' = refs /\ results' = results /\ used' = used /\ mapping' = mapping
      /\ draft' = draft /\ applied' = applied
      /\ first' = first /\ crashed' = crashed /\ settled' = settled
  BY DEF Rename, Foremost, transaction, ghosts
<1>2. IInv /\ FInv
  BY DEF Inv
<1>3. s \in Ids /\ Exists(s)
  BY <1>1, <1>2 DEF IInv, TodoOK
<1>4. FilesOK' /\ NamesUsed' /\ TodoOK' /\ MappingOK' /\ RefsOK' /\ Awaiting'
  BY <1>1, <1>2 DEF IInv, FilesOK, NamesUsed, TodoOK, MappingOK, RefsOK, Awaiting
<1>5. Whole1' = Whole1 /\ \A t \in Whole1 : Kept(t)'
  BY <1>1, <1>2 DEF IInv, Kept, Whole1
<1>6. ~(settled # <<>>)
  BY <1>1, <1>2, <1>3 DEF IInv, Settled, Repaired
<1>7. Settled' /\ FInv'
  BY <1>1, <1>2, <1>3, <1>5, <1>6 DEF Settled, FInv, Stuck
<1> QED BY <1>4, <1>5, <1>7 DEF Inv, IInv

LEMMA RenameKeeps ==
  ASSUME Inv, NEW s, Rename(s), files[s].kind # "list"
  PROVE  Inv'
<1>1. PICK n \in Ids :
      /\ Legal(n) /\ files[n] = Absent /\ n # s /\ n \notin todo
      /\ s \in Ids /\ s \in todo /\ ~Skipped(s) /\ files[s].kind = "whole" /\ files[s].id \in Ids
      /\ \A t \in todo : t \in Ids /\ Exists(t)
      /\ \A t : Foremost(t, todo) => t = s
      /\ Foremost(s, todo)
      /\ \A t \in Ids : files'[t] = IF t = n THEN Whole(n, files[s].body) ELSE files[t]
      /\ files' = [t \in Ids |-> files'[t]]
      /\ mapping' = IF Legal(files[s].id) /\ ~Occupied(s) THEN mapping ELSE Enter(mapping, files[s].id, n)
      /\ pc = "file" /\ pc' = "unlink" /\ todo' = todo /\ used' = used \cup {n}
      /\ refs' = refs /\ results' = results /\ draft' = draft /\ applied' = applied
      /\ first' = first /\ crashed' = crashed /\ settled' = settled
  BY RenameMoves
<1>2. IInv /\ FInv
  BY DEF Inv
<1>3. files[n].kind = "absent" /\ files'[n].kind = "whole" /\ files'[n].id = n /\ files'[n].body = files[s].body
  BY <1>1, WholeFields
<1>4. FilesOK'
  BY <1>1, <1>2, <1>3 DEF IInv, FilesOK
<1>5. NamesUsed'
  <2>1. DOMAIN files' = Ids /\ DOMAIN files = Ids /\ LegalStems \subseteq used
    BY <1>1, <1>2 DEF IInv, NamesUsed, FilesOK
  <2>2. \A t \in Ids : t # n => (Exists(t)' <=> Exists(t))
    BY <1>1 DEF Exists
  <2> QED BY <1>1, <2>1, <2>2 DEF NamesUsed, LegalStems
<1>6. TodoOK'
  <2>1. \A t \in Ids : t # n => (Exists(t)' <=> Exists(t)) /\ (Skipped(t)' <=> Skipped(t))
    BY <1>1 DEF Exists, Skipped
  <2>2. Skipped(n)'
    BY <1>1, <1>3 DEF Skipped
  <2>3. \A t \in Ids : Exists(t) => t \in todo \/ Skipped(t)
    BY <1>1, <1>2 DEF IInv, TodoOK
  <2>4. files'[s].kind = "whole" /\ ~Skipped(s)'
    BY <1>1, <2>1
  <2>5. \A t \in todo : Foremost(t, todo)' => t = s
    BY <1>1 DEF Foremost
  <2> QED BY <1>1, <2>1, <2>2, <2>3, <2>4, <2>5 DEF TodoOK
<1>7. MappingOK'
  <2>1. MappingOK
    BY <1>2 DEF IInv
  <2>2. CASE mapping' = mapping
    BY <2>1, <2>2 DEF MappingOK
  <2>3. CASE mapping' = Enter(mapping, files[s].id, n)
    <3>1. mapping \in Seq(Ids \X Ids)
      BY <2>1 DEF MappingOK
    <3>2. /\ mapping' \in Seq(Ids \X Ids)
          /\ \A k \in DOMAIN mapping' : (k \in DOMAIN mapping /\ mapping'[k] = mapping[k]) \/ mapping'[k] = <<files[s].id, n>>
      <4> DEFINE e == Enter(mapping, files[s].id, n)
      <4>1. files[s].id \in Ids /\ n \in Ids
        BY <1>1
      <4>2. /\ e \in Seq(Ids \X Ids)
            /\ \A k \in DOMAIN e : (k \in DOMAIN mapping /\ e[k] = mapping[k]) \/ e[k] = <<files[s].id, n>>
        BY <3>1, <4>1, EnterPairs
      <4> QED BY <2>3, <4>2
    <3> QED BY <1>1, <2>1, <3>2 DEF MappingOK
  <2> QED BY <1>1, <2>2, <2>3
<1>8. RefsOK' /\ Awaiting'
  BY <1>1, <1>2 DEF IInv, RefsOK, Awaiting
<1>9. Whole1' = Whole1
  BY <1>1 DEF Whole1
<1>10. ASSUME NEW t \in Whole1
       PROVE  Kept(t)'
  <2>1. PICK u \in Ids : files[u].kind = "whole" /\ files[u].body = t
    BY <1>2, <1>10 DEF IInv, Kept
  <2>2. CASE u = s
    <3>1. ~Foremost(n, todo)'
      BY <1>1 DEF Foremost
    <3> QED BY <1>1, <1>3, <2>1, <2>2, <3>1 DEF Kept
  <2>3. CASE u # s
    <3>1. u # n /\ files'[u] = files[u]
      BY <1>1, <1>3, <2>1
    <3>2. ~Foremost(u, todo)'
      BY <1>1, <2>3 DEF Foremost
    <3> QED BY <2>1, <3>1, <3>2 DEF Kept
  <2> QED BY <2>2, <2>3
<1>11. ~(settled # <<>>)
  BY <1>1, <1>2 DEF IInv, Settled, Repaired
<1>12. ASSUME Undisturbed, FirstStart
       PROVE  FirstStart'
  <2>1. first[s] = Whole(s, s) /\ s \in Whole1 /\ files[s] = first[s]
    <3>1. files[s] = first[s]
      BY <1>1, <1>12 DEF FirstStart, FilesMoved
    <3>2. s \in DOMAIN first
      BY <1>1, <1>2 DEF FInv
    <3>3. s \in Whole1
      BY <1>1, <3>1, <3>2 DEF Whole1
    <3> QED BY <1>2, <1>12, <3>1, <3>3 DEF FInv, Undisturbed
  <2>2. files[s].id = s /\ files[s].body = s /\ ~Legal(s)
    BY <1>1, <2>1, WholeFields DEF Skipped
  <2>3. mapping \in Seq(Ids \X Ids) /\ \A k \in DOMAIN mapping : mapping[k][1] \in Ids /\ mapping[k][2] \in Ids
    BY <1>2 DEF IInv, MappingOK
  <2>4. \A k \in DOMAIN mapping : mapping[k][1] # s /\ mapping[k][1] \notin todo
    BY <1>1, <1>12 DEF FirstStart, KeysOK
  <2>5. mapping' = Append(mapping, <<s, n>>)
    BY <1>1, <2>2, <2>4, EnterNew
  <2>6. /\ DOMAIN mapping' = DOMAIN mapping \cup {Len(mapping) + 1}
        /\ \A k \in DOMAIN mapping : mapping'[k] = mapping[k] /\ k # Len(mapping) + 1
        /\ mapping'[Len(mapping) + 1][1] = s /\ mapping'[Len(mapping) + 1][2] = n
    BY <1>1, <2>3, <2>5, Appended
  <2>7. ASSUME NEW t \in Whole1
        PROVE  /\ Legal(t) => files'[t] = Whole(t, t)
               /\ Legal(t) \/ Moved(t)' \/ (t \in todo /\ ~Foremost(t, todo))
    <3>1. ASSUME Legal(t)
          PROVE  files'[t] = Whole(t, t)
      <4>1. files[t] = Whole(t, t) /\ t \in Ids
        BY <1>2, <1>12, <2>7, <3>1 DEF FirstStart, FilesMoved, FInv, Whole1
      <4> QED BY <1>1, <4>1, WholeFields
    <3>2. ASSUME Moved(t)
          PROVE  Moved(t)'
      <4>1. PICK k \in DOMAIN mapping : mapping[k][1] = t /\ files[mapping[k][2]] = Whole(mapping[k][2], t)
        BY <3>2 DEF Moved
      <4>2. mapping[k][2] \in Ids /\ mapping[k][2] # n
        BY <1>1, <2>3, <4>1, WholeFields
      <4>3. files'[mapping[k][2]] = Whole(mapping[k][2], t)
        BY <1>1, <4>1, <4>2
      <4> QED BY <2>6, <4>1, <4>3 DEF Moved
    <3>3. ASSUME t = s
          PROVE  Moved(t)'
      <4>1. files'[n] = Whole(n, t)
        BY <1>1, <2>2, <3>3
      <4> QED BY <2>6, <3>3, <4>1 DEF Moved
    <3>4. Legal(t) \/ Moved(t) \/ t \in todo
      BY <1>1, <1>12, <2>7 DEF FirstStart, FilesMoved
    <3> QED BY <1>1, <3>1, <3>2, <3>3, <3>4
  <2>8. FilesMoved'
    <3>1. \A t \in todo : files'[t] = first[t]
      BY <1>1, <1>12 DEF FirstStart, FilesMoved
    <3>2. \A t : Foremost(t, todo)' <=> Foremost(t, todo)
      BY <1>1 DEF Foremost
    <3> QED BY <1>1, <1>9, <2>7, <3>1, <3>2 DEF FilesMoved
  <2>9. KeysOK'
    <3>1. /\ \A k \in DOMAIN mapping : ~Legal(mapping[k][1]) /\ mapping[k][2] \notin todo /\ mapping[k][2] \in used
          /\ \A j, k \in DOMAIN mapping : mapping[j][1] = mapping[k][1] => j = k
      BY <1>1, <1>12 DEF FirstStart, KeysOK
    <3>2. Foremost(s, todo)'
      BY <1>1 DEF Foremost
    <3> QED BY <1>1, <2>2, <2>4, <2>6, <3>1, <3>2 DEF KeysOK
  <2>10. RefsMoved'
    BY <1>1, <1>12 DEF FirstStart, RefsMoved
  <2> QED BY <1>1, <2>8, <2>9, <2>10 DEF FirstStart
<1>13. Stuck => Stuck'
  BY <1>1, <1>3 DEF Stuck
<1>14. FInv' /\ Settled'
  <2>1. Undisturbed' => Undisturbed
    BY <1>1, <1>9 DEF Undisturbed
  <2> QED BY <1>1, <1>2, <1>9, <1>11, <1>12, <1>13, <2>1 DEF FInv, Settled
<1> QED BY <1>4, <1>5, <1>6, <1>7, <1>8, <1>9, <1>10, <1>14 DEF Inv, IInv

LEMMA UnlinkKeeps ==
  ASSUME Inv, NEW s, Unlink(s)
  PROVE  Inv'
<1>1. /\ pc = "unlink" /\ Foremost(s, todo) /\ s \in todo /\ pc' = "file" /\ todo' = todo \ {s}
      /\ files' = [files EXCEPT ![s] = Absent]
      /\ refs' = refs /\ results' = results /\ used' = used /\ mapping' = mapping
      /\ draft' = draft /\ applied' = applied
      /\ first' = first /\ crashed' = crashed /\ settled' = settled
  BY DEF Unlink, Foremost, transaction, ghosts
<1>2. IInv /\ FInv
  BY DEF Inv
<1>3. /\ \A t \in todo : t \in Ids /\ Exists(t)
      /\ ~Skipped(s) /\ files[s].kind = "whole"
  BY <1>1, <1>2 DEF IInv, TodoOK
<1>4. s \in Ids /\ \A t : Foremost(t, todo) => t = s
  BY <1>1, <1>3, OneForemost
<1>5. /\ \A t \in Ids : files'[t] = IF t = s THEN Absent ELSE files[t]
      /\ files' = [t \in Ids |-> files'[t]] /\ DOMAIN files = Ids
  BY <1>1, <1>2, <1>4 DEF IInv, FilesOK
<1>6. FilesOK'
  BY <1>1, <1>2, <1>5, WholeFields DEF IInv, FilesOK
<1>7. \A t \in Ids : /\ Exists(t)' <=> t # s /\ Exists(t)
                     /\ t # s => (Skipped(t)' <=> Skipped(t))
  BY <1>5 DEF Exists, Skipped
<1>8. NamesUsed'
  BY <1>1, <1>2, <1>5, <1>7 DEF IInv, NamesUsed, LegalStems
<1>9. TodoOK'
  <2>1. \A t \in Ids : Exists(t) => t \in todo \/ Skipped(t)
    BY <1>1, <1>2 DEF IInv, TodoOK
  <2> QED BY <1>1, <1>3, <1>7, <2>1 DEF TodoOK
<1>10. MappingOK' /\ RefsOK' /\ Awaiting'
  BY <1>1, <1>2 DEF IInv, MappingOK, RefsOK, Awaiting
<1>11. Whole1' = Whole1
  BY <1>1 DEF Whole1
<1>12. ASSUME NEW t \in Whole1
       PROVE  Kept(t)'
  <2>1. PICK u \in Ids : files[u].kind = "whole" /\ files[u].body = t /\ ~Foremost(u, todo)
    BY <1>1, <1>2, <1>12 DEF IInv, Kept
  <2>2. files'[u] = files[u]
    BY <1>1, <1>5, <2>1
  <2> QED BY <1>1, <2>1, <2>2 DEF Kept
<1>13. ~(settled # <<>>)
  BY <1>1, <1>2 DEF IInv, Settled
<1>14. ASSUME FirstStart
       PROVE  FirstStart'
  <2>1. FilesMoved /\ KeysOK /\ RefsMoved
    BY <1>14 DEF FirstStart
  <2>2. ASSUME NEW t \in Whole1
        PROVE  /\ Legal(t) => files'[t] = Whole(t, t)
               /\ Legal(t) \/ Moved(t)' \/ t \in todo'
    <3>1. ASSUME Legal(t)
          PROVE  files'[t] = Whole(t, t)
      <4>1. files[t] = Whole(t, t) /\ t \in Ids
        BY <1>2, <2>1, <2>2, <3>1 DEF FilesMoved, FInv, Whole1
      <4>2. Skipped(t)
        BY <3>1, <4>1, WholeFields DEF Skipped
      <4> QED BY <1>3, <1>5, <4>1, <4>2
    <3>2. ASSUME Moved(t)
          PROVE  Moved(t)'
      <4>1. PICK k \in DOMAIN mapping : mapping[k][1] = t /\ files[mapping[k][2]] = Whole(mapping[k][2], t)
        BY <3>2 DEF Moved
      <4>2. mapping[k][2] \notin todo
        BY <1>1, <2>1 DEF KeysOK
      <4>3. mapping[k][2] \in Ids
        <5>1. mapping \in Seq(Ids \X Ids)
          BY <1>2 DEF IInv, MappingOK
        <5> QED BY <5>1
      <4>4. files'[mapping[k][2]] = Whole(mapping[k][2], t)
        BY <1>1, <1>5, <4>1, <4>2, <4>3
      <4> QED BY <1>1, <4>1, <4>4 DEF Moved
    <3>3. Legal(t) \/ Moved(t) \/ (t \in todo /\ t # s)
      BY <1>1, <2>1, <2>2 DEF FilesMoved
    <3> QED BY <1>1, <3>1, <3>2, <3>3
  <2>3. FilesMoved'
    <3>1. \A t \in todo' : files'[t] = first[t]
      BY <1>1, <1>3, <1>5, <2>1 DEF FilesMoved
    <3> QED BY <1>1, <1>11, <2>2, <3>1 DEF FilesMoved
  <2>4. KeysOK'
    BY <1>1, <1>4, <2>1 DEF KeysOK
  <2>5. RefsMoved'
    BY <1>1, <2>1 DEF RefsMoved
  <2> QED BY <1>1, <2>3, <2>4, <2>5 DEF FirstStart
<1>15. Stuck => Stuck'
  BY <1>3, <1>5 DEF Stuck
<1>16. FInv' /\ Settled'
  <2>1. Undisturbed' => Undisturbed
    BY <1>1, <1>11 DEF Undisturbed
  <2> QED BY <1>1, <1>2, <1>11, <1>13, <1>14, <1>15, <2>1 DEF FInv, Settled
<1> QED BY <1>6, <1>8, <1>9, <1>10, <1>11, <1>12, <1>16 DEF Inv, IInv

-----------------------------------------------------------------------------
(* The references *)

LEMMA GatherKeeps ==
  ASSUME Inv, Gather
  PROVE  Inv'
<1>1. /\ pc = "file" /\ todo = {} /\ pc' = "refs" /\ draft' = refs /\ applied' = 0
      /\ files' = files /\ refs' = refs /\ results' = results /\ todo' = todo /\ mapping' = mapping
      /\ first' = first /\ crashed' = crashed /\ settled' = settled
  BY DEF Gather, ghosts
<1>2. IInv /\ FInv
  BY DEF Inv
<1>3. FilesOK' /\ NamesUsed' /\ MappingOK' /\ RefsOK'
  BY <1>1, <1>2 DEF IInv, FilesOK, NamesUsed, MappingOK, RefsOK
<1>4. TodoOK'
  <2>1. Repaired
    BY <1>1, <1>2 DEF IInv, TodoOK, Repaired
  <2>2. Repaired'
    BY <1>1, <2>1 DEF Repaired, Exists, Skipped
  <2> QED BY <1>1, <2>2 DEF TodoOK
<1>5. Awaiting'
  <2>1. mapping \in Seq(Ids \X Ids)
    BY <1>2 DEF IInv, MappingOK
  <2>2. Len(mapping) \in Nat /\ DOMAIN mapping = 1 .. Len(mapping)
    BY <2>1
  <2>3. Missing' = Missing
    BY <1>1 DEF Missing, Referred
  <2>4. ASSUME NEW i \in DOMAIN refs
        PROVE  Legal(refs[i]) \/ refs[i] \in Missing \/ \E k \in DOMAIN mapping : k > 0 /\ mapping[k][1] = refs[i]
    BY <2>2, <2>4 DEF Missing, Referred, Range
  <2>5. ASSUME NEW i \in DOMAIN results
        PROVE  Legal(results[i]) \/ results[i] \in Missing \/ \E k \in DOMAIN mapping : mapping[k][1] = results[i]
    BY <2>5 DEF Missing, Referred, Range
  <2> QED BY <1>1, <2>2, <2>3, <2>4, <2>5 DEF Awaiting
<1>6. Whole1' = Whole1 /\ \A t \in Whole1 : Kept(t)'
  BY <1>1, <1>2 DEF IInv, Kept, Whole1
<1>7. Settled'
  BY <1>1, <1>2 DEF IInv, Settled, Repaired, Exists, Skipped
<1>8. ASSUME FirstStart
      PROVE  FirstStart'
  <2>1. \A t : Moved(t)' <=> Moved(t)
    BY <1>1 DEF Moved
  <2> QED BY <1>1, <1>6, <1>8, <2>1 DEF FirstStart, FilesMoved, KeysOK, RefsMoved
<1>9. FInv'
  <2>1. (Undisturbed' <=> Undisturbed) /\ (Stuck => Stuck') /\ (Follow => Follow')
    BY <1>1, <1>6 DEF Undisturbed, Stuck, Follow, Leads
  <2> QED BY <1>1, <1>2, <1>6, <1>8, <2>1 DEF FInv
<1> QED BY <1>3, <1>4, <1>5, <1>6, <1>7, <1>9 DEF Inv, IInv

LEMMA AssignKeeps ==
  ASSUME Inv, NEW i, Assign(i)
  PROVE  Inv'
<1> DEFINE n == Numbers[Free(next, used)]
<1>1. /\ pc = "refs" /\ i \in Missing /\ NumbersLeft /\ pc' = pc /\ mapping' = Append(mapping, <<i, n>>)
      /\ files' = files /\ refs' = refs /\ results' = results /\ todo' = todo /\ draft' = draft /\ applied' = applied
      /\ first' = first /\ crashed' = crashed /\ settled' = settled
  BY DEF Assign, Foremost, transaction, ghosts
<1>2. n \in Ids /\ Legal(n)
  BY <1>1, FreeIsNew
<1> HIDE DEF n
<1>3. IInv /\ FInv
  BY DEF Inv
<1>4. mapping \in Seq(Ids \X Ids) /\ DOMAIN mapping = 1 .. Len(mapping) /\ Len(mapping) \in Nat
  <2>1. mapping \in Seq(Ids \X Ids)
    BY <1>3 DEF IInv, MappingOK
  <2> QED BY <2>1
<1>5. i \in Ids /\ ~Legal(i) /\ \A k \in DOMAIN mapping : mapping[k][1] # i
  BY <1>1, <1>3 DEF IInv, RefsOK, Missing, Referred, Range
<1>6. /\ mapping' \in Seq(Ids \X Ids) /\ Len(mapping') = Len(mapping) + 1
      /\ DOMAIN mapping' = DOMAIN mapping \cup {Len(mapping) + 1}
      /\ \A k \in DOMAIN mapping : mapping'[k] = mapping[k] /\ k # Len(mapping) + 1
      /\ mapping'[Len(mapping) + 1][1] = i /\ mapping'[Len(mapping) + 1][2] = n
  BY <1>1, <1>2, <1>4, <1>5, Appended
<1>7. FilesOK' /\ NamesUsed' /\ RefsOK'
  BY <1>1, <1>3 DEF IInv, FilesOK, NamesUsed, RefsOK
<1>8. TodoOK'
  BY <1>1, <1>3 DEF IInv, TodoOK, Repaired, Exists, Skipped
<1>9. MappingOK'
  BY <1>2, <1>3, <1>6 DEF IInv, MappingOK
<1>10. Missing' = Missing \ {i}
  BY <1>1, <1>6 DEF Missing, Referred
<1>11. Awaiting'
  <2>1. applied = 0 /\ Awaiting
    BY <1>1, <1>3 DEF IInv, Awaiting, RefsOK
  <2>2. ASSUME NEW j \in DOMAIN refs
        PROVE  Legal(draft[j]) \/ draft[j] \in Missing' \/ \E k \in DOMAIN mapping' : k > 0 /\ mapping'[k][1] = draft[j]
    <3>1. CASE draft[j] = i
      BY <1>4, <1>6, <3>1
    <3>2. CASE draft[j] # i
      BY <1>1, <1>4, <1>6, <1>10, <2>1, <3>2 DEF Awaiting
    <3> QED BY <3>1, <3>2
  <2>3. ASSUME NEW j \in DOMAIN results
        PROVE  Legal(results[j]) \/ results[j] \in Missing' \/ \E k \in DOMAIN mapping' : mapping'[k][1] = results[j]
    <3>1. Legal(results[j]) \/ results[j] \in Missing \/ \E k \in DOMAIN mapping : mapping[k][1] = results[j]
      BY <1>1, <2>1 DEF Awaiting
    <3> QED BY <1>6, <1>10, <3>1
  <2>4. applied' <= Len(mapping') /\ ~(applied' > 0)
    BY <1>1, <1>4, <1>6, <2>1
  <2>5. \A j \in DOMAIN refs' :
          Legal(draft'[j]) \/ draft'[j] \in Missing' \/ \E k \in DOMAIN mapping' : k > applied' /\ mapping'[k][1] = draft'[j]
    BY <1>1, <2>1, <2>2
  <2> QED BY <1>1, <2>3, <2>4, <2>5 DEF Awaiting
<1>12. Whole1' = Whole1 /\ \A t \in Whole1 : Kept(t)'
  BY <1>1, <1>3 DEF IInv, Kept, Whole1
<1>13. ~(settled # <<>>)
  BY <1>1, <1>3 DEF IInv, Settled, Missing, Referred, Range
<1>14. ASSUME FirstStart
       PROVE  FirstStart'
  <2>1. FilesMoved /\ KeysOK /\ RefsMoved
    BY <1>14 DEF FirstStart
  <2>2. \A t : Moved(t) => Moved(t)'
    BY <1>1, <1>6 DEF Moved
  <2>3. FilesMoved'
    BY <1>1, <1>12, <2>1, <2>2 DEF FilesMoved
  <2>4. KeysOK'
    <3>1. /\ \A k \in DOMAIN mapping' : ~Legal(mapping'[k][1])
          /\ \A j, k \in DOMAIN mapping' : mapping'[j][1] = mapping'[k][1] => j = k
      BY <1>1, <1>5, <1>6, <2>1 DEF KeysOK
    <3> QED BY <1>1, <3>1 DEF KeysOK
  <2>5. RefsMoved'
    <3>1. \A j \in DOMAIN refs : draft[j] = j \/ (~Legal(j) /\ \E k \in DOMAIN mapping' : mapping'[k] = <<j, draft[j]>>)
      BY <1>1, <1>6, <2>1 DEF RefsMoved
    <3> QED BY <1>1, <2>1, <3>1 DEF RefsMoved
  <2> QED BY <1>1, <1>14, <2>3, <2>4, <2>5 DEF FirstStart
<1>15. FInv' /\ Settled'
  <2>1. (Undisturbed' <=> Undisturbed) /\ (Stuck => Stuck')
    BY <1>1, <1>12 DEF Undisturbed, Stuck
  <2> QED BY <1>1, <1>3, <1>12, <1>13, <1>14, <2>1 DEF FInv, Settled
<1> QED BY <1>7, <1>8, <1>9, <1>11, <1>12, <1>15 DEF Inv, IInv

LEMMA UpdateKeeps ==
  ASSUME Inv, Update
  PROVE  Inv'
<1> DEFINE old == mapping[applied + 1][1]
           new == mapping[applied + 1][2]
<1>1. /\ pc = "refs" /\ Missing = {} /\ applied < Len(mapping) /\ pc' = pc /\ applied' = applied + 1
      /\ draft' = [i \in DOMAIN draft |-> IF draft[i] = old THEN new ELSE draft[i]]
      /\ files' = files /\ refs' = refs /\ results' = results /\ todo' = todo /\ mapping' = mapping
      /\ first' = first /\ crashed' = crashed /\ settled' = settled
  BY DEF Update, work, ghosts
<1>2. IInv /\ FInv
  BY DEF Inv
<1>3. /\ mapping \in Seq(Ids \X Ids) /\ DOMAIN mapping = 1 .. Len(mapping) /\ Len(mapping) \in Nat
      /\ applied \in Nat /\ applied + 1 \in DOMAIN mapping
  <2>1. mapping \in Seq(Ids \X Ids) /\ applied \in Nat
    BY <1>2 DEF IInv, MappingOK, RefsOK
  <2> QED BY <1>1, <2>1
<1>4. old \in Ids /\ new \in Ids /\ Legal(new) /\ mapping[applied + 1] = <<old, new>>
  <2>1. mapping[applied + 1] \in Ids \X Ids
    BY <1>3
  <2> QED BY <1>2, <1>3, <2>1 DEF IInv, MappingOK
<1> HIDE DEF old, new
<1>5. DOMAIN draft = DOMAIN refs /\ \A i \in DOMAIN refs : draft'[i] = IF draft[i] = old THEN new ELSE draft[i]
  BY <1>1, <1>2 DEF IInv, RefsOK
<1>6. FilesOK' /\ NamesUsed' /\ MappingOK'
  BY <1>1, <1>2 DEF IInv, FilesOK, NamesUsed, MappingOK
<1>7. TodoOK'
  BY <1>1, <1>2 DEF IInv, TodoOK, Repaired, Exists, Skipped
<1>8. RefsOK'
  BY <1>1, <1>2, <1>3, <1>4, <1>5 DEF IInv, RefsOK
<1>9. Awaiting'
  <2>1. Missing' = Missing
    BY <1>1 DEF Missing, Referred
  <2>2. ASSUME NEW i \in DOMAIN refs
        PROVE  Legal(draft'[i]) \/ \E k \in DOMAIN mapping : k > applied + 1 /\ mapping[k][1] = draft'[i]
    <3>1. CASE draft[i] = old
      BY <1>4, <1>5, <3>1
    <3>2. CASE draft[i] # old
      <4>1. draft'[i] = draft[i]
        BY <1>5, <3>2
      <4>2. Legal(draft[i]) \/ \E k \in DOMAIN mapping : k > applied /\ mapping[k][1] = draft[i]
        BY <1>1, <1>2 DEF IInv, Awaiting
      <4>3. ASSUME NEW k \in DOMAIN mapping, k > applied, mapping[k][1] = draft[i]
            PROVE  k > applied + 1
        <5>1. k # applied + 1
          BY <3>2, <4>3 DEF old
        <5> QED BY <1>3, <4>3, <5>1
      <4> QED BY <4>1, <4>2, <4>3
    <3> QED BY <3>1, <3>2
  <2>3. applied' <= Len(mapping') /\ Missing' = {}
    BY <1>1, <1>3, <2>1
  <2>4. \A i \in DOMAIN refs' :
          Legal(draft'[i]) \/ \E k \in DOMAIN mapping' : k > applied' /\ mapping'[k][1] = draft'[i]
    BY <1>1, <2>2
  <2>5. \A i \in DOMAIN results' : Legal(results'[i]) \/ \E k \in DOMAIN mapping' : mapping'[k][1] = results'[i]
    BY <1>1, <1>2 DEF IInv, Awaiting
  <2> QED BY <2>3, <2>4, <2>5 DEF Awaiting
<1>10. Whole1' = Whole1 /\ \A t \in Whole1 : Kept(t)'
  BY <1>1, <1>2 DEF IInv, Kept, Whole1
<1>11. ~(settled # <<>>)
  <2>1. mapping # <<>>
    BY <1>3
  <2> QED BY <1>1, <1>2, <2>1 DEF IInv, Settled
<1>12. ASSUME FirstStart
       PROVE  FirstStart'
  <2>1. FilesMoved /\ KeysOK /\ RefsMoved
    BY <1>12 DEF FirstStart
  <2>2. \A t : Moved(t)' <=> Moved(t)
    BY <1>1 DEF Moved
  <2>3. FilesMoved' /\ KeysOK'
    BY <1>1, <1>10, <2>1, <2>2 DEF FilesMoved, KeysOK
  <2>4. ASSUME NEW i \in DOMAIN refs
        PROVE  draft'[i] = i \/ (~Legal(i) /\ \E k \in DOMAIN mapping : mapping[k] = <<i, draft'[i]>>)
    <3>1. ~Legal(old)
      BY <1>1, <1>3, <2>1 DEF KeysOK, old
    <3>2. CASE draft[i] = i
      <4>1. CASE i = old
        <5>1. draft'[i] = new
          BY <1>5, <3>2, <4>1
        <5> QED BY <1>3, <1>4, <3>1, <4>1, <5>1
      <4>2. CASE i # old
        BY <1>5, <3>2, <4>2
      <4> QED BY <4>1, <4>2
    <3>3. CASE draft[i] # i
      <4>1. PICK k \in DOMAIN mapping : mapping[k] = <<i, draft[i]>> /\ ~Legal(i)
        BY <1>1, <2>1, <3>3 DEF RefsMoved
      <4>2. Legal(draft[i])
        BY <1>2, <4>1 DEF IInv, MappingOK
      <4> QED BY <1>5, <3>1, <4>1, <4>2
    <3> QED BY <3>2, <3>3
  <2>5. RefsMoved'
    BY <1>1, <2>1, <2>4 DEF RefsMoved
  <2> QED BY <1>1, <1>12, <2>3, <2>5 DEF FirstStart
<1>13. FInv' /\ Settled'
  <2>1. (Undisturbed' <=> Undisturbed) /\ (Stuck => Stuck')
    BY <1>1, <1>10 DEF Undisturbed, Stuck
  <2> QED BY <1>1, <1>2, <1>10, <1>11, <1>12, <2>1 DEF FInv, Settled
<1> QED BY <1>6, <1>7, <1>8, <1>9, <1>10, <1>13 DEF Inv, IInv

LEMMA CommitKeeps ==
  ASSUME Inv, Commit
  PROVE  Inv'
<1>1. /\ pc = "refs" /\ Missing = {} /\ applied = Len(mapping) /\ pc' = "up"
      /\ refs' = draft /\ results' = [i \in DOMAIN results |-> Translated(results[i])]
      /\ settled' = IF settled = <<>> THEN <<files, draft, results'>> ELSE settled
      /\ files' = files /\ todo' = todo /\ mapping' = mapping /\ draft' = draft /\ applied' = applied
      /\ first' = first /\ crashed' = crashed
  BY DEF Commit, work, transaction
<1>2. IInv /\ FInv
  BY DEF Inv
<1>3. mapping \in Seq(Ids \X Ids) /\ DOMAIN mapping = 1 .. Len(mapping) /\ Len(mapping) \in Nat
  <2>1. mapping \in Seq(Ids \X Ids)
    BY <1>2 DEF IInv, MappingOK
  <2> QED BY <2>1
<1>4. DOMAIN draft = DOMAIN refs /\ \A i \in DOMAIN refs : Legal(draft[i])
  BY <1>1, <1>2, <1>3 DEF IInv, Awaiting, RefsOK
<1>5. ASSUME NEW i \in DOMAIN results
       PROVE  \/ \E k \in DOMAIN mapping : mapping[k][1] = results[i] /\ results'[i] = mapping[k][2]
              \/ Legal(results[i]) /\ results'[i] = results[i] /\ \A k \in DOMAIN mapping : mapping[k][1] # results[i]
  <2>1. results'[i] = Translated(results[i])
    BY <1>1
  <2>2. CASE \E k \in DOMAIN mapping : mapping[k][1] = results[i]
    <3> DEFINE c == CHOOSE k \in DOMAIN mapping : mapping[k][1] = results[i]
    <3>1. c \in DOMAIN mapping /\ mapping[c][1] = results[i]
      BY <2>2
    <3>2. Translated(results[i]) = mapping[c][2]
      BY <2>2, Zenon DEF Translated
    <3> QED BY <2>1, <3>1, <3>2
  <2>3. CASE ~\E k \in DOMAIN mapping : mapping[k][1] = results[i]
    <3>1. Translated(results[i]) = results[i]
      BY <2>3, Zenon DEF Translated
    <3>2. Legal(results[i])
      BY <1>1, <1>2, <2>3 DEF IInv, Awaiting
    <3> QED BY <2>1, <2>3, <3>1, <3>2
  <2> QED BY <2>2, <2>3
<1>6. /\ DOMAIN results' = DOMAIN results /\ results' = [i \in DOMAIN results' |-> results'[i]]
       /\ \A i \in DOMAIN results : Legal(results'[i]) /\ results'[i] \in Ids
  <2>1. \A k \in DOMAIN mapping : mapping[k][2] \in Ids /\ Legal(mapping[k][2])
    BY <1>2, <1>3 DEF IInv, MappingOK
  <2>2. DOMAIN results' = DOMAIN results /\ results' = [i \in DOMAIN results' |-> results'[i]]
    BY <1>1
  <2> QED BY <1>2, <1>5, <2>1, <2>2 DEF IInv, RefsOK
<1>7. settled # <<>> => refs' = refs /\ results' = results
  <2> SUFFICES ASSUME settled # <<>> PROVE refs' = refs /\ results' = results
    OBVIOUS
  <2>1. mapping = <<>> /\ draft = refs
    BY <1>1, <1>2 DEF IInv, Settled
  <2>2. \A i \in DOMAIN results : results'[i] = results[i]
    BY <1>5, <2>1, NoPairs
  <2>3. results = [i \in DOMAIN results |-> results[i]]
    BY <1>2 DEF IInv, RefsOK
  <2> QED BY <1>1, <1>6, <2>1, <2>2, <2>3
<1>8. FilesOK' /\ NamesUsed' /\ MappingOK' /\ Awaiting'
  BY <1>1, <1>2 DEF IInv, FilesOK, NamesUsed, MappingOK, Awaiting
<1>9. Repaired /\ Repaired' /\ TodoOK'
  BY <1>1, <1>2 DEF IInv, TodoOK, Repaired, Exists, Skipped
<1>10. RefsOK'
  BY <1>1, <1>2, <1>4, <1>6 DEF IInv, RefsOK
<1>11. Whole1' = Whole1 /\ \A t \in Whole1 : Kept(t)'
  BY <1>1, <1>2 DEF IInv, Kept, Whole1
<1>12. Settled'
  <2>1. settled' = <<files', refs', results'>>
    BY <1>1, <1>2, <1>7 DEF IInv, Settled
  <2> QED BY <1>1, <1>4, <1>9, <1>6, <2>1 DEF Settled
<1>13. ASSUME Undisturbed
       PROVE  Follow'
  <2>1. CASE settled # <<>>
    BY <1>1, <1>2, <1>11, <1>13, <1>7, <2>1 DEF FInv, Follow, Leads
  <2>2. CASE ~(settled # <<>>)
    <3>1. ~Stuck
      BY <1>9, WholeFields DEF Stuck, Repaired, Exists, Skipped
    <3>2. FilesMoved /\ KeysOK /\ RefsMoved
      BY <1>2, <1>13, <2>2, <3>1 DEF FInv, FirstStart
    <3>3. ASSUME NEW i \in DOMAIN refs
          PROVE  (Legal(i) => draft[i] = i) /\ (i \in Whole1 => files[draft[i]] = Whole(draft[i], i))
      <4>1. CASE Legal(i)
        <5>1. draft[i] = i
          BY <1>1, <3>2, <4>1 DEF RefsMoved
        <5> QED BY <3>2, <4>1, <5>1 DEF FilesMoved
      <4>2. CASE ~Legal(i)
        <5>1. PICK k \in DOMAIN mapping : mapping[k] = <<i, draft[i]>>
          BY <1>1, <1>4, <3>2, <4>2 DEF RefsMoved
        <5>2. ASSUME i \in Whole1
              PROVE  files[draft[i]] = Whole(draft[i], i)
          <6>1. PICK j \in DOMAIN mapping : mapping[j][1] = i /\ files[mapping[j][2]] = Whole(mapping[j][2], i)
            BY <1>1, <3>2, <4>2, <5>2 DEF FilesMoved, Moved
          <6>2. j = k
            BY <1>1, <3>2, <5>1, <6>1 DEF KeysOK
          <6> QED BY <5>1, <6>1, <6>2
        <5> QED BY <4>2, <5>2
      <4> QED BY <4>1, <4>2
    <3>4. ASSUME NEW i \in DOMAIN results
          PROVE  (Legal(i) => results'[i] = i) /\ (i \in Whole1 => files[results'[i]] = Whole(results'[i], i))
      <4>1. results[i] = i
        BY <3>2 DEF RefsMoved
      <4>2. CASE Legal(i)
        <5>1. results'[i] = i
          BY <1>1, <1>5, <3>2, <4>1, <4>2 DEF KeysOK
        <5> QED BY <3>2, <4>2, <5>1 DEF FilesMoved
      <4>3. CASE ~Legal(i)
        <5>1. PICK k \in DOMAIN mapping : mapping[k][1] = i /\ results'[i] = mapping[k][2]
          BY <1>5, <4>1, <4>3
        <5>2. ASSUME i \in Whole1
              PROVE  files[results'[i]] = Whole(results'[i], i)
          <6>1. PICK j \in DOMAIN mapping : mapping[j][1] = i /\ files[mapping[j][2]] = Whole(mapping[j][2], i)
            BY <1>1, <3>2, <4>3, <5>2 DEF FilesMoved, Moved
          <6>2. j = k
            BY <1>1, <3>2, <5>1, <6>1 DEF KeysOK
          <6> QED BY <5>1, <6>1, <6>2
        <5> QED BY <4>3, <5>2
      <4> QED BY <4>2, <4>3
    <3>5. Leads(refs)'
      BY <1>1, <1>4, <1>11, <3>3 DEF Leads
    <3>6. Leads(results)'
      BY <1>1, <1>11, <1>6, <3>4 DEF Leads
    <3> QED BY <3>5, <3>6 DEF Follow
  <2> QED BY <2>1, <2>2
<1>14. FInv'
  <2>1. settled' # <<>>
    <3>1. <<files, draft, results'>> # <<>>
      OBVIOUS
    <3> QED BY <1>1, <3>1
  <2>2. Undisturbed' <=> Undisturbed
    BY <1>1, <1>11 DEF Undisturbed
  <2> QED BY <1>1, <1>2, <1>11, <1>13, <2>1, <2>2 DEF FInv
<1> QED BY <1>8, <1>9, <1>10, <1>11, <1>12, <1>14 DEF Inv, IInv

-----------------------------------------------------------------------------

LEMMA NextKeeps == Inv /\ [Next]_vars => Inv'
<1> SUFFICES ASSUME Inv, [Next]_vars PROVE Inv'
  OBVIOUS
<1>1. CASE \E s \in todo : Skip(s) \/ Rename(s) \/ Unlink(s)
  BY <1>1, SkipKeeps, FailKeeps, RenameKeeps, UnlinkKeeps
<1>2. CASE \E i \in Missing : Assign(i)
  BY <1>2, AssignKeeps
<1>3. CASE Scan
  BY <1>3, ScanKeeps
<1>4. CASE Gather
  BY <1>4, GatherKeeps
<1>5. CASE Update
  BY <1>5, UpdateKeeps
<1>6. CASE Commit
  BY <1>6, CommitKeeps
<1>7. CASE Restart
  BY <1>7, RestartKeeps
<1>8. CASE UNCHANGED vars
  <2>1. UNCHANGED <<files, refs, results, pc, todo, used, mapping, draft, applied, first, crashed, settled>>
    BY <1>8 DEF vars, work, transaction, ghosts
  <2>2. FilesOK' /\ NamesUsed' /\ TodoOK'
    BY <2>1 DEF Inv, IInv, FilesOK, NamesUsed, LegalStems, Exists, TodoOK, Repaired, Skipped
  <2>3. MappingOK' /\ RefsOK' /\ Awaiting'
    BY <2>1 DEF Inv, IInv, MappingOK, RefsOK, Awaiting, Missing, Referred
  <2>4. Settled' /\ \A s \in Whole1' : Kept(s)'
    BY <2>1 DEF Inv, IInv, Kept, Whole1, Settled, Repaired, Exists, Skipped
  <2>5. FInv'
    BY <2>1 DEF Inv, FInv, Whole1, Undisturbed, Follow, Leads, Stuck, FirstStart, FilesMoved, Moved, KeysOK, RefsMoved
  <2> QED BY <2>2, <2>3, <2>4, <2>5 DEF Inv, IInv
<1> QED BY <1>1, <1>2, <1>3, <1>4, <1>5, <1>6, <1>7, <1>8 DEF Next

LEMMA InvHolds == MigrationSpec => []Inv
<1> QED BY InitHolds, NextKeeps, PTL DEF MigrationSpec

\* The body of every problem is in some file at every moment of every start.
THEOREM NoProblemLost == MigrationSpec => []NothingLost
<1>1. Inv => NothingLost
  <2>1. FilesOK => DOMAIN files = Ids
    BY DEF FilesOK
  <2> QED BY <2>1 DEF Inv, IInv, NothingLost, Kept
<1> QED BY <1>1, InvHolds, PTL

\* Whatever the first start met, later starts change neither files nor references.
THEOREM RepairsOnce == MigrationSpec => []RepairedOnce
<1>1. Inv => RepairedOnce
  BY DEF Inv, IInv, Settled, RepairedOnce
<1> QED BY <1>1, InvHolds, PTL

\* Where the files carried the ids of their names and no start was interrupted,
\* every reference leads to the problem it was about.
THEOREM ReferencesMove == MigrationSpec => []ReferencesFollow
<1>1. Inv => ReferencesFollow
  BY DEF Inv, FInv, Undisturbed, Follow, Leads, ReferencesFollow
<1> QED BY <1>1, InvHolds, PTL
================================================================================
