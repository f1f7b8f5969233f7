------------------------------- MODULE Migration -------------------------------
(***************************************************************************)
(* The start of the service repairs problem ids that are not safe as file  *)
(* names: ProblemStore.migrate_safe_ids renames the files one by one,      *)
(* migrate_problem_references then updates every reference to them in one  *)
(* transaction (main.py, lifespan).  The mapping between the two is only   *)
(* in memory, and the process may stop anywhere and start again.           *)
(*                                                                         *)
(* A file has the id in its name (stem) and the one in its content, and a  *)
(* body, named by the stem it was first found under.                       *)
(***************************************************************************)
EXTENDS Naturals, Sequences, FiniteSetsExt, Functions

CONSTANTS
  Numbers,   \* the ids "1001", "1002", ... in order
  Names,     \* the other ids, in the order of _problem_sort_key
  Unsafe,    \* those of them that do not match PROBLEM_ID_RE
  Stems,     \* bound: ids of the files and references there at first
  MaxStarts  \* bound: starts after the first

ASSUME MigrationAssumption ==
  /\ Unsafe \subseteq Range(Names) /\ Stems \subseteq Range(Numbers) \cup Range(Names)
  /\ Numbers \in Seq(Range(Numbers)) /\ Names \in Seq(Range(Names))
  /\ Range(Numbers) \cap Range(Names) = {} /\ MaxStarts \in Nat

VARIABLES
  files,    \* [stems -> absent, broken, list (JSON, not an object) or whole]
  refs,     \* [ids referred to at first -> what the rows say now]
  results,  \* the same for the ids inside the results of AI tasks
  pc, todo, used, next, mapping, \* the start in progress
  draft,    \* the references as the open transaction has them
  applied,  \* how many entries of the mapping have been applied to them
  starts,
  first,    \* ghost: the files as they were
  crashed,  \* ghost: a start did not finish
  settled   \* ghost: what the first finished start left, or none

work == <<todo, used, next, mapping>>
transaction == <<draft, applied>>
ghosts == <<first, crashed, settled>>
vars == <<files, refs, results, pc, work, transaction, starts, ghosts>>

Order == Numbers \o Names
Position(s) == CHOOSE k \in DOMAIN Order : Order[k] = s
Foremost(s, S) == s \in S /\ \A t \in S : Position(s) <= Position(t)
Legal(i) == i \notin Unsafe
Number(i) == CHOOSE k \in DOMAIN Numbers : Numbers[k] = i
Absent == [kind |-> "absent"]
Whole(i, b) == [kind |-> "whole", id |-> i, body |-> b]
Exists(s) == files[s] # Absent
LegalStems == {s \in DOMAIN files : Exists(s) /\ Legal(s)}

\* the number after the largest one in use; the ones that have been given out
\* since are skipped
After(S) == Max({0} \cup {Number(i) : i \in S \cap Range(Numbers)}) + 1
NextFree(n, S, k) == k >= n /\ Numbers[k] \notin S /\ \A m \in n .. k - 1 : Numbers[m] \in S
Free(n, S) == CHOOSE k \in DOMAIN Numbers : NextFree(n, S, k)

\* bound: a start that has used up the model's numbers goes no further
NumbersLeft == \E k \in DOMAIN Numbers : NextFree(next, used, k)

\* an entry of a Python dict keeps its place when its value changes
Enter(m, old, new) ==
  IF \E i \in DOMAIN m : m[i][1] = old
  THEN [i \in DOMAIN m |-> IF m[i][1] = old THEN <<old, new>> ELSE m[i]]
  ELSE Append(m, <<old, new>>)

Scan ==
  /\ pc = "scan" /\ pc' = "file"
  /\ used' = LegalStems /\ next' = After(LegalStems)
  /\ todo' = {s \in DOMAIN files : Exists(s)} /\ mapping' = <<>>
  /\ UNCHANGED <<files, refs, results, transaction, starts, ghosts>>

Skipped(s) ==
  \/ files[s].kind = "broken"
  \/ files[s].kind = "whole" /\ files[s].id = s /\ Legal(s)

Skip(s) ==
  /\ pc = "file" /\ Foremost(s, todo) /\ Skipped(s)
  /\ todo' = todo \ {s}
  /\ UNCHANGED <<files, refs, results, pc, used, next, mapping, transaction, starts, ghosts>>

\* mutant: nobody looks whether the id is taken
Occupied_Never(s) == FALSE

\* the id of the content is kept if it is safe and no file has it
Occupied(s) == files[s].id \in used

\* mutant: the content keeps the id it had
Rename_NameOnly(s) ==
  /\ pc = "file" /\ Foremost(s, todo) /\ ~Skipped(s) /\ NumbersLeft
  /\ IF files[s].kind = "list"
     THEN pc' = "failed" /\ UNCHANGED <<files, used, next, mapping>>
     ELSE LET keep == Legal(files[s].id) /\ ~Occupied(s)
              n == Free(next, used)
              new == IF keep THEN files[s].id ELSE Numbers[n]
          IN  /\ mapping' = IF keep THEN mapping ELSE Enter(mapping, files[s].id, new)
              /\ next' = IF keep THEN next ELSE n + 1
              /\ used' = used \cup {new}
              /\ files' = [files EXCEPT ![new] = files[s]]
              /\ pc' = "unlink"
  /\ UNCHANGED <<refs, results, todo, transaction, starts, ghosts>>

Rename(s) ==
  /\ pc = "file" /\ Foremost(s, todo) /\ ~Skipped(s) /\ NumbersLeft
  /\ IF files[s].kind = "list"
     THEN pc' = "failed" /\ UNCHANGED <<files, used, next, mapping>>
     ELSE LET keep == Legal(files[s].id) /\ ~Occupied(s)
              n == Free(next, used)
              new == IF keep THEN files[s].id ELSE Numbers[n]
          IN  /\ mapping' = IF keep THEN mapping ELSE Enter(mapping, files[s].id, new)
              /\ next' = IF keep THEN next ELSE n + 1
              /\ used' = used \cup {new}
              /\ files' = [files EXCEPT ![new] = Whole(new, files[s].body)]
              /\ pc' = "unlink"
  /\ UNCHANGED <<refs, results, todo, transaction, starts, ghosts>>

Unlink(s) ==
  /\ pc = "unlink" /\ Foremost(s, todo) /\ pc' = "file"
  /\ files' = [files EXCEPT ![s] = Absent] /\ todo' = todo \ {s}
  /\ UNCHANGED <<refs, results, used, next, mapping, transaction, starts, ghosts>>

Referred == Range(refs) \cup Range(results)

\* mutant: the references do not get the mapping of the files
Gather_Alone ==
  /\ pc = "file" /\ todo = {} /\ pc' = "refs"
  /\ used' = LegalStems \cup {i \in Referred : Legal(i)}
  /\ next' = After(used') /\ mapping' = <<>>
  /\ draft' = refs /\ applied' = 0
  /\ UNCHANGED <<files, refs, results, todo, starts, ghosts>>

\* migrate_problem_references opens its transaction and reads all references
Gather ==
  /\ pc = "file" /\ todo = {} /\ pc' = "refs"
  /\ used' = LegalStems \cup {mapping[k][2] : k \in DOMAIN mapping} \cup {i \in Referred : Legal(i)}
  /\ next' = After(used')
  /\ draft' = refs /\ applied' = 0
  /\ UNCHANGED <<files, refs, results, todo, mapping, starts, ghosts>>

\* unsafe references the files do not explain
Missing == {i \in Referred : ~Legal(i) /\ \A k \in DOMAIN mapping : mapping[k][1] # i}

\* ... get numbers of their own
Assign(i) ==
  /\ pc = "refs" /\ Foremost(i, Missing) /\ NumbersLeft
  /\ LET n == Free(next, used)
     IN  /\ mapping' = Append(mapping, <<i, Numbers[n]>>)
         /\ used' = used \cup {Numbers[n]} /\ next' = n + 1
  /\ UNCHANGED <<files, refs, results, pc, todo, transaction, starts, ghosts>>

\* the UPDATEs of the tables for one entry of the mapping
Update ==
  /\ pc = "refs" /\ Missing = {} /\ applied < Len(mapping)
  /\ LET entry == mapping[applied + 1]
     IN  draft' = [i \in DOMAIN draft |-> IF draft[i] = entry[1] THEN entry[2] ELSE draft[i]]
  /\ applied' = applied + 1
  /\ UNCHANGED <<files, refs, results, pc, work, starts, ghosts>>

\* an id inside a result is looked up in the mapping once
Translated(i) ==
  IF \E k \in DOMAIN mapping : mapping[k][1] = i
  THEN mapping[CHOOSE k \in DOMAIN mapping : mapping[k][1] = i][2]
  ELSE i

Commit ==
  /\ pc = "refs" /\ Missing = {} /\ applied = Len(mapping) /\ pc' = "up"
  /\ refs' = draft /\ results' = [i \in DOMAIN results |-> Translated(results[i])]
  /\ settled' = IF settled = <<>> THEN <<files, draft, results'>> ELSE settled
  /\ UNCHANGED <<files, work, transaction, starts, first, crashed>>

\* a crash during the start, which rolls back, or a later end of the service
Restart ==
  /\ starts < MaxStarts /\ starts' = starts + 1
  /\ pc' = "scan" /\ crashed' = (crashed \/ pc \notin {"up", "failed"})
  /\ todo' = {} /\ used' = {} /\ next' = 1 /\ mapping' = <<>> /\ draft' = refs /\ applied' = 0
  /\ UNCHANGED <<files, refs, results, first, settled>>

Init ==
  /\ \E f \in [Stems -> {Absent, [kind |-> "broken"], [kind |-> "list"]} \cup {Whole(i, "") : i \in Stems}] :
       files = [s \in Range(Order) |-> IF s \notin Stems THEN Absent
                ELSE IF f[s].kind = "whole" THEN Whole(f[s].id, s) ELSE f[s]]
  /\ \E S \in SUBSET Stems : refs = [i \in S |-> i]
  /\ results = refs
  /\ pc = "scan" /\ todo = {} /\ used = {} /\ next = 1 /\ mapping = <<>>
  /\ draft = refs /\ applied = 0
  /\ starts = 0 /\ first = files /\ crashed = FALSE /\ settled = <<>>

Next ==
  \/ \E s \in todo : Skip(s) \/ Rename(s) \/ Unlink(s)
  \/ \E i \in Missing : Assign(i)
  \/ Scan \/ Gather \/ Update \/ Commit \/ Restart

MigrationSpec == Init /\ [][Next]_vars

-----------------------------------------------------------------------------
(* Properties *)

Whole1 == {s \in DOMAIN first : first[s].kind = "whole"}

\* No problem is lost: its body is in some file at every moment, wherever the
\* process stops and however names and contents clash.
NothingLost ==
  \A s \in Whole1 : \E t \in DOMAIN files : files[t].kind = "whole" /\ files[t].body = s

\* Where every file carried the id of its name and no start was interrupted,
\* every reference leads to the problem it was about, under a safe id.
ReferencesFollow ==
  pc = "up" /\ ~crashed /\ (\A s \in Whole1 : first[s].id = s) =>
    \A now \in {refs, results} : \A i \in DOMAIN now :
      /\ Legal(now[i]) /\ (Legal(i) => now[i] = i)
      /\ i \in Whole1 => files[now[i]] = Whole(now[i], i)

\* What the first finished start left stays: no later start changes a file or
\* a reference, however often it is interrupted.
RepairedOnce == settled # <<>> => settled = <<files, refs, results>>

\* "并只修复历史引用中的不安全编号": references to a safe id are left alone.
OnlyUnsafeRepaired == \A i \in DOMAIN refs : Legal(i) => refs[i] = i
================================================================================
