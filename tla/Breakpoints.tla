----------------------------- MODULE Breakpoints -----------------------------
(* debug/breakpoints.go: the tables between the lines of a program's source *)
(* and its instructions, both counted from 0.                               *)
EXTENDS Integers

CONSTANTS
  NInst,   (* the program's instructions are 0..(NInst - 1)                *)
  Line     (* the source line each was compiled from (instToSource)        *)

ASSUME CodeAssumption == NInst \in Nat /\ Line \in [0..(NInst - 1) -> Nat]

(* NewBreakpoints(): one more than the last line, as it is known when the  *)
(* first n instructions have been looked at ...                            *)
linesUpTo[n \in 0..NInst] ==
  IF n = 0 THEN 0
           ELSE IF Line[n - 1] >= linesUpTo[n - 1] THEN Line[n - 1] + 1 ELSE linesUpTo[n - 1]
NLines == linesUpTo[NInst]

(* ... and the first of them that each line has, -1 for none.              *)
(* Mutant: the last one.                                                   *)
LastOfLine(table, pc)  == [table EXCEPT ![Line[pc]] = pc]
FirstOfLine(table, pc) == IF table[Line[pc]] < 0 THEN [table EXCEPT ![Line[pc]] = pc] ELSE table
tableUpTo[n \in 0..NInst] ==
  IF n = 0 THEN [line \in 0..(NLines - 1) |-> -1] ELSE FirstOfLine(tableUpTo[n - 1], n - 1)
sourceToInst == tableUpTo[NInst]

InstFromSource(line) == IF line \in 0..(NLines - 1) THEN sourceToInst[line] ELSE -1

(* The lines a breakpoint can be on, and the breakpoints the VM is given   *)
(* for lines, and for instructions: what does not exist is left out.       *)
Verified(lines)          == {line \in lines : InstFromSource(line) >= 0}
ComputeLineBreaks(lines) == {InstFromSource(line) : line \in Verified(lines)}
ComputeInstBreaks(pcs)   == pcs \cap 0..(NInst - 1)

(* The reference: the instructions at which a line begins.                 *)
LineStarts == {pc \in 0..(NInst - 1) : \A earlier \in 0..(pc - 1) : Line[earlier] # Line[pc]}
=============================================================================
