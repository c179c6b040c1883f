------------------------------- MODULE FileIo --------------------------------
(***************************************************************************)
(* The file statements of a running program: lib/io.go, which they call,   *)
(* the code asmgen/ generates for them, and the types typecheck/ wants.    *)
(*                                                                         *)
(* A file variable is a struct that is copied like a number.  It holds a   *)
(* pointer to an os.File, and one to a bufio.Reader when it is an          *)
(* InputFile: copies share both.  The directory maps names to files; an    *)
(* open file keeps its contents when its name goes away.                   *)
(***************************************************************************)
EXTENDS Naturals, Sequences, FiniteSetsExt, SequencesExt

CONSTANTS
  Names,       (* of files                                                 *)
  InVars, OutVars, AppVars,   (* the variables, by their type              *)
  Records,     (* what Write statements write: sequences of values         *)
  Shapes,      (* what Read statements read: sequences of types            *)
  MaxHandles,  (* bound: the files open at a time                          *)
  MaxFiles,    (* bound: the files that have a name or are open            *)
  MaxRecords   (* bound: the records in all the files                      *)

Vars  == InVars \cup OutVars \cup AppVars
Types == {"Integer", "Real", "String", "Character", "Boolean"}
Whole == {"0", "1", "7"}
Values ==
  [type : {"Integer"}, val : Whole]
    \cup [type : {"Real"}, val : Whole \cup {"0.5"}]
    \cup [type : {"String", "Character"}, val : {"x"}]
    \cup [type : {"Boolean"}, val : {"True", "False"}]

ASSUME FileAssumption ==
  /\ Records \subseteq Seq(Values) /\ Shapes \subseteq Seq(Types)
  /\ <<>> \notin Records /\ <<>> \notin Shapes
  /\ {MaxHandles, MaxFiles, MaxRecords} \subseteq Nat
  /\ InVars \cap (OutVars \cup AppVars) = {}

VARIABLES
  dir,      (* the file that a name stands for, 0 for none                 *)
  files,    (* the text of each file, and (history) its records as written *)
  handles,  (* the os.Files with the bufio.Readers made for them, and      *)
            (* (history) the records that were read through each           *)
  var,      (* the handle in a file variable, 0 for nil                    *)
  fault     (* the panic that ended the program, and whether the file it   *)
            (* is about was open                                           *)

vars == <<dir, files, handles, var, fault>>

NoFault  == [msg |-> "none", open |-> FALSE]
NoFile   == [text |-> <<>>, records |-> <<>>]
NoHandle == [file |-> 0, open |-> FALSE, pos |-> 0, buf |-> <<>>, got |-> <<>>]

Handles == 1..MaxHandles
Files   == 1..MaxFiles

Init ==
  /\ dir = [name \in Names |-> 0] /\ files = [n \in Files |-> NoFile]
  /\ handles = [h \in Handles |-> NoHandle] /\ var = [f \in Vars |-> 0]
  /\ fault = NoFault

-----------------------------------------------------------------------------
(* The text of a file is a sequence of fields: the text of a value, and    *)
(* the separator behind it.                                                *)
(* Numbers are written without their type: 1 and 1.0 are the same text.    *)
Text(v) ==
  << CASE v.type \in {"Integer", "Real"} -> "number"
       [] v.type = "String"              -> "quoted"
       [] v.type = "Character"           -> "char"
       [] OTHER                          -> "word", v.val >>

Fields == [text : {Text(v) : v \in Values}, sep : {"tab", "newline"}]

(* WriteFile(): a tab behind each value, a new line behind the last.       *)
Separator(i, n) == IF i < n THEN "tab" ELSE "newline"
Line(rec) == [i \in DOMAIN rec |-> [text |-> Text(rec[i]), sep |-> Separator(i, Len(rec))]]

(* ReadInteger(), ReadReal(), ...: whether strconv accepts the text, and   *)
(* the value it makes of it.  A character that could be read is refused    *)
(* (`len(v) != 0`), and an empty one has no first byte.                    *)
Scans(type, text) ==
  \/ type = "Integer" /\ text[1] = "number" /\ text[2] \in Whole
  \/ type = "Real"    /\ text[1] = "number"
  \/ type = "String"  /\ text[1] \in {"quoted", "char"}
  \/ type = "Boolean" /\ (text[1] = "word" \/ text \in {"number"} \X {"0", "1"})

Scanned(type, text) ==
  [type |-> type, val |-> IF type = "Boolean" /\ text[1] = "number"
                            THEN IF text[2] = "1" THEN "True" ELSE "False"
                            ELSE text[2]]

Behind(seq, n) == SubSeq(seq, n + 1, Len(seq))

(* A bufio.Reader reads ahead to the end of the file (which is shorter     *)
(* than its buffer), when what it has is not enough; a closed file has     *)
(* nothing more for it.                                                    *)
(* Mutant: the same text is read again.                                    *)
Refill(h) == IF h.open THEN [h EXCEPT !.buf = @ \o files[h.file].text] ELSE h
Fill(h) ==
  IF h.open
    THEN LET text == files[h.file].text
         IN  [h EXCEPT !.buf = @ \o Behind(text, h.pos), !.pos = Len(text)]
    ELSE h

(* scanValue(): up to the separator.                                      *)
(* Mutant: any separator ends the value.                                   *)
AnyEnds(field, sep) == TRUE
Ends(field, sep)    == field.sep = sep
Has(h, sep)         == \E i \in DOMAIN h.buf : Ends(h.buf[i], sep)

(* One step of a Read statement: on the reader and the values so far.  The *)
(* other separator must not come before.                                   *)
ScanField(r, type, sep) ==
  LET h  == IF Has(r.h, sep) THEN r.h ELSE Fill(r.h)
      at == SelectInSeq(h.buf, LAMBDA field : Ends(field, sep))
  IN  IF r.ok /\ at = 1 /\ Scans(type, h.buf[1].text)
        THEN [h    |-> [h EXCEPT !.buf = Tail(@)],
              vals |-> Append(r.vals, Scanned(type, h.buf[1].text)), ok |-> TRUE]
        ELSE [r EXCEPT !.ok = FALSE]

(* PreVisitReadStmt(): a tab behind each field, a new line behind the last.*)
ReadRecord(h, types) ==
  LET upTo[n \in 0..Len(types)] ==
        IF n = 0 THEN [h |-> h, vals |-> <<>>, ok |-> TRUE]
                 ELSE ScanField(upTo[n - 1], types[n], Separator(n, Len(types)))
  IN  upTo[Len(types)]

-----------------------------------------------------------------------------
(* The statements.                                                         *)
IsOpen(f) == var[f] # 0
Handle(f) == handles[var[f]]
Running   == fault = NoFault

(* What a statement leaves behind.  A handle that no variable has, and a   *)
(* file with neither name nor handle, are forgotten (the garbage collector *)
(* closes the one, the system removes the other).                          *)
Settle(d, fs, hs, v) ==
  LET live == {v[f] : f \in Vars}
      used == {d[name] : name \in Names} \cup {hs[h].file : h \in live \ {0}}
  IN  /\ dir' = d /\ var' = v
      /\ handles' = [h \in Handles |-> IF h \in live THEN hs[h] ELSE NoHandle]
      /\ files' = [n \in Files |-> IF n \in used THEN fs[n] ELSE NoFile]

(* A panic ends the program, and with it its variables.                    *)
Panics(msg, isOpen) ==
  /\ fault' = [msg |-> msg, open |-> isOpen]
  /\ Settle(dir, files, handles, [f \in Vars |-> 0])
Fails(f, msg) == Panics(msg, IsOpen(f) /\ Handle(f).open)

(* An Open statement: the library call has made or found the file, and     *)
(* Store puts its struct into the variable.                                *)
Store(f, h)  == [var EXCEPT ![f] = h]
Opened(f, d, fs, file, pos) ==
  \E h \in Handles :
    /\ handles[h] = NoHandle /\ \A k \in 1..(h - 1) : handles[k] # NoHandle
    /\ Settle(d, fs, [handles EXCEPT ![h] = [NoHandle EXCEPT !.file = file, !.open = TRUE,
                                                             !.pos = pos]], Store(f, h))
    /\ UNCHANGED fault

(* os.OpenFile() with O_CREATE.                                            *)
Created(f, name) ==
  LET free == {n \in Files : /\ \A other \in Names : dir[other] # n
                             /\ \A h \in Handles : handles[h].file # n}
  IN  \E n \in free :
        /\ \A k \in free : n <= k
        /\ Opened(f, [dir EXCEPT ![name] = n], files, n, 0)

(* The programs of this model leave a file alone that a variable has open: *)
(* they do not truncate it, nor do they write it in two ways.              *)
InUse(file, writers) ==
  \E f \in Vars :
    /\ IsOpen(f) /\ Handle(f).open /\ Handle(f).file = file
    /\ writers => f \notin InVars

OpenOutputFile(f, name) ==
  /\ Running /\ ~IsOpen(f) /\ f \in OutVars
  /\ IF dir[name] = 0
       THEN Created(f, name)
       ELSE /\ ~InUse(dir[name], FALSE)
            /\ Opened(f, dir, [files EXCEPT ![dir[name]] = NoFile], dir[name], 0)

(* Mutant: without O_APPEND.                                               *)
OpenWithoutAppend(f, name) ==
  /\ Running /\ ~IsOpen(f) /\ f \in AppVars
  /\ dir[name] # 0 /\ ~InUse(dir[name], TRUE)
  /\ Opened(f, dir, files, dir[name], 0)
OpenAppendFile(f, name) ==
  /\ Running /\ ~IsOpen(f) /\ f \in AppVars
  /\ IF dir[name] = 0
       THEN Created(f, name)
       ELSE /\ ~InUse(dir[name], TRUE)
            /\ Opened(f, dir, files, dir[name], Len(files[dir[name]].text))

OpenInputFile(f, name) ==
  /\ Running /\ ~IsOpen(f) /\ f \in InVars
  /\ IF dir[name] = 0
       THEN Fails(f, "no such file")
       ELSE Opened(f, dir, files, dir[name], 0)

OpenAgain(f) ==
  /\ Running /\ IsOpen(f)
  /\ Fails(f, "file already open")

(* CloseInputFile() and CloseOutputFile() close the os.File; what they set *)
(* to nil is their copy of the struct.                                     *)
Close(f) ==
  /\ Running
  /\ \/ ~IsOpen(f) /\ Fails(f, "file not open")
     \/ IsOpen(f) /\ ~Handle(f).open /\ Fails(f, "file already closed")
     \/ /\ IsOpen(f) /\ Handle(f).open
        /\ Settle(dir, files, [handles EXCEPT ![var[f]].open = FALSE], var)
        /\ UNCHANGED fault

(* WriteFile()                                                             *)
Write(f, rec) ==
  /\ Running /\ f \notin InVars /\ IsOpen(f) /\ Handle(f).open
  /\ LET n == Handle(f).file
     IN  /\ MapThenSumSet(LAMBDA k : Len(files[k].records), Files) < MaxRecords
         /\ Settle(dir,
                   [files EXCEPT ![n] = [text    |-> @.text \o Line(rec),
                                         records |-> Append(@.records, rec)]],
                   [handles EXCEPT ![var[f]].pos = @ + Len(Line(rec))], var)
  /\ UNCHANGED fault

(* The type checker lets a program write any type of file, and read it; the*)
(* call of the library function panics.                                    *)
WriteFails(f) ==
  /\ Running
  /\ \/ f \in InVars /\ Fails(f, "wrong type")
     \/ f \notin InVars /\ ~IsOpen(f) /\ Fails(f, "file not open")
     \/ f \notin InVars /\ IsOpen(f) /\ ~Handle(f).open /\ Fails(f, "file already closed")

Read(f, types) ==
  /\ Running /\ f \in InVars /\ IsOpen(f)
  /\ LET r == ReadRecord(Handle(f), types)
     IN  IF r.ok
           THEN /\ Settle(dir, files, [handles EXCEPT ![var[f]] =
                                         [r.h EXCEPT !.got = Append(@, r.vals)]], var)
                /\ UNCHANGED fault
           ELSE Fails(f, "cannot read")

ReadFails(f) ==
  /\ Running
  /\ \/ f \notin InVars /\ Fails(f, "wrong type")
     \/ f \in InVars /\ ~IsOpen(f) /\ Fails(f, "file not open")

(* eof(): Peek(1) reads ahead.  The error of a closed file is not io.EOF.  *)
(* Mutant: it does not read ahead.                                         *)
NoPeek(h) == h
Peek(h) == IF h.buf = <<>> THEN Fill(h) ELSE h
IsEof(h) == Peek(h).buf = <<>> /\ h.open
Eof(f) ==
  /\ Running /\ f \in InVars
  /\ IF ~IsOpen(f)
       THEN Fails(f, "file not open")
       ELSE /\ handles' = [handles EXCEPT ![var[f]] = Peek(@)]
            /\ UNCHANGED <<dir, files, var, fault>>

DeleteFile(name) ==
  /\ Running
  /\ IF dir[name] = 0
       THEN Panics("no such file", FALSE)
       ELSE Settle([dir EXCEPT ![name] = 0], files, handles, var) /\ UNCHANGED fault

RenameFile(old, new) ==
  /\ Running /\ old # new
  /\ IF dir[old] = 0
       THEN Panics("no such file", FALSE)
       ELSE /\ Settle([dir EXCEPT ![new] = dir[old], ![old] = 0], files, handles, var)
            /\ UNCHANGED fault

(* Set f = g, or a call that passes g by value: the struct is copied.      *)
Assign(f, g) ==
  /\ Running /\ var[f] # var[g]
  /\ \E vs \in {InVars, OutVars, AppVars} : {f, g} \subseteq vs
  /\ Settle(dir, files, handles, [var EXCEPT ![f] = var[g]])
  /\ UNCHANGED fault

(* A Declare: an empty struct.                                             *)
Declare(f) ==
  /\ Running /\ IsOpen(f)
  /\ Settle(dir, files, handles, [var EXCEPT ![f] = 0])
  /\ UNCHANGED fault

(* The program has ended, and another one runs: the disk is what it finds. *)
RunAgain ==
  /\ ~Running
  /\ fault' = NoFault
  /\ Settle(dir, files, handles, var)

Next ==
  \/ \E f \in Vars, name \in Names :
       OpenOutputFile(f, name) \/ OpenAppendFile(f, name) \/ OpenInputFile(f, name)
  \/ \E f \in Vars :
       OpenAgain(f) \/ Close(f) \/ Eof(f) \/ Declare(f) \/ WriteFails(f) \/ ReadFails(f)
  \/ \E f \in Vars, rec \in Records : Write(f, rec)
  \/ \E f \in Vars, types \in Shapes : Read(f, types)
  \/ \E name \in Names : DeleteFile(name)
  \/ \E old, new \in Names : RenameFile(old, new)
  \/ \E f, g \in Vars : Assign(f, g)
  \/ RunAgain

Spec == Init /\ [][Next]_vars

-----------------------------------------------------------------------------
(* A Read that succeeds has read one whole record (README.md:190), through *)
(* whichever copy of the variable; and each value that is read with the    *)
(* type it was written with, or one that takes its values, is that value.  *)
Takes(to, from) == to = from \/ <<to, from>> \in {<<"Real", "Integer">>, <<"String", "Character">>}
IsRead(read, wrote) ==
  /\ Len(read) = Len(wrote)
  /\ \A i \in DOMAIN read :
       Takes(read[i].type, wrote[i].type) => read[i].val = wrote[i].val

ReadsBack ==
  \A f \in InVars : IsOpen(f) /\ Handle(f).open =>
    \A n \in DOMAIN Handle(f).got :
      IsRead(Handle(f).got[n], files[Handle(f).file].records[n])

(* A reader stands at the start of a record, whatever was read, added to   *)
(* the file, deleted or renamed since: what is left for it is the records  *)
(* it has not read.                                                        *)
Lines(recs)   == FlattenSeq([n \in DOMAIN recs |-> Line(recs[n])])
Left(h, recs) == Behind(recs, Len(h.got))

AtRecord ==
  \A f \in InVars : IsOpen(f) /\ Handle(f).open =>
    Fill(Handle(f)).buf = Lines(Left(Handle(f), files[Handle(f).file].records))

(* eof() is true only behind the last record, so that While NOT eof() reads*)
(* them all; and false only before it, if the file is still open.          *)
EofIsTheEnd ==
  \A f \in InVars : IsOpen(f) =>
    LET h   == Handle(f)
        end == Len(h.got) = Len(files[h.file].records)
    IN  /\ IsEof(h) => end
        /\ end /\ h.open => IsEof(h)

(* Why they hold, of a directory d, files fs, handles hs, and variables v. *)
FileType   == [text : Seq(Fields), records : Seq(Records)]
HandleType == [file : 0..MaxFiles, open : BOOLEAN, pos : Nat, buf : Seq(Fields),
               got : Seq(Seq(Values))]
FileTypes(d, fs, hs, v) ==
  /\ d \in [Names -> 0..MaxFiles] /\ fs \in [Files -> FileType]
  /\ hs \in [Handles -> HandleType] /\ v \in [Vars -> 0..MaxHandles]
  /\ \A f \in Vars : v[f] # 0 => hs[v[f]].file \in Files

(* A file has the lines of its records, a reader of it has got some of     *)
(* them, and has the rest before it, in its buffer or on the disk.         *)
HasLines(file) == file.text = Lines(file.records)
Follows(h, file) ==
  /\ h.pos <= Len(file.text) /\ Len(h.got) <= Len(file.records)
  /\ h.buf \o Behind(file.text, h.pos) = Lines(Left(h, file.records))
  /\ \A n \in 1..Len(h.got) : IsRead(h.got[n], file.records[n])

(* A writer is at the end of its file, is the only one, and shares no      *)
(* handle with a reader.                                                   *)
Reading(hs, v) == {f \in InVars : v[f] # 0 /\ hs[v[f]].open}
Writing(hs, v) == {f \in Vars \ InVars : v[f] # 0 /\ hs[v[f]].open}
WritersApart(fs, hs, v) ==
  /\ \A f \in Writing(hs, v) : hs[v[f]].pos = Len(fs[hs[v[f]].file].text)
  /\ \A f, g \in Writing(hs, v) : hs[v[f]].file = hs[v[g]].file => v[f] = v[g]
  /\ \A f \in InVars, g \in Vars \ InVars : v[f] # 0 => v[f] # v[g]

Fine(d, fs, hs, v) ==
  /\ FileTypes(d, fs, hs, v)
  /\ \A n \in Files : HasLines(fs[n])
  /\ \A f \in Reading(hs, v) : Follows(hs[v[f]], fs[hs[v[f]].file])
  /\ WritersApart(fs, hs, v)

(* A file that nobody can find any more is empty when its number is given  *)
(* to another.                                                             *)
FileInv ==
  /\ Fine(dir, files, handles, var)
  /\ \A n \in Files :
       (\A name \in Names : dir[name] # n) /\ (\A h \in Handles : handles[h].file # n)
         => files[n] = NoFile

(* A file that the panic says is already open (io.go:106) is open.         *)
SaysOpenIsOpen ==
  fault.msg = "file already open" => fault.open
=============================================================================
