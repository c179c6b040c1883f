# A TLA+ verification of gaddis

gaddis compiles and runs the pseudocode of a programming textbook, on a small
virtual machine of its own, and offers an editor a debug adapter (DAP) for it.
This directory models the parts of it whose correctness depends on the order in
which things happen, checks the models with TLC and proves what matters most
with TLAPS.

## 1. The system

| part | source | state | talks to |
|---|---|---|---|
| lexer, parser | `lex/`, `parse/` | position in the token stream | produces the tree |
| scopes and types | `collect/`, `typecheck/`, `ast/` | scopes, types written into the tree | errors for the compiler |
| control flow | `controlflow/` | flow of each statement, assigned variables | errors for the compiler |
| code generation | `asmgen/` | code, labels | produces `asm.Assembly` |
| virtual machine | `asm/` | program counter, stack of frames, values | `lib/` for library calls |
| library | `lib/` | open files | input and output providers |
| debug session | `debug/` | run state, yield flag, command channel, step, breakpoints, exception | drives the VM, tells the event host |
| event host | `dap/host.go` | the suppression flag | DAP session's `send` |
| DAP session | `dap/` | the current debug session, breakpoints, send queue, variable ids | requests from the client, calls to the debug session |
| terminal | `dap/terminal.go`, `cmd/gaddis/terminal.go` | listener, connection, input and output channels | input of the VM |
| command line | `cmd/gaddis/` | - | one goroutine and one DAP session per connection |
| Go generator | `gogen/`, `goexec/` | - | the Go compiler |
| editor extension | `vscode-gaddis/` | - | starts the adapter |

What each part must get right, and what makes that hard:

* **debug session.** Two goroutines share it without a lock: the VM's, in
  `play()`, and the DAP handler's, which makes the calls of `api.go`. Each call
  passes a closure through an unbuffered channel and waits for it. Hard: stale
  requests to yield, a VM that ends while a call is on its way, a terminate while
  the VM waits for input, an exception inside an instruction that a client may
  continue, restart or terminate, the stops the client hears of.
* **event host.** Every event of a run, in order, and none of an old run once a
  new one has started. Hard: the flag and the event are not tested and sent
  together.
* **DAP session.** Requests in orders no client is tested with: before launch,
  after the end, twice; the send queue that VM and handler share, and its end.
* **terminal.** Every line, in its order, in both directions, while it is open; and an
  end. Hard: two goroutines share one connection that may never come, or go, or stop
  reading, and whoever writes to it waits.
* **library.** A file is read back as it was written, record by record. Hard: a
  file variable is copied, its reader reads ahead and is shared by the copies.
* **virtual machine.** Frames, references into frames and evaluation on copies of
  them.
* **compiler.** Sequential: the hard part is that its rules (what returns, what is
  assigned, how a loop is compiled) are right for every program. The repository
  tests them on examples.

The repository has tests for `lex`, `parse`, `lib`, `gogen` and the example
programs; `debug`, `dap`, `asm` and `controlflow` have none of their own.

The list of hazards, each at its line, is in `PROJECT.json`.

## 2. Modules

| module | models | kind |
|---|---|---|
| `EventHost` | `dap/host.go`: the events of one run, in the order the VM makes them, and their suppression | component |
| `DebugRun` | what a `debug.Session` promises to its caller, whatever program it runs | abstract specification; EXTENDS `EventHost` |
| `DebugSession` | `debug/`: one `debug.Session` with its VM, its caller and its input | component; EXTENDS `EventHost`; implements `DebugRun` |
| `DapSession` | `dap/`: one connection, its handlers, queue, writer and client, and the current debug session | composition; EXTENDS `DebugRun`, `TerminalLink`, `Breakpoints` |
| `Breakpoints` | `debug/breakpoints.go`: the tables between lines and instructions | algorithm |
| `TerminalLink` | what a `dap.Terminal` promises to those who write to it | abstract specification |
| `Terminal` | `dap/terminal.go`, and `cmd/gaddis/terminal.go` at the other end | component; implements `TerminalLink` |
| `ControlFlow` | the statements of a function; `controlflow/`: which of them continue, which locals are read before they are written | algorithms |
| `AsmGen` | `asmgen/`: the code of the statements; EXTENDS `ControlFlow` | algorithm |
| `FunctionRun` | `asm/`: the machine on the code of one function, next to what the source says; EXTENDS `AsmGen` | component |
| `Types` | `ast/types.go`: coercion, subclasses, the type in which two values are compared | algorithm |
| `ClassTables` | `typecheck/supercheck.go`: the methods and fields of classes, and their positions; EXTENDS `Types` | algorithm |
| `TypedRun` | `typecheck/`, the casts of `asmgen/` and the assertions of `asm/`: the values of a running program against their types; EXTENDS `ClassTables` | component |
| `FileIo` | `lib/io.go`: the file statements of a program, and the directory they work on | component |
| `MCDebugSession`, `MCDapSession`, `MCFunctionRun`, `MCTypedRun`, `MCFileIo` | small programs, small clients, small functions, small classes, small files | instances for TLC |
| `DebugSessionProofs` | where the two goroutines of a `DebugSession` are, seen from each other | proofs |
| `DebugReportProofs` | what a session tells its client, and that a `DebugSession` implements a `DebugRun`; EXTENDS `DebugSessionProofs` | proofs |
| `TerminalProofs` | the order of the lines, and that a `Terminal` implements a `TerminalLink` | proofs |
| `Loops` | that a loop has its values, and induction over its rounds | proofs |
| `DapSessionProofs` | the tables of breakpoints, the order of the handlers' statements, and what follows; EXTENDS `Loops` | proofs |
| `FunctionRunProofs` | that the code of a function does what its source says; EXTENDS `Loops` | proofs |
| `TypedRunProofs` | the relations of `Types`, and type safety; EXTENDS `Loops` | proofs |
| `FileIoProofs` | readers follow what is written; EXTENDS `Loops` | proofs |

### EventHost

A host call (`Paused`, `Exception`, `Exited`, ...) is a sequence of events in
`outbox`, which the VM sends one by one before it does anything else. `send()` is
two steps, `PassSuppressed` or `DropSuppressed` (the load of the flag) and
`SendEvent` (the call of `sendFunc`), so that `SuppressAllEvents` can fall
between them. Program output is not suppressed, as in the code (`SendOutput`).

### DebugSession

Each of the two goroutines has a variable that says where it is.

`vm`, the VM's goroutine:

| value | place in the code |
|---|---|
| `unstarted` | `Play()` was not called |
| `top` | the loop's head, before `checkBreakpoints` |
| `wait` | the inner loop of `play()` and the test of the exception after it |
| `cmd`, `cmdEnd`, `cmdPanic` | in a closure; at its deferred `close(done)`; the same while `sentinelIoInterrupt` unwinds |
| `input` | in `inputAdapter()`, below an Input instruction or an evaluation |
| `after` | behind the function that recovers panics |
| `exit`, `closing`, `done` | the deferred calls: `Exited`, `close(ds.done)`, nothing left |
| `crashed` | the panic of "infinite loop detected" has reached the runtime |

`ctl`, the caller's goroutine: `idle`; `send` and `await`, the two selects of
`runInVm`; `returning`, when the closure has ended; `terminating` and `closing`,
between the statements of `Terminate`; `waiting` in `Wait`; `panicked` after a
second `Play()`.

One action is one atomic step of the code between two points where the other
goroutine can see a difference: the load of an atomic, a channel operation, a
host call. What a closure does between receiving it and `close(done)` is one
action, as its caller waits. The fields of the session other than the atomics
need no more: `CommandHandshake` is the reason.

The program is data. An instruction is `plain`, `jump`, `call`, `leave` (return,
end), `output`, `input`, or `lib` (may panic). Values do not exist: a jump
goes either way, a library call fails or not, a line of input is accepted or
not. Frames are their first instruction and their return address. Library
frames that `AddPanicFrames` leaves on top of the stack are one flag, `native`:
the code pushes one or more of them, and looks at how many only through a step
that was armed while they were there.

Bounds of the model itself: the client sends frame ids up to `MaxStack + 1`
(`CallRestartFrame`); breakpoints come from `BreakSets`. One `output` stands for
the outputs an instruction writes in a row.

`told` is what the client last heard about the run, `late` counts the events that
went out after suppression; both are history.

Two constants restrict the client: `Ops` (which calls it makes) and `Eager`
(whether it continues or steps a program it was not told has stopped; the DAP
handler lets it).

### DebugRun

The same session seen from the goroutine that uses it: no program, no program
counter, no channel. A run is `unstarted`, `playing`, `leaving` (its `play()`
returns), `closing`, `done`, or has `crashed` the process; while it plays it may
stop, write, wait for input and serve the one call that is open, in any order.
A call is `open`, then `serving`, when its closure has run and what it wrote goes
out (`evaluating`, while it waits for input), and `served`; it returns when it was
served or the run is `done`.

`DebugSession` defines `life`, `call` and `request` of its own state, and
`ImplementsRun` says that under this mapping each of its steps is a step of
`DebugRun` or invisible. `DapSession` is built on `DebugRun`: what holds of it
holds for every program.

### DapSession

Three goroutines: the handler (`Session.Run`), the VM of the current session, and
the writer (`sendFromQueue`). Each request handler of `dap/` is a definition that
says which statements it executes, in order: the messages it sends, the calls of
the debug session it makes. `Receive` puts them into `todo`, and one `Do...`
action executes one statement; the other two goroutines and the client take
their steps in between. Where a handler can fail for a reason outside the model
(an unknown thread, an expression that does not compile) it has several such
sequences. What a handler only reads does not appear.

The end of `Run()` is its deferred functions, in their order: halt the session,
close the queue, wait for the writer. A panic of `Play()` takes the same way:
`debugServer` recovers it, outside of `Run()`.

`launch` and `restart` carry how `tryStartSession` will fare (`source`): the file
cannot be read, does not compile, has no expected output, or is all right. The
program has one file, which is not edited while it is debugged (`bpsBySum` has one
entry).

`setBreakpoints` carries lines, of which `bps` keeps those that have an instruction,
`setInstructionBreakpoints` instructions, of which `instBps` keeps those that exist. What
the debug session gets is what `Breakpoints` makes of them, as late as the code
does: when it is made, when it is started, and in between.

A client that can run a terminal (`CanTerminal`) is asked to with the first program.
From then on the handler begins each program with a banner on it, and the VM writes
each output to the client and to the terminal. Both wait in `Write()`, as
`TerminalLink` says: until the terminal has connected, and while it does not read.
Nothing of the connection runs while the handler waits: not the next request, not
the deferred functions. `Close()`, the first of those, releases the VM.

The client sends its requests one at a time, when the one before is handled. As
the handler takes them one by one, a client that does not wait has no further
behaviours. It makes no call of a session before it has started it, because the handler would
never come back from that (listed as a hazard). `view` is what it shows: stopped,
running or ended, by the last event or response that says so, and `lost` once the
full queue lost a message.

### Terminal, TerminalLink

The acceptor (`StartTerminal`'s goroutine) is at `accept`, in its `loop`, in
`conn.Write` (`write`), waiting for the scanner (`join`), or has `ended`. The
scanner is in `Scan()`, offers the line it has read to whoever receives from
`Input` (`offer`), or drains the connection. `Close()` is two steps, as the code
closes the listener first and `Done` then. The handler and the VM are `inWrite`, or
`reading`.

The connection holds at most `Buffer` lines in each direction. Each end can close
its own direction (`fin`), which the other finds when it has read what is on its way.
The peer dials, types, ends its input, shows what arrives and leaves at the end of
it. It may be killed, at which what is on its way may be lost, or stall: then it
neither reads nor writes. A line may be longer than `bufio.Scanner` accepts, and
ends the scanner.

What the code does at the end, and `LinesInOrder` allows: the scanner may close the
direction of the output while the acceptor has a line in its hand, which is lost;
the acceptor's select may take `Done` before a line that waits; after five seconds of
draining the connection is closed whatever is left (`cut`).

`TerminalLink` is what remains of this for who writes: `waiting` for a connection,
`flowing`, `stuck`, `closed`. A terminal whose acceptor has ended without a
connection is `waiting` until `Done` is closed, as nobody takes the line.

### FileIo

`FileIo` has no program either: each step is a file statement, on any variable, in
any order. A variable holds a handle, which is the `os.File` with the `bufio.Reader`
made for it; copies hold the same one. A handle has the position of the file and
what its reader has read ahead; a file has its text, as fields (the text of a value with
the tab or the end of the line behind it), and beside it, as history, the records that were
written, as a handle has those that were read through it.

A `Read` statement takes the fields of a record one after the other, each up to its
separator, which must come before the other one. A statement fails where the library panics
(`fault`), which ends the program; the next one finds the directory (`RunAgain`).
Handles that no variable holds are forgotten, as the garbage collector closes
them (`Settle`).

Programs are restricted in one way (`InUse`): a file that a variable has open is not
truncated, nor written through a second handle; that is the program's own mistake.
Reading a file that is being written, deleting it and renaming it are included.

What the code does, and the model with it: a Character can never be read
(`io.go:258` refuses every text that has one); a Boolean is read from 0 and 1, and
an Integer from a Real that is whole, although `src/README.md:192` calls a wrong type an
error; the type checker accepts Read and Write of any type of file, and the
library panics; a closed file can still be read from its buffer, and `eof()` of it is
false.

### ControlFlow, AsmGen, FunctionRun

A function's body is data: a block is a sequence of statements, a statement a record, and
`Statements` is the set of those nested up to `Depth` in each other. The compiler's passes
over them are recursive functions on that set. `ControlFlow` defines the flow of a block as
`controlflow.go` computes it, bottom up, and what `AssignmentVisitor` has seen written when
it comes to an expression, on its way from the first line to the last. `AsmGen` defines
the code of each statement from the code of its blocks.

`FunctionRun` executes that code: program counter, evaluation stack, the locals
that have a value. Beside it, `todo` is what is left to do of the *source*, a
semantics of the statements that knows no jumps, no stack and none of the two
analyses: a While is its condition, and then its block and the While again, or
nothing. The machine takes a step of `todo` whenever it does something the
source speaks of (it takes a value, reads or writes a local, tests a condition, writes
output, calls, returns). `todo` is written out no further than needed: when it comes to a
block, a statement, a case or a round of a loop, `Unfold` replaces that by its meaning, and
the machine waits for it, but for the jumps and pops between two statements. Each part
that is not yet unfolded holds the locals that the visitor saw written above it, so that a
read knows whether it was reported; where `Unfold` comes to a statement, or to a loop, that an
analysis reported, `marks` remembers it. So one run compares three descriptions of a
function: its code, its meaning, and what the compiler claimed.

Abstractions. A jump holds its distance and not the address of its label. Of
values only the constants True and False exist, which `ConstEval` knows; any
other condition comes out either way. An expression is one literal or one local;
`set` stands for every statement that assigns one local (Input, Open, Read, a
declaration with an initialiser). The two temporaries of a For Each have the
same names in each For Each. A call passes one local by reference, and may
assign it. What the body of a loop reads is read in whatever round it is
reached, so a loop whose counter never ends is among the behaviours.

Two things in the code look odd next to a semantics and are taken as they are.
A read that is not reported may still find no value: a write in one branch counts as a
write (`LocalVal.Exec` has the test for that at run time, `ReadUnassigned`). And
the start and stop of a For cannot read its own variable, although the stop
could (`assignment_visitor.go:74` says that this is intended): the
property exempts that one read.

### Types, ClassTables, TypedRun

The virtual machine has untyped values, and its instructions assert the Go type
of what they take. Whether the assertions hold is decided in three places: the
type checker accepts a statement, the code generator puts a conversion where
the types differ, and the tables of classes say which method a call reaches.

`TypedRun` has no program. It has the declarations of one, and each step is a
statement that the type checker accepts on them, in any order: what holds of it
holds of every program with these declarations that uses what `Lax` allows. An operand is the type that the
compiler gave to an expression, and the Go type of the value that the machine
gets. `Cast` is what `maybeCast` compiles, and each action applies it where the
code generator calls it and nowhere else. A statement's instruction either takes
what it finds, or `fault` becomes `"assertion"`.

A cell of `mem` is a declaration: variables, parameters, constants and the last
result of a function by their name, under `NoClass`; the members of a class
under the class. All elements of an array share a cell, and so do a field of all
objects and a parameter of all calls, because properties are about types: a
value that one of them may hold, the others may hold as well. A parameter that
is a reference holds the cell it refers to.

An object is its class. A member access finds a declaration by the static type
of its object (`Visible`), and a cell at that declaration's position in the
table of the object's own class (`Found`): the two differ when a method is
overridden, and must not differ otherwise. `WithMembers` is the loop of
`superChecker.check` over the members of a class, and `Tables` its recursion over the
superclasses.

A place is a cell with a type and the way it is written: a name, an element of an
array, or a character of the string in a cell (`Characters`). `Set` and `Input`
replace the whole string of a character, `insert` and `delete` the string they are given.

Where the type checker accepts what the code generator does not compile, `Lax`
has a name for it: the conversion of a returned value (`"return"`), of the element of a For
Each (`"foreach"`), of a constant's value (`"constant"`), of an element of an array passed by
reference (`"element"`), the comparison of objects (`"objects"`), a For Each into an
element or a character, which `TempVisitor` takes for a name (`"target"`), a Read into a
character, for which `varRef` emits an `ArrayRef` on a string, which panics
(`"character"`), and an override (`"override"`) that takes by value what the overridden method takes
by reference, or the other way around: `checkParams` compares types only, and a call is
compiled for the declaration that the static type shows. A program uses only what `Lax`
allows; the safety run has none of
them, and its properties are claims about programs without them. With `Lax = {"return"}`, a
Character returned from a Function String stays a byte, and with `Lax = {"override"}` a
parameter gets a value where its module expects a reference: `WellTyped` fails, and
`NoAssertionFails` at the next instruction. With `{"target"}` or `{"character"}`
`NoAssertionFails` fails at once.

Left out: arrays and files as values (also that Read and Write accept a file of the
other direction), the number of arguments of `toString`, which is not checked
(typecheck.go:491), constructors, initialisers that run before the field they read, a
read of what has no value and a nil object (both are errors of the program that
the machine reports), and hierarchies with a cycle or an unknown superclass,
which `collect.go` does not survive (`ClassAssumption`). A class that has the
name of a Go type is excluded by `ValueAssumption`, because values share one
set of names.

## 3. Runs

| run | program | client | states |
|---|---|---|---|
| `DebugSession` | a call of a module that reads input and calls a library function, both of which can fail; with and without debugging, stop on entry, open input | continue, pause, step (all kinds), restart frame, terminate, halt, wait; eager | 2.7 million |
| `DebugSessionLive` | a loop of output and input, then a library call that can fail and a call that overflows the stack | continue, inspect, evaluate (with and without input), set breakpoints of both kinds, terminate, halt, wait | 260 thousand |
| `StopsOnEntry` | the loop | set breakpoints before play | to the violation |
| `DapSession` | any, with two instructions on one line | launch (a good source, an unreadable one, one with errors; stop on entry; without debugging), configurationDone, restart, continue, pause, stackTrace, disconnect, breakpoints of both kinds; no terminal | 2.8 million |
| `DapSessionLive` | the same | launch, configurationDone, restart, restartFrame, next, evaluate, terminate; hangs up; may run a terminal | 260 thousand |
| `SendOnClosed` | the same | launch, configurationDone; hangs up | to the violation |
| `Terminal` | three lines of output | two lines of input; may be killed, stall, end its input | 77 thousand |
| `FunctionRun` | 9732 functions | - | 252 thousand |
| `FunctionsReturn` | the same | - | to the violation |
| `TypedRun` | declarations of numbers, of text, of objects, and the members of three classes in 125 arrangements | - | 27 thousand |
| `FileRun` | every sequence of file statements on two names, four variables, two records | - | 154 thousand |
| `ReopenFails` | the same, one record | - | to the violation |

`MaxInstructions` is 4, so both the end of the program and "infinite loop
detected" are reached (the first program takes five instructions, the last of which is not
counted, and one that restarts a frame more); `MaxStack` is
2 in the first run, so that a step can go into, over and out of a call and a
frame below the top can be restarted, and 1 in the others, so that the call
behind the loop overflows the stack. Deadlock
is not checked: a session that ended, or waits for a client that does not call,
stops.

The program of the DAP runs has three instructions, so that a stop on entry differs
from a breakpoint, and the first instruction of a line from another; the client
sets breakpoints on a line and an instruction that do not exist, too, and takes them
back. It hangs up in the other two runs: nothing that the first run checks begins
there. Four
requests are a launch, a start, and two more, such as breakpoints and a restart; a
queue of two messages is full after a single handler or a single run's end. The
liveness run has three requests and a queue of one.

A connection that holds one line is full with the first, while a second is in the
acceptor's hand and a third waits. Two files show a rename onto another; two
handles are two readers, or a reader and a writer, of one file, and three variables
of them a copy; two records are one that was read and one that was not.

The functions of `FunctionRun` have one local and the variable of a For. They
are: each loop and each choice, with each kind of condition, an empty block or one
statement in it, and possibly one before and one behind; choices between three ways; and each loop and
choice directly inside each other. A statement that ends a block, one that
follows it, one that jumps over it and one that jumps back are what the code of a
statement and the analyses can confuse, and two levels of nesting, `Depth` = 3, show all of
them. Deadlock is not checked, as functions end.

The classes of `TypedRun` are a chain of three, so that a member is inherited
directly and over a class between. Each has one of six bodies, of methods and fields in
different orders, which override, hide, or add; of the 216 arrangements the ones that override
wrongly, or by value what is passed by reference, are rejected. With members there are two variables; without, there are a
variable, an array, a reference and a result of each group of types that
convert into each other. Deadlock cannot occur: some statement is always possible.

Safety, in run `DebugSession`:

* `TypeOK`, `IInv`: types, and the inductive invariant of the proofs.
* `NoStaleYield`: a request to yield does not outlive the call that made it.
* `CommandHandshake`: a closure runs only while its caller waits for it, and none
  is offered on the closed channel.
* `ExitCodeTellsException`: an exception that ends the program is exit code 1.
* `DoneAfterExited`: `Wait()` returns after the client heard of the end.
* `HaltNearlyQuiet`: at most one event passes a `Halt()`.
* `ParkedIsTold`: the client knows of a parked VM. This is the property that
  the test of `runState` in `inputAdapter` is there for.
* `ExitIsFinal`: nothing is told after the end.
* `NoStopMissed`: no breakpoint, and no end of a step, is run past, but by the
  first instruction after a command.
* `ExceptionHolds`: nothing but restarting a frame gets past an exception; the
  client of this run continues and restarts frames, also during input. The library
  call, which may fail once and not again, is there for it.

Liveness, in run `DebugSessionLive`, under `FairSpec`:

* `TerminateEnds`: a terminated session ends.
* `CallsReturn`: a call on a session that plays returns, even if `play()` ends
  first; but for the evaluation of an expression that reads input.

And, in the same run, `ImplementsRun`, the refinement.

Safety, in run `DapSession`:

* `DapInv`: types, the bound of the queue, and the rest of the inductive invariant of
  the proofs.
* `StopIsSeen`: once the messages have arrived, a stopped program is shown as
  stopped: the answer to `continue` is queued before the program resumes.
* `AnsweredOnce`: a request is answered once, on every way through its handler.
* `BreakpointsInForce`: when a request is handled, the VM stops where the
  lines begin on which the client set breakpoints, before or after launch, start or
  restart, and nowhere else but on entry; and at the instructions it set them on.
* `OneVm`: the handler lets go of a session only when its VM has ended and sent
  what it had to send.

Liveness, in run `DapSessionLive`, under `FairDapSpec`:

* `RequestsHandled`: the handler comes back from every request, restart's wait
  for the old VM included; but for an evaluation that reads input, and while a line
  waits for a terminal that has not connected or does not read.
* `HangUpEnds`: after the connection broke, `Run()` returns and the VM ends, also a
  VM that writes to such a terminal; but not when the handler itself waits
  for it, or calls or waits for that VM.

In run `Terminal`, with a peer that may be killed or stall at any time:

* `TerminalInv`: types, no second connection, and the rest of the inductive invariant of
  the proofs.
* `LinesInOrder`: what is written is shown, and what is typed is read, in its
  order; nothing is lost while the terminal is open and its peer alive, and at the
  close no more than the line in the acceptor's hand.
* `ImplementsLink`: the refinement of `TerminalLink`, its fairness included: `Write()`
  returns when a line can be taken, and after `Close()` always.
* `CloseEnds`: after `Close()` both goroutines end and the peer goes, unless it
  does not read.

Safety, in run `FunctionRun`, whichever way the conditions come out:

* `TypeOK`: the program counter stays in the function, and the locals are those
  it declares.
* `StackSafe`: each instruction finds on the stack what it takes, and a Return
  one value, also from inside a Select or a For.
* `FollowsSource`: the code does what the source says, in its order, and no more
  or less.
* `FlowTellsExits`: a function whose body halts is not left at its end, and one whose
  body continues is not left by a Return.
* `UnreachableIsDead`: code reported as unreachable is not reached.
* `InfiniteIsEndless`: a loop reported as infinite is not left.
* `EarlyReadFails`: a read that is reported, if it is reached without going round a loop,
  finds no value: the report is justified.

`FlowTellsExits` and `UnreachableIsDead` exempt a While whose condition is not constant and whose
block halts, where the code is wrong: this is the run `FunctionsReturn`.

Safety, in run `TypedRun`, of programs with none of the constructs that `Lax` names
(section 2, which says what fails with them):

* `TypeOK`: a reference refers to a place, never to another reference.
* `WellTyped`: each place holds a value of its own type, and a reference refers to a
  place of exactly its type, although the statement that assigns through it knows the parameter only.
* `NoAssertionFails`: no type assertion of an instruction fails, no library
  function is called with another type than it takes, and no reference is made into a string.
* `DispatchesToNearest`: whichever superclass an expression shows, a call reaches
  the nearest method of the object's class, with the parameter and the result it expects, and an access the field that was declared.

Safety, in run `FileRun`:

* `FileInv`, the inductive invariant of section 4: types, a file has the lines of its records,
  what is before a reader, in its buffer or on the disk, is the lines of the records that
  it has not read, and a writer stands at the end of its file and is the only one.
* `ReadsBack`: a Read that succeeds has read one whole record, and the values that
  were written in it where the types agree.
* `AtRecord`: a reader stands at the start of the first record that was not read
  through it, whichever copy of the variable reads, whatever it has read ahead, and
  although the file grows, loses its name or gets another.
* `EofIsTheEnd`: `eof()` is true behind the last record, and nowhere else.

Fairness: in `DebugSession` both goroutines are scheduled (weak fairness of what each does without
being asked). The selects of `play()` and `inputAdapter()` choose among the
ready cases at random, so a caller or a closed channel that is ready again and
again is eventually chosen although lines of input keep coming (strong
fairness of `ReceiveCmd` and `ExitRequested`). Nobody has to call, to type, or to
close the terminal.

`FairDapSpec` lets each goroutine run on and the client read. Of the VM it
assumes that a call is served and that a terminated run leaves `play()`, although it may
report other things all the time (strong fairness of `Serve` and `Leave`): this
is what `CallsReturn` and `TerminateEnds` show of `DebugSession`. Of the terminal it
assumes that a line is taken if one can be, which is `ImplementsLink`; nobody has
to run a terminal, nor to read it.

In `Terminal` both goroutines run on, a `Write()` that `Done` releases returns,
`Close()` comes to its end, and a peer that is not stalled shows what arrives and
leaves at the end of it. It need not dial, type, or end its input: the drain's
deadline, which may pass at any time, is part of the scanner.

Four runs end in a violation, each a disagreement of the code with a text of the
repository: the stop on entry, promised in `vscode-gaddis/package.json:190`, is
lost when `configurationDone` sets the line breakpoints; the send queue is closed
while a VM may send on it, which the comment at `dap/session.go:31` says it is
not; a function that returns only inside a While is accepted, and ends without a value when
the loop runs no round, where `controlflow.go:9` says that a missing return statement is
found (`PostVisitForStmt` does count with no round); and a file that was closed and
is opened again is said to be open (`lib/io.go:106`), because Close sets a copy of
the variable to nil (`lib/io.go:162`).

Two disagreements are met on the way and have no run. `Play()` panics when a launch
without debugging is followed by `configurationDone`: `DoPlayAgain` is an action of
`DapSession`, and the connection ends as if the client had hung up. Without
debugging a program still stops at the breakpoints it was launched with, as
`checkBreakpoints` does not ask, and cannot be continued, as the handler refuses:
`DebugRun` calls it `Stuck`.

## 4. Proofs

The theorems hold for every value of the constants: every program, client, queue,
connection, set of breakpoints, classes or declarations. Most of the properties in section 3
are not inductive. For each component there is an invariant that is, in named parts, which
the proofs show to be kept part by part, with a lemma for each part and in it a step for each
action. A run checks it as well, or its parts for types, and for functions what follows from
it. What is assumed is named with each component.

### A debug session

Assumed: `ProgramAssumption` (the code ends with an instruction that leaves its
function, as `Assemble` generates it) and `BoundsAssumption`.

`DebugSessionProofs`: `SessionInv` says where each goroutine can be, seen from the other.

* `Invariance`: `Spec => []SessionInv`;
* `TypeCorrect`, `YieldIsWithdrawn`, `ClosuresAreAwaited`: `TypeOK`,
  `NoStaleYield` and `CommandHandshake` hold always;
* `ExceptionIsFinal`: `Spec => ExceptionHolds`.

`NoStaleYield` needs to know
that the flag is set only by a call in progress, that a closure that has begun has
cleared it, and that nobody sets it meanwhile: `Terminate` is a call of the same
goroutine (`CallInv`). That goes through an evaluation that waits for input,
during which its caller still waits; so the invariant has to know who is in
`inputAdapter()` (`InputInv`). `TypeOK` needs that the program counter stays in
the code, hence that a return address belongs to a call (`StackInv`), and that
the instruction an accepted line completes is an Input instruction that did not
fail (`InputInv` again).

`DebugReportProofs`: `IInv` adds what the VM has still to tell, and what it has told.

* `FullInvariance`: `Spec => []IInv`;
* `ParkIsTold`, `HaltSilences`, `DoneIsTold`, `ExitCodeIsTrue`: `ParkedIsTold`,
  `HaltNearlyQuiet`, `DoneAfterExited` and `ExitCodeTellsException` hold always;
* `StopsAreKept`, `ExitIsToldLast`: `Spec => NoStopMissed`, `Spec => ExitIsFinal`.

Here `ParkInv` is the center: the VM pauses only when it has queued a stop, and nothing
takes the pause back but a request to continue. It needs what a sequence of
events can be at each place of `play()` (`EndInv`), what the closure that has just run
did (`CommandInv`), and that without debugging there are no closures (`NoDebugInv`).
`NoStopMissed` needs that what `checkBreakpoints` looked at changes only through a
closure (`StopInv`).

The last part of `DebugReportProofs`: `SessionImplementsRun`, `Spec => ImplementsRun`. Each action of
`DebugSession` is, under the mapping of section 2, an action of `DebugRun` or invisible.
`IInv` says which: what the VM reports there, and where the call of its caller is. What is
proved of `DapSession` below is proved of the sessions of the code by this step.

### The terminal

Assumed: `TerminalAssumption` (the sizes are numbers, the connection holds a line).

`TerminalProofs`:

* `TerminalInvariance`: `Spec => []TerminalInv`;
* `LinesKeepTheirOrder`: `Spec => []LinesInOrder`;
* `TerminalIsALink`: each step of a terminal is one of `TerminalLink`, or a stutter. The
  fairness of `TerminalLink` is the part of `ImplementsLink` that only TLC checks.

A line is in `Write()`, in the acceptor's hand, on the connection, or shown.
`OrderInv` puts these places in one row, `LossInv` counts what is in it. That nothing is
missing needs to know when a connection can be half closed, or its peer gone
(`StageInv`); that nothing typed is missing, that the scanner reads on only with an empty
hand (`HandsInv`).

### The DAP session

Assumed: `DapAssumption` (the queue holds a message, the client's requests have the
shape of the protocol), `CodeAssumption` (each instruction has a line) and
`BreakSetsAssumption` (a session's breakpoints are on its instructions).

First in `DapSessionProofs`: `BreakpointsAreExact`. The tables that `NewBreakpoints` makes give the
lines that have instructions, and the first instruction of each; so the breakpoints
computed from a set of such lines are where these lines begin. The loops of the code are recursive
functions of the number of instructions looked at. Induction is beyond the
provers where it takes an operator; in `Loops` it is by the least number at which a
statement fails (`Least`, `UpFromZero`), and such a function has its values by
`LoopHasValues`.

Then, of the session:

* `DapInvariance`: `DapSpec => []DapInv`;
* `StopIsSeenAlways`, `BreakpointsHold`: `StopIsSeen` and `BreakpointsInForce` hold always;
* `AnsweredOnceAlways`: so does `AnsweredOnce`, for a client that sends no launch in test
  mode without the file of the expected output (`Untested`), which the code
  answers twice: it is a hypothesis of the property as much as of the proof;
* `OneVmAtATime`: `DapSpec => OneVm`.

The handlers are sequences put together from sequences. The first half of this part
shows of each what order its statements come in, and how often they answer: a
`Fragment` says what may come before it and what it ends with, and two fragments
in turn make one (`InTurn`). So each handler is a short proof that follows its
text, and the requests, of which there are as many as sets of breakpoints, are
covered by one lemma for each kind of request (`HandlersAre`).

The parts of `DapInv` are kept by each of three things: a statement taken off the
handler, a new request, and the steps of the other goroutines.
`VmInv` is about the run alone. `TodoInv` is the order of the statements: a session is let go only
after it was waited for, and an answer that says that the program runs comes before it is
started or continued. `BreakInv`: the VM has the client's breakpoints, or the call that
brings them is on its way. `StopInv`: the stop is the last that the client hears of a stopped
program, over what the VM has to tell, the queue, and the view, or the program is
about to be continued. `AnswerInv`: there is exactly one answer, given or to come.

The proofs found definitions whose cases overlapped, of which TLC takes the first and
logic any: the state of a call in `DebugSession` and of the terminal in
`link`, the two ways to start a program, `setBreakpoints` with and without a program, what
the client shows. Each of them now names the condition that tells its cases apart.

### The code of a function

Assumed: `DepthAssumption` (statements are nested up to some depth, any number),
`TempsAssumption` (no local has the name of a temporary of a For Each), and
`FunctionsAssumption` (a function's body is a sequence of `Statements`).

`FunctionRunProofs`, for every function of any size and depth, and every way its
conditions come out:

* `IInvInvariance`: `Spec => []IInv`, the inductive invariant;
* `CodeFollowsSource`: `FollowsSource` holds always: what `asmgen.go` makes of the statements is
  correct;
* `TypeInvariance`, `StackSafety`: so do `TypeOK` and `StackSafe`;
* `FlowToldExits`, `UnreachableIsNotReached`, `InfiniteIsNotLeft`, `EarlyReadsFail`: so do
  `FlowTellsExits`, `UnreachableIsDead`, `InfiniteIsEndless` and `EarlyReadFails`, what the
  analyses claim.

1. What holds of a statement when it holds of the statements directly inside it holds of all
   (`FromInside`): an induction over the depth, where "it holds" is membership of a set, as a
   theorem with an operator parameter could not be used. The four recursive functions over the
   statements are shown to be what they are written as (`RecursionIs`, `ValuesAre`, then
   `FlowIs`, `WritesAre`, `WhileHaltsIs`, `StmtCodeIs`); the code of a block is the code of its
   statements, one after the other (`BlockCodeIs`), and that of a choice the code of its cases
   (`CasesCodeIs`).
2. `Placed(fun, at, c)`: the code `c` stands in the function at `at`; its parts stand there
   too, each at its place (`PlacedParts`).
3. A `Point` is where the machine and the source are: program counter, stack, locals, `todo`,
   and what was reported. A point is good if the instruction there finds what it takes, does
   what `todo` says comes next, and leaves the function only as the analyses said. `Leads(fun, A,
   X)`: every run from a point of `A` is good until it comes to a point of `X`, if it ever does.
   Runs follow one another (`LeadsThrough`), and a run that comes back to where it
   started goes round until it leaves (`LeadsLoop`): no counter of rounds is needed, as
   nothing is claimed of whether the loop ends. Each instruction has a lemma that says where it
   leads (`PushStep` to `EndStep`), and so has unfolding (`UnfoldStep`).
4. `RunsWell(fun, s)`: wherever the code of `s` is placed, and whatever is to be done
   after it, the machine gets from before the code with `s` to do, to behind the code with the
   rest to do, with nothing on the stack here and there; and it does not get there at all, if
   the analysis says that `s` halts and no While is trusted to run a round. It is proved for each kind of statement if it holds of the statements inside (`SimpleRuns`,
   `WhileRuns`, `DoRuns`, `ForRuns`, `ForEachRuns`, `IfRuns`, `SelectRuns`), so for all of them
   (`AllRun`), and for a whole function (`FunctionRuns`).
5. `IInv` says that a running machine is at one of `PointsOf(fn)`, some set of points that has
   the first, and with each point all that follow it. Such a set exists by `FunctionRuns`, and
   each action keeps `IInv` because it is a move of the point (`IInvKept`). The properties
   follow from the point being good (`InvType` to `InvFlow`).

`lo` and `hi` in the sets of points are the locals that have been assigned on every way there, and those
that the visitor has seen written. The first is why a For finds its variable assigned at each
test; the second why, as long as no jump has gone back, a local that is not in it has no
value, which is what a reported read needs.

`PointsOf` chooses a set that nobody could list, so TLC cannot evaluate `IInv`; it checks the
properties that the proof derives from it. The proof changed the model in form:
`RECURSIVE` operators became recursive functions over `Statements`; the source is unfolded step
by step, where it was one nested record before; and two definitions whose cases overlapped
(`Alternatives`, `BlockFlow`), of which TLC takes the first, now say which case is meant.

### The types of values

Assumed: `ClassAssumption` (there are finitely many classes, and no class is its own
ancestor), `ValueAssumption` (no class has the name of a Go type), and
`ProgramAssumption` (a class declares a name once, and only parameters are references).

`TypedRunProofs` proves dispatch and type safety for every hierarchy of classes and every
set of declarations:

* `CallsDispatch`: `Spec => []DispatchesToNearest`, if `Lax` does not have `"override"`;
* `ShapesAreKept`: `Spec => []TypeOK`, for every `Lax`;
* `TypedInvariance`, `PlacesKeepTypes`, `TypesAreSound`: the inductive invariant
  `TypedInv`, and with it `WellTyped` and `NoAssertionFails`, hold always, if `Lax` is empty.

Both hypotheses exclude programs that the type checker accepts: the first those with an
override that takes by value what it overrides takes by reference, or the other way around; the
second these and those with another construct of `Lax`. Of such programs the theorems say
nothing, and the properties do not hold.

Dispatch is about what `SuperCheck` computes. That it computes anything has to be
proved first: a recursive function is, to the logic, some function that satisfies an equation,
if there is one. There is one for the loop over the members (`MembersAreAdded`), and
one for the recursion over the superclasses (`TablesAre`), as a class has more ancestors than its superclass:
`Inherited` makes an induction of that, on which all of the following rest. `Made` is the
invariant of the loop: the table has, place by place, a declaration like the superclass's;
a name has one place; at each place there is what the superclass has there or a member
of the class, and every member so far has a place (`MemberAdded`, `MembersMake`). Over
the superclasses it follows that a place means the same in all subclasses (`PlacesAreKept`)
and holds the nearest method of its name (`MethodsAreNearest`). What a name shows is a
member of one of the ancestors (`VisibleIsMember`, by `OneIsNearest`); its place is
found there, and in the table of the object's class holds the nearest (`TablesDispatch`).

Type safety: coercion is transitive
(`CoerceTransitive`) and the common type of two operands is one that both can be cast to
(`CommonType`); a cast leaves what its place can hold (`CastFits`); so every
operand has a value of its type (`OperandsAreTyped`) and every place is of
its cell's type (`PlacesAreTyped`), and each statement keeps both. The invariant is
`WellTyped` with the shape of `mem` and the tables' correctness.

### Files

Assumed: `FileAssumption` (records and shapes are sequences of values and of types, and
not empty; a variable that is read is not one that is written).

`FileIoProofs`, for any number of names, variables, handles, files and records:

* `FilesInvariant`: `Spec => []FileInv`;
* `ReadersReadBack`, `ReadersAtRecord`, `EofTellsTheEnd`: `ReadsBack`, `AtRecord` and
  `EofIsTheEnd` hold always.

`Follows` is the center: what a handle's reader has in its buffer, with what is on the disk behind
the handle's position, is the lines of the records that were not read through it. A
record that is written goes to the end of both sides (`WriteFollows`), which
needs the writer to be at the end (`WritersApart`); reading ahead moves the border between
buffer and disk only (`PeekFollows`); a `Read` that succeeds has taken exactly one
line (`ReadFollows`). The last is the induction over the fields of the statement (`Took`,
`ReadRecordIs`): each field must end with the separator the statement expects, so the
statement's last field can only be the record's last. Above it, the statements keep
`Fine`, which is about any directory, files, handles and variables, and `Settle` forgets
nothing that they still refer to (`SettleKeeps`).

### Only model-checked

* Liveness, which needs fairness and ENABLED, out of the provers' reach:
  `TerminateEnds`, `CallsReturn`, `RequestsHandled`, `HangUpEnds`, `CloseEnds`, and
  the fairness of `TerminalLink` in `ImplementsLink`.

All other properties of the runs that pass are proved.

## 5. Plan

In this order; each module with its instance, properties and hazards.

1. `EventHost`, `DebugSession` and their proofs. Done.
2. `DebugRun`, which `DebugSession` implements, and `DapSession` on top of it, with
   the terminal and the tables of breakpoints. Done, but for test mode's comparison.
3. `Terminal` and `TerminalLink`. Done.
4. `ControlFlow`, `AsmGen`, `FunctionRun` and their proof. Done for functions.
5. `Types`, `ClassTables`, `TypedRun` and their proof. Done, but for constructors and
   arrays as values.
6. `FileIo` and its proof. Done.
7. `Execution`: the VM's frames, references and evaluation on a copy of the stack, and
   the variables of a stopped program, which are references into it.

## 6. Not modelled

* The variables of a stopped program (`dap/variables.go`) and the evaluation of an
  expression on a copy of the stack (`debug/eval.go`): both need the values and
  references of several frames, which `FunctionRun` does not have.
* Test mode: the comparison of the output with the expected one, after the run has ended.
* A source that is edited while it is debugged: its lines have breakpoints of their own
  (`bpsBySum`), but instruction breakpoints are handed to the next version as they are.
* The global block, the layout of a program, numbers at their width, formatting.
* The lexer and the parser: sequential, over characters and tokens, and tested in
  the repository.
* The hierarchies of classes that `collect.go` does not survive: there is no program to
  run.
* The Go generator, a printer whose meaning is that of the Go compiler; the command
  line; the editor extension, whose requests are the client of `DapSession`.
