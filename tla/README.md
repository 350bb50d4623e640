# spctr in TLA+

spctr is a small functional language with two back ends: a tree-walking
interpreter with lazy bindings, and a Cranelift JIT with strict ones. This
directory holds TLA+ modules for the parts of `src/` in which order, sharing,
failure or a limited resource decide what a program prints, the TLC runs that
check them, and TLAPS proofs. Paths below are relative to the repository root
(`src/src/...` is the Rust source).

## The system

| Component | State | Operations | Talks to | Hard behaviour |
|---|---|---|---|---|
| lexer `lexer.rs` | position, tokens, the activations of `lex_top` and `lex_string` | scan one token or one string fragment | parser | strings inside `${ }` inside strings; byte positions in UTF-8 |
| parser `parser.rs` | none | grammar | lexer, `ast.rs` | alternatives that begin alike |
| resolver `resolver.rs` | scope stack | name to `(depth, slot)` | writes each `VarRef` once | last of two equal names wins |
| type checker `typeck.rs`, `types.rs` | substitution, environments, recorded types | infer, unify, generalize | fills the node types the JIT reads | occurs check and generalization through the substitution |
| evaluator `interp.rs` | frames of cells (`Rc<RefCell<BindState>>`), Rust stack | `interpret`, `force`, `call_value`, `Display` | stdlib callbacks, `import` | re-entrancy of `force`, errors through it, tail calls, cycles |
| import `stdlib/imports.rs` | thread-local `CURRENT_DIR` | `import(path)` | parser, resolver, `run_eager` | directory restored on every path; lazy code runs after it is restored |
| List `stdlib/list.rs` | none | ten functions | `call_value` | callbacks that fail or call back |
| String, Number `stdlib/` | none | pure functions | | Unicode and floating point |
| JIT `jit.rs` | instances, captures, emitted code, unmanaged heap | monomorphize, `define_main`, `compile_block_bindings`, expressions | type checker's node types | order of evaluation against captures; counting scopes three ways; one instance per type |
| driver, REPL `main.rs` | thread with an 8 MiB stack; accumulated definitions | run a file, run a line | everything | lines that failed are kept; redefinition |

### What makes each part correct

* **Lexer and parser.** The tokens cover the text; strings and interpolations
  nest; a tree that is printed reads as itself, whatever the layout.
* **Evaluator.** A binding is evaluated at most once and its value shared; this
  changes no result with respect to evaluating it afresh at each use. A binding
  that reaches itself is reported, not recursed into. A failed evaluation leaves
  the binding usable. Tail calls use no stack.
* **Import.** A relative path is resolved against the file that is being imported,
  and nothing an import does, failing included, is seen by imports that follow.
* **REPL.** A line means what it would mean in a file with the lines before it.
* **Type checker.** Unification gives a finite type; what was unified stays equal;
  generalized variables are free in the type and not in the environment; a value
  has the type of its program.
* **JIT.** The instances compiled are those the program needs, each with its own
  types. Accepted code reads no memory that was not stored; a program is refused
  only if the source order is really not a legal order of evaluation; a closure
  that leaves its scope is complete; a variable reaches the binding the resolver
  chose.

## The modules

    Lexer                   texts to tokens          Lexer_proofs
    Parser                  tokens to trees
      Reader                the two together         MCReader
    Values, Syntax          values and their pure operations; resolved syntax
    Resolver                names to coordinates
      Interp                the evaluator, List callbacks, import, Display
      Repl                  the driver: a file, or a session of lines
        Interp_proofs       both: stack, bindings, directories and heap
      CallByName            reference: what a program means, with no cells
    LazyBindings            abstract: the protocol of force
      LazyBindings_proofs
    MCInterp                programs and sessions; Repl against CallByName
    Types                   types, substitutions, schemes of the root scope
    Typed                   what the checker hands to the JIT
      TypeCheck             inference
      Worklist              the queue of instances     Worklist_proofs
      JitInstances          the queue of a program, and the literals with their captures
      JitGen                the code of every function and of main
      JitRun                the machine that runs it
      MCTypes               programs for all four; values against CallByName
    JitCode                 emitted code and its execution
      JitCode_proofs        what the execution of any code does to memory
      JitBlock              compile_block_bindings   JitBlock_proofs   MCJitBlock
      JitTop                define_main              JitTop_proofs     MCJitTop
    JitScope                the JIT's scope coordinates
      JitScope_proofs       what is called directly, what is a module, and what
                            a variable reads
      MCJitScope

### Interp (`interp.rs`, `stdlib/list.rs`, `stdlib/imports.rs`)

The evaluator is recursive Rust. The model makes its stack explicit: `ctl` is
what the innermost activation is doing and `kont` has one entry for each
activation below it, tagged by the place in the source that made the call (`If`,
`Operand`, `Logical`, `Right`, `Force`, `Each`, `Import`, `Eager`, `Field`,
`Item`). A `?` is `UnwindOther`, which pops one entry; `UnwindForce`,
`UnwindImport` and `CatchField` are the three places where the code does more
than return early. `frames` is the heap of `Frame`s; an `Env` is an index into
it, and a cell is `Lazy` with its expression, `InProgress`, or `Done` with its
value. `ApplyNative` replaces `ctl` and pushes nothing: that is the loop in
`interpret`. `lists` numbers the lists that have been made: a list carries its number
(`rc`), as in the code it is behind an `Rc`, because `value_eq` looks at it
(`OneList`): two uses of one list are equal whatever it holds, while two lists are
equal only if their items are, and functions and records never are. `dir` is
`CURRENT_DIR`. The file system, with the parser and
resolver behind it, is two constant tables: `Locate` (directory and path to
file) and `Files` (file to resolved statement); what is not in them cannot be
read or does not parse.

The stack has room for `StackLimit` activations; beyond that `Overflow` ends the
process, as the guard page does. `MaxFrames` and `MaxCells` are bounds of the
model only: `CutOff` stops a run that has built more frames, or a frame with more
cells, and every property holds of the run up to there. `IsCell` guards every
`force`: the code would panic at a depth or slot that is out of range. That a
variable that is evaluated never meets this guard is `InScope`, part of `TypeOK`.

`ResolvedIn(J, statements)` says what the evaluator relies on without looking: `J`
holds every expression of the statements together with the scopes it is in (the set
of slots of each, innermost first), a variable's coordinates are in those scopes,
operators have as many operands as the grammar gives them, and a literal is a
scalar. Resolver and parser see to it; TLC checks it of all programs, files and
combinations of lines (`MCInterp!ExpressionsAssumption`), and the theorems about
`TypeOK` assume it of their constants.

### Resolver and Repl (`resolver.rs`, `main.rs`)

`Resolver` turns surface syntax with names into `Syntax`: a scope maps a name to
its last slot, `Lookup` counts the scopes passed. `Repl` is `Interp` with lines; the
resolver is its constant `Resolved`, an operator of definitions and body, which the
configurations set to `ResolveStatement`: `Resolver` is recursive, and so is kept out
of the modules that are proved about. `session` is all that the user types, `lines`
what is still to come, `accumulated` the definitions of the lines before. `EvaluateLine` resolves these and the new ones together, as the
code does for every line, and starts the evaluator; `KeepDefinitions` follows the
result and the diagnostic alike; `RefuseLine` leaves everything as it was. The
frames of earlier lines, and the directory, stay in the model as they do in the
thread.

### LazyBindings and CallByName: two abstract specifications

`LazyBindings` keeps of the evaluator the state of each cell, the stack of
`force` calls in progress and whether an `Err` is propagating.
`Interp!ImplementsLazyBindings` instantiates it with a refinement mapping and is
checked as a property: whatever path an `Err` or a callback takes, the evaluator
treats its bindings as `LazyBindings` says. The mapping takes the cells within the
bounds with their state (`CellState`; one that does not exist yet is absent), the cells of the `Force` entries of `kont` in their order there
(`ForcingIn`: the entry of rank `n` among them is the force number `n`), and says
that an `Err` is propagating from the moment it is returned.

`CallByName` is a definitional interpreter: a variable is evaluated afresh at
each use, environments are chains of scopes, an import is resolved where it is
written, and there are no cells, no stack and no current directory. It uses
recursive operators and a budget, so it is used by TLC only. It compares positions
in lists as they are, where the code converts them (`n as usize`), and has no list
identities: its parameter `Shares` says whether lists that are alike in everything
are taken to be one list, equal to itself even if it holds functions or records, or
different ones. `Interp` must print
what `CallByName!Meaning` says; the type checker must give a program the type of
what it says.

### Lexer, Parser, Reader (`lexer.rs`, `parser.rs`)

A text is a sequence of bytes: a few letters and digits stand for all, a keyword
is a byte of its own, and a character of two bytes is `Wide` followed by `Cont`.
`stack` holds the activations of the two functions that call each other, the one
that runs last: one of `lex_top` for the file and for each open `${ }`, one of `lex_string` for each
open string, which keeps the literal so far and the tokens put aside (`saved`,
`lexer.rs:377`). A pair of characters that is one token is in `Pairs`, with the
token's name. One action is one round of a loop; `Boundary` says where Rust may
slice, and `SliceInsideACharacter` is the panic.

`Parser` is the grammar as operators on token positions: a parser returns a node
and the next position, or `NoParse`; alternatives are tried in the order of the
source, and an alternative that fails costs nothing. `Reader` runs it after the
lexer when there was no error.

### Types, TypeCheck, Worklist, JitInstances (`types.rs`, `typeck.rs`, `jit.rs`)

The inferer is a record that every operation takes and returns: the next
variable, the substitution, the recorded types by path, whether there was a
warning. A definition of the statement is one action, an expression is inferred
by an operator, in the order of the code. Environments and substitution are as in
the code: `OuterVars` takes the variables of the environment as they are written
there and not as the substitution reads them, since `outer_vars_excluding` does.
The ghost field `early` collects the variables that were generalized although the
environment depends on them through the substitution. `Apply` follows at most
`MaxChain` bound variables inside each other and then answers `Endless`, where the
code would not come back.

`JitInstances` continues with pass 1 of `compile_program`, in two modules. `Worklist`
is the queue: it registers values, seeds the queue in any order (the code iterates
over a `HashMap`), takes pairs of a slot and a type from it, and queues what their
bodies use and was not queued before. Which slots are functions, what types they
have and which pairs a walk of an expression meets are its parameters, because the
walks and types are recursive and the queue is to be proved about; the configurations
set them to `UsesInInstance` and the like. `JitInstances` defines those, and each of
its actions is one of `Worklist`'s with what it leaves out: the refusals, and the
function literals, declared by their own type with the substitution of the instance
they were met in and the captures `collect_captures` finds. Types are keys, as their
printed form is in the code.

### JitGen, JitRun (`jit.rs`)

`JitGen` continues with pass 2. `CompileFunctions` generates the code of the
declared functions, `DefineMain` is `define_main`; an expression is compiled by
operators, in the order of the code, that return an instruction with its operands
(`kids`), its constant (`x`) and the Cranelift type of its result (`ty`: `f64`,
`i8`, `i64`). An environment has what `FnEnv` has: the function or
main, its parameters and captures, the block frames, the allocator. Where the code
returns an error or panics the result is `Refused` with the place. `Store`,
`Populate` and the pending list of blocks are those of the source, so this is
`JitBlock` and `JitTop` again, for real programs, with instances, nested blocks
and captures of enclosing scopes; `JitBlock` and `JitTop` have every order of
definitions and every order of use.

`JitRun` executes the instructions on words: a number, a byte, or an address. What
a word is, is known only at compile time, as in the machine; so where the native
program would go on with whatever it finds, the model stops and says how:
`garbage` for a cell or a variable that was not written (Cranelift promises nothing
for a variable that is used before it is defined) or a word of another kind,
`bounds`, `trap` for a negative number made unsigned, `overflow` at `MaxDepth`
calls. Whatever it does before that is what the machine does. `RunMain` is one
step: the compiled program is deterministic and has no state outside itself.

### JitCode, JitBlock, JitTop (`jit.rs`)

The JIT is strict and must put the definitions of a scope in an order. A scope
is reduced to what decides the order: which definitions are function literals,
and which siblings each refers to. `JitCode` has the three kinds of instruction
the definitions of a scope become (allocate closures, store captures, evaluate a
value) and executes them: an evaluation uses its references in any order, and may
call, to any depth up to `MaxCalls`, whatever function it has got at: one it has read
itself, one it was given or that a call returned, or one inside an earlier value.
`hand` is the set of these functions. It is kept for an evaluation as a whole, since
arguments and results can carry any of them to any activation, and any of them may
be in the value that is stored in the end (`StoreResult`). A function reads siblings
in the capture cells of its own closure, a value reads the slot. The allocator does not clear memory
(`jit.rs:36-59`), so reading a cell before it is stored sets `garbage`.

`JitBlock` is `compile_block_bindings` with `populate_caps_until_stable` inside
`Emit`: `pending` and `populated` are the variables of these names in the code.
`JitTop` is `define_main`: `defined` are the Cranelift variables that have a
definition. In both the compiler and the compiled code are one behaviour: phases
first, then `RunCode`. Captures of enclosing scopes are complete before the scope
starts and are left out.

### JitScope (`jit.rs`, `resolver.rs`)

A variable is a depth and a slot. The resolver counts every scope;
`collect_uses_in` and `collect_captures` count functions and blocks as they
descend; `discover` counts functions only (`nesting`); code generation counts the
block frames of the innermost function. An `ImmediateBlock` without definitions
is a scope to the first two and none to the others (`jit.rs:2212`).

`JitScope` follows one path of scopes from the top level down. Each scope on it
carries the environment its code is generated in: `frames` are `block_frames`,
`base` is the innermost function (1 is `EnvKind::Main`), `nesting` is `discover`'s.
`Refer` lets a variable occur at the current end of the path, with the position of
its binding, and runs the two collecting passes on it (`uses`, `caps`).
`EnterInterpolation` starts an embedded `${ }`, into which no pass looks.
`EndWalk` chooses the instances of the top-level bindings and
`CompileReference` generates code for the variables in the order they were met.
`load` is `load_variable`, continued through the closures that were built with its
captures (`materialize_closure`); it is a recursive function on the position, the
depth, the slot and the type, whose step is `Find`. `Load` returns the position of the scope whose
binding the code finally reads, which must be the one the variable was given.
Two variables whose scopes are not nested in each other share no capture, so one
path is enough, but for the order in which two functions side by side use a
binding of the top level. Types are reduced to a few function types, records and
modules; type variables, and so the substitution of an instance, are left out.

### Seeded faults

Operators whose comment begins "Seeded fault" are not used by the
specifications. Each is the definition after it with a plausible mistake, and
PROJECT.json names the property that fails when it takes that definition's
place.

## The runs

| Run | Instance | Question | Distinct states |
|---|---|---|---|
| `bindings` | 4 cells | the protocol of `force` itself: any nesting, any error | 786 |
| `programs` | 1,200 lazy, 648 functional, 156 list, 4 looping and 448 importing programs; 729 sessions of 3 lines | sharing, cycles, records, printing, errors, callbacks, tail calls, imports and REPL lines agree with call by name; `LazyBindings` is implemented; evaluation ends | 157,721 |
| `late_imports` | a file whose record imports | violated: see findings | |
| `types` | two definitions from 35 forms with 8 bodies; 14 functions that compute, 8 lists and records, 27 uses; 6 programs that hand on a generic function | what is inferred fits together and describes the value; which instances are compiled; what the compiled program displays | 84,254 |
| `type_literals` | the same | violated: see findings | |
| `reader` | texts of up to 3 of 14 pieces, alone and inside a string; escapes; 2,501 trees in 3 layouts; up to 3 of 15 lexemes; blocks of 2 or 3 of 6 items | what is lexed and parsed, and that it ends | 373,065 |
| `jit_block` | every block of 3 definitions | what is accepted, refused and read | 65,314 |
| `jit_block_garbage` | acyclic blocks of 4 definitions | violated: see findings | |
| `jit_top` | every top level of 3 definitions | the same for `define_main` | 148,692 |
| `jit_top_garbage` | ordered top levels of 3 definitions | violated: see findings | |
| `jit_scope` | paths of 4 scopes, 2 variables | which binding the code of a variable reads, what is called directly, what is a module, what is refused | 1,049,748 |
| `jit_scope_direct` | the same | violated: see findings | |

**Bounds.** Two definitions are enough for a binding to reach itself directly, or
through another, and for one use to come before, during or after the evaluation
of another; a body uses them twice, once through a field of a record so that the
error of one is swallowed by Display and the other is still printed. `StackLimit`
(14) is above what the programs without a cycle need and below the rounds of a
loop (15), so an activation kept by a tail call overflows; the files need three
directories and eight ways to name one, so that a directory that is not put back
finds another file. The budget of `CallByName` exceeds the longest chain of uses in a
terminating program. Three lines define, use and define again. The list programs
compare uses of one list, copies of it and lists that look like it, with an item that
has an equality or has none, in lists nested once (`value_eq` descends `MaxNesting`, 3,
levels at most), and take, drop and index at positions before, in and behind a list.

Two definitions give generic functions that call each other, at their own
parameter or at a list of it, and use each other at two types; `MaxInstances`
(8) is more than any of these programs needs unless it goes on for ever, and
`MaxChain` (12) more than the longest chain of variables. `FirstVar` only has to
be above the variables of the library's schemes. `MaxDepth` (6) is above what the
programs that terminate need: a recursive one counts down from 2. Indices and
counts are taken below, at and beyond both ends of the lists. Three pieces close, open and
extend a token at once, and inside an open interpolation they do so at the third
level of nesting; the trees have three levels, so every operator stands inside
every other on both sides.

Three definitions in a scope give a value, a function it calls and what that function
captures, in every order; `MaxCalls` lets every function of a scope be on the
stack at once. One more definition is needed to have a function behind a
function, hence 4 in `jit_block_garbage`. Four scopes hold the top level and any
three of function, block and bare block, so a block outside a function outside a
block; a second variable is needed for a second type of the same capture, or for a
capture that another variable hits by mistake. One slot is enough there: slots are
never computed with, and a wrong depth is seen only if the slot it lands on exists.
`MaxCells` is the size of the largest frame that is built (the List module's), so
that it cuts no run off.

**Fairness.** `Repl!MainSpec` has `WF_vars(Next)`, the evaluator's steps, and
`WF_line(KeepDefinitions)`: one thread does both, neither waits for anything, and
evaluation stops only by exiting or aborting. Typing a line has no fairness: the
user may stop. `Reader!ReadSpec` has `WF_lexVars(LexNext)` for the same reason.
The other specifications state no fairness and no liveness. Programs and compiled
code end, so those runs do not check for deadlock; `bindings` and `types` do.

**What the properties say.**

* `BusyIffForcing`, `EvaluatedOnce`: in progress means that exactly one `force` on
  the stack evaluates the cell; an evaluated cell stays so.
* `PrintsWhatTheProgramMeans`: the printed result is the call-by-name one. Which
  lists `==` takes for one list is part of it: the uses of a binding, a parameter or
  an item, and no others. `OneListPrograms` are the programs in which this decides;
  there `Shares` is true, in all others false.
* `LineMeansTheLatestDefinitions`: what a line prints is what a file would mean
  that holds only the last definition of each name, so a line that failed has left
  its definitions, and nothing behind in the evaluator. Which definitions these are
  is read off `session` and the resolver, not off `accumulated`.
* `EvaluationEnds`, `OverflowsOnlyInsideItself`: without calls of functions,
  evaluation always ends, and only printing a record that is part of itself, or
  importing a file while it is being imported, exhausts the stack.
* `TailLoopsEnd`: loops longer than the stack return their result. That a
  recursion that is not in tail position may exhaust the stack, and then kills the
  process (`main.rs:21`), is so in the model too (`Overflow`), and no property
  forbids it.
* `DirectoryOfInnermostImport`: `CURRENT_DIR` always belongs to the innermost
  import still running, also after failures that Display swallows.
* `SubstitutionEnds`: no variable is bound to a type it occurs in, also after
  unifications that failed half way.
* `RecordedTypesFitTogether`: without a warning, under the final substitution, the
  type of every expression fits those of its parts: what one unification made equal
  no later one takes apart. Records that give a name twice are excepted.
* `ValueHasTheProgramType`: without a warning the value is of the program's type,
  unless something is `Any`, a record repeats a name, or a variable was generalized
  early.
* `CompilesExactlyWhatIsUsed`: the instances are the least set closed under use,
  each once, in every order of the hash maps.
* `CompiledMeansTheProgram`: a compiled program that runs to its end has read
  nothing unwritten, nothing as what it is not, and displays what call by name
  displays; each exception (`Excused`) is one of the findings below.
* `StopsOnlyWhereEvaluationFails`: it reads outside a list, traps or exhausts the
  stack only where the interpreter reports an error, or where the interpreter
  clamps an index or a count and compiled code does not.
* `CodeExistsForWhatIsChecked`: the worklist ends, and nothing that the generator
  looks up is missing or of another type, unless a type was generalized early; the
  refusals that remain are listed.
* `TokensCoverTheText`, `StringsNest`: tokens are in order with only blanks and
  comments between them and behind the last, and nothing at all between them in a
  string; fragments, interpolations and brackets nest, and the brace that closes an
  interpolation is none that a bracket inside it opened.
* `OnlyAnEscapeIsCut`: the lexer slices inside a character only in a `\u` escape.
* `LexingEnds`: every text is lexed to its end.
* `ReadsAsItsTree`: a tree printed with as few parentheses as possible, with
  comments that look like strings between its tokens, reads as itself.
  `NoWordIsLost`: the words of an accepted text that are missing from its tree are
  those of the bodies of a block before its last one, and no others.
* `CompleteBeforeTheBody`: when the body of a scope starts, every capture holds
  what its slot holds.
* `RejectsOnlyForwardNeeds`: what is refused has a value that needs, through any
  chain of functions, a value that comes no earlier than itself.
* `NothingIsLeftPending`: phase 3 of a block has nothing to refuse.
* `GarbageOnlyBehindAnotherFunction`, `GarbageOnlyInCalledFunctions`: how far the two
  checks protect. In a block they protect a value's own reads and all functions it
  names, wherever these are called; not a function it has from another one, be it
  called by it or returned by it, as in `u: f()(), f: () => g, g: () => w, w: 1`, or
  out of an earlier value; and what such a function lacks is only ever a value whose
  turn has not come. At the top level they protect a value's own reads of the others,
  and all of the main body.
* `LoadsTheResolvedBinding`: captures, block frames and closures add up to the
  resolver's depth, except inside a block without definitions.
* `DirectCallsAreRightOutsideBlocks`, `ModulesAreRightOutsideFunctionsInBlocks`:
  exactly where the two tests that compare depths can be trusted.
* `LoadsTheInstanceOfAnEarlierUse`: a binding of the top level is read at its own
  type, or at the type of an earlier use in the same function.
* `RefusesOnlyQuotedOrModules`: the internal error "missing capture slot" has no
  other causes than interpolations, bare blocks and modules that are not called.

## Findings

1. **Late imports** (`late_imports`). `interp.rs:84-87` says `run_eager` forces the
   definitions of an imported file so that nested imports run in its directory.
   An import inside a record, a function or a later field runs when it is first
   used, in the directory of whatever file is running then, and can silently find
   another file.
2. **Captures behind a function, in a block** (`jit_block_garbage`).
   `jit.rs:2369-2373` refuses a reference to a sibling function with unsatisfied
   captures. Only the captures of the functions a value names are looked at. With
   `v: f(5), f: (x) => g(x), g: (x) => x + n, n: 10` in a block, `f` captures only
   `g`, which exists, so `v` is accepted and runs `g` before its capture of `n` is
   stored.
3. **Captures at the top level** (`jit_top_garbage`). `jit.rs:1522-1524` detects
   calls to functions that capture a later value, but every capture, also one of
   an earlier value or of a function, is stored after the last value. With
   `f: (n) => if n == 0 then 0 else f(n - 1), v: f(5)` the program is accepted and
   `f` reads its own capture of `f` before it is stored.
4. **Direct calls in blocks** (`jit_scope_direct`). `top_level_func`
   (`jit.rs:3653-3667`) compares a depth that counts block frames with one that
   does not. In `f: (x) => x * 10, { g: (x) => x + 1, g(2) }` the call of `g` has
   depth 0, slot 0 and `f`'s type, and is compiled as a direct call of `f`.
5. **Literals shared by instances** (`type_literals`). `jit.rs:499-502` says inner
   function literals inherit the substitution of the function around them. They
   are keyed by their own type (`jit.rs:1213-1220`): with
   `f: (x) => () => x == x`, used at a number and at a string, the inner literal is
   `() => bool` in both instances and is compiled once, for the first of them.

The exceptions that the properties which hold had to make are disagreements of the
same kind, each as small as it could be made:

* at the top level the check compares slots with `>`, so `x: x + 1` is accepted
  and reads its own undefined variable (`GarbageOnlyInCalledFunctions`);
* the parser makes `{ e }` an `ImmediateBlock` without definitions;
  `jit.rs:2206` says that it is a scope like any other, `jit.rs:2212` pushes no
  frame for it, and every depth inside is off by one: in
  `f: (x) => x * 10, { g: (x) => x + 1, { g }(2) }` the inner `g` loads `f`, and
  most other variables are refused (`LoadsTheResolvedBinding`);
* `distance_to_root` (`jit.rs:3008-3017`) misses the blocks around a function, so
  `List.length(x)` there is refused with an internal error
  (`ModulesAreRightOutsideFunctionsInBlocks`);
* captures are keyed by depth and slot and keep the first type met
  (`jit.rs:1349`), although `jit.rs:510-512` has the type choose the instance: a
  polymorphic function used as a value at two types in one body is the first
  instance both times (`LoadsTheInstanceOfAnEarlierUse`), and compiled code
  calls it with the wrong signature (`CapturesAtTwoTypes`);
* records unify by field name (`typeck.rs:155-164`), while the slot of a field is
  its position in the static type (`jit.rs:2085-2102`): of
  `if c then { a: 1, b: true } else { b: true, a: 1 }` the field `a` may be read
  where `b` is (`ReordersFields`);
* a value of the top level that names a function with captures, or itself, runs
  before any capture is stored (`RunsBeforeTheCaptures`, finding 3);
* an index out of range, `head` and `tail` of an empty list, and `take` and `drop`
  beyond the end read outside the list, where the interpreter reports an error or
  clamps (`jit.rs:2174, 3269, 3277, 3287-3304`; `StopsOnlyWhereEvaluationFails`);
* a list literal hands its own allocator down to its elements (`jit.rs:2108`), so a
  program with a function literal in a list is refused
  (`CodeExistsForWhatIsChecked`);
* the collecting passes have no case for `${ }` (`jit.rs:1394`), which
  `ROADMAP.md:35` has the JIT compile: `name: "x", f: () => "hello ${name}"` is
  refused with an internal error (`RefusesOnlyQuotedOrModules`);
* `outer_vars_excluding` (`typeck.rs:205-226`) reads the environment without the
  substitution, so a local function that returns the parameter of the function
  around it can be generalized over that parameter's type; the program then has a
  value its type does not describe, and the worklist need not end
  (`ValueHasTheProgramType`, `CodeExistsForWhatIsChecked`);
* lists: `jit.rs:860` says that `emit_value_eq` mirrors `interp::value_eq`, but it
  compares item by item without looking whether both are one list. For
  `f: (x) => x, l: [f], l == l` compiled code gives false and the interpreter true
  (`interp.rs:539`), so `CompiledMeansTheProgram` compares with what a program means
  without sharing (`Shares` is false);
* a block with several bodies keeps the last and drops the others without a word
  (`parser.rs:133-138`), where the top level reports an error (`NoWordIsLost`);
* a `\u` followed by a character of several bytes is sliced inside it
  (`lexer.rs:335`), and the process panics (`OnlyAnEscapeIsCut`).

## The proofs

| Theorem | Says, for every value of the constants |
|---|---|
| `LazyBindings_proofs!TypeCorrect` | cells, forces and mode keep their types |
| `LazyBindings_proofs!BusyCorrect` | `BusyIffForcing` |
| `LazyBindings_proofs!EvaluatedOnceCorrect` | `EvaluatedOnce` |
| `Interp_proofs!StackCorrect` | the inductive invariant of the evaluator's heap and stack |
| `Interp_proofs!ImplementsBindings` | `ImplementsLazyBindings`: every step of the evaluator is one of `LazyBindings` or leaves its variables alone |
| `Interp_proofs!BusyCorrect`, `Interp_proofs!EvaluatedOnceCorrect` | `BusyIffForcing` and `EvaluatedOnce` of the evaluator's own bindings |
| `Interp_proofs!DirectoryCorrect` | `DirectoryOfInnermostImport` |
| `Interp_proofs!TypeCorrect` | `TypeOK` with `InScope`: environments are older than those they are the parent of, variables find their cell; for any resolved programs and files |
| `Interp_proofs!MainTypeCorrect` | the same of a session of any resolved lines |
| `Interp_proofs!MainImplementsBindings` | `ImplementsLazyBindings` of the driver: all lines of a session, in one heap |
| `Interp_proofs!MainBusyCorrect`, `Interp_proofs!MainEvaluatedOnceCorrect` | `BusyIffForcing` and `EvaluatedOnce` over a session |
| `Interp_proofs!MainDirectoryCorrect` | `DirectoryOfInnermostImport` over a session |
| `JitBlock_proofs!TypeCorrect`, `JitTop_proofs!TypeCorrect` | compiler, code and memory keep their types |
| `JitBlock_proofs!NothingPendingCorrect` | `NothingIsLeftPending` |
| `JitBlock_proofs!RejectsCorrect`, `JitTop_proofs!RejectsCorrect` | `RejectsOnlyForwardNeeds`, for scopes of any size |
| `JitBlock_proofs!CompleteBeforeTheBodyCorrect`, `JitTop_proofs!CompleteBeforeTheBodyCorrect` | `CompleteBeforeTheBody`, for scopes of any size |
| `JitBlock_proofs!GarbageCorrect` | `GarbageOnlyBehindAnotherFunction`, to any depth of calls |
| `JitTop_proofs!GarbageCorrect` | `GarbageOnlyInCalledFunctions`, to any depth of calls |
| `JitScope_proofs!DirectCallsCorrect` | `DirectCallsAreRightOutsideBlocks`, for any path and any types |
| `JitScope_proofs!ModulesCorrect` | `ModulesAreRightOutsideFunctionsInBlocks`, for any path and any types |
| `JitScope_proofs!LoadsCorrect` | the inductive invariant of captures and generated code |
| `JitScope_proofs!ResolvedBindingCorrect` | `LoadsTheResolvedBinding`, for any path and any types |
| `JitScope_proofs!RefusalsCorrect` | `RefusesOnlyQuotedOrModules`, for any path and any types |
| `JitScope_proofs!InstancesCorrect` | `LoadsTheInstanceOfAnEarlierUse`, for any path and any types |
| `JitScope_proofs!TypeCorrect` | environments, captures, uses and code keep their types |
| `Lexer_proofs!OnlyEscapesAreCut` | `OnlyAnEscapeIsCut`, for any set of texts, of any length |
| `Lexer_proofs!TokensCoverTheTextCorrect` | `TokensCoverTheText`, for any length and any depth of nesting |
| `Lexer_proofs!StringsNestCorrect` | `StringsNest`, for any length and any depth of nesting |
| `Lexer_proofs!LexingAdvancesCorrect` | `LexingAdvances`: a text of n bytes takes the lexer at most 2n + 1 steps |
| `Worklist_proofs!QueueCorrect` | the inductive invariant of the queue |
| `Worklist_proofs!CompilesExactlyWhatIsUsedCorrect` | `CompilesExactlyWhatIsUsed`, for any program and any order of the hash maps |
| `Worklist_proofs!NothingIsSuperfluousCorrect` | `NothingIsSuperfluous`: no smaller set of instances is closed under use |

The assumptions are those the modules state about their constants, cited by name:
`ScopesAssumption` (a scope's definitions refer to definitions of the scope; room
for one call at least), `LimitsAssumption` and `FilesAssumption` (the root
environment, 4 frames and 10 cells, is within the bounds; what `Locate` finds can
be read and is in a directory), `JitScopeAssumption` (top-level bindings have
types, and a module's type is none of them), `TextsAssumption` (texts are UTF-8, as
a Rust `str` is). `LazyBindings` has none. `TypeCorrect` of `Interp_proofs` assumes
besides a `J` with `ResolvedIn(J, Programs \cup FileStatements)`, `MainTypeCorrect`
one that also has whatever the resolver makes of lines with definitions from `D` and
bodies from `B`, the sets the lines of the sessions are made of. Neither set need be
finite: `J` can be all expressions in all scopes they fit in. Each inductive invariant was checked by
TLC on the instance of the component's run before it was proved, except `HeapInv`,
which quantifies over an infinite set of values: of it TLC checks `TypeOK`.

*LazyBindings.* The inductive invariant is
`TypeOK /\ BusyIffForcing`: neither is inductive alone, because `Finish` and
`Unwind` write to the innermost force's cell, whose type is known only from
`TypeOK`, and leave the other cells in progress justified only because a cell
occurs once in `forcing`. `EvaluatedOnce` follows from the same invariant: the
cell `Unwind` suspends was in progress, so it was not evaluated.

*Interp.* The evaluator has some thirty actions, but for its bindings and
directories there are five kinds of step (`Kinds`): `Calm` touches neither heap
nor directory, `Building` adds a frame, perhaps with an import's entry, `Entering`
and `Leaving` are the two ends of a `force`, `EndingImport` puts the directory
back. The first half of the proof shows that every kind keeps the invariant and
is a step of `LazyBindings` or a stutter, the second that every action is of one
of the kinds. The invariant `IInv` is about the stack. `StackOK` says that a
`Force` entry is of a cell that exists, that what an `Import` entry will put back
is the directory of the next import below it (for all of them, since an `Err` can
take off any number), that `Force` entries can be numbered (`RanksOK`, what the
refinement mapping is built on), and that Display's entries have only each other
below them: a failure Display swallows therefore ends no force, and `mode` may
return to `run`. That a cell in progress is one of those being forced need not be
in the invariant: it is `BusyIffForcing`, which is proved of `LazyBindings` and
carried over by the refinement (`ImplementsPromises`, which instantiates
`LazyBindings_proofs` with the same mapping), and so is `EvaluatedOnce`.

*The heap.* `TypeOK` alone is not inductive: that a variable finds its cell depends
on the frames around it, on what a function in a cell or in a list remembers, and
on what waits on the stack. `HeapInv(J)` gives every frame the scopes the resolver
had where it was built (`chains`: a frame's own slots before the scopes of its
parent), and says that whatever will be evaluated in an environment, suspended in
a cell, the body of a function, or part of an entry of `kont`, is in `J` with the
scopes of that environment. `HeapInv` also has a set `V` of values that contains the
items of its lists, so that what lies how deep in a value need not be said by
recursion. Both grow with the heap: a new frame extends `chains` by one
(`Grown`), and what was known of the older frames stays true. `ParentScopes` then
says that `ParentAt(f, n)` is the frame whose scopes are those of `f` without the
innermost `n`, by a least counterexample, so that `IsCell` follows from a variable
being in its scopes.

*Repl.* Between lines the thread keeps frames and directory, and the next line
starts on them. `AtRest` is what makes that sound: when a line has ended, by a result
or by a diagnostic, `kont` is empty (and the model within its bounds, so that the
next line may begin). So no binding is being forced, hence, by the
refinement, none is marked, and no import waits to put the directory back. With it
`MainInv` is inductive for `MainNext`, and the step that begins a line is a `NewFrame`
of `LazyBindings`. `LinesInv` says that what has accumulated are definitions that
were typed, so that what the resolver makes of them is in `J`. A process that has
died of a stack overflow begins no line: it is not at the prompt (`AtPrompt`).

*JitCode.* What any code does when it runs is proved once. `WellFormed` says of
code that it stores a slot once and fills a capture after its slot. `MemoryInv`
then says what memory holds at instruction `pc`: a slot is set exactly if an
instruction before `pc` stores it (`StoredIn`), a capture holds what its slot holds
exactly if one before `pc` fills it (`FilledIn`), and the activations above the
first are functions. Of what values hold, and of what calls return, it says nothing:
they may hold any functions of the scope. So what is missing at run time is a question about the order
of instructions, and that was decided at compile time.

*JitBlock.* `CompileInv` says that what is pending is a capture, of a function, of
a slot not yet populated, and that functions are populated once phase 1 is over.
When phase 3 starts every slot is populated, so nothing is pending. When a value
`v` is refused, what it reads, or what a function it names still waits for, is not
populated, hence a value, and `v` is the first value not populated. For the run
time `CodeInv` adds that the compiler's books are true of the code (`EmittedOK`:
`populated` is what the code stores, and a capture that is not pending is filled)
and that every evaluation is emitted where all it reads is stored, every function it
names is complete, and every function has the captures whose slots are stored
(`EvaluationOK`), which is what `populate_caps_until_stable` is for. `RunOK` is then
a question about the function that reads garbage, however it was got at: it is not
named by the value, since those are complete, and what it lacks is in a slot that is
not stored either, so a value's.

*JitTop.* The refusals in one step: both halves of the check exhibit a later value,
reached directly or through one function. At run time nothing is filled before
the body, so what an evaluation reads itself is stored, unless it is the value's
own variable, and what a function reads of its captures is not.

*JitScope.* The properties speak of
code already generated, the invariant of the environments it was generated in:
`Environment(p)` says that without bare blocks the frames fill the positions after
`base`, and that without blocks around `base` the nesting is `base - 1`, so that
`distance_to_root` is the position itself. It is needed at every position and
not only at the end of the path, because a variable can be met anywhere on it.
`Met` adds that a variable of the top level outside `${ }` was recorded at its
type, which gives the converse for direct calls: the instance exists.

*What a variable reads.* Also in `JitScope_proofs`: `load` is recursive along the closures a captured value is copied
through. That it is the function its definition describes (`LoadExists`) and what
it finds are not proved by the induction rules of the library, which take an
operator, but by a least counterexample (`Least`): the innermost position at which
a claim fails, from which one step (`Peel`) leads to a position further out where
it holds. `FoundAtItsDepth`: whatever is found is as many scopes out as was asked
for, where no bare block is around. `FoundWhereBound`: outside `${ }` and bare blocks
something is found, because every function between a variable and its binding
captures it. For this the invariant has `Frames` (the frames of an environment are
the blocks of its function), `RefFits` (the types of variables; `${ }` once entered
is not left) and `CapturesOK`: a capture is known by the distance from its function
to the binding, is of a variable that was met, and keeps the type of the first one
met. The last part is why a binding may be read at another type than its own, and
why that is always the type of an earlier use.

*Lexer.* `CutInv` says that the scanner always stands at the first
byte of a character. Every slice but one is made of a span of ASCII bytes it has
just compared (`Next1`, `Next2`, `NextWidth`) or runs to a position a search found
(a comment's end, the end of a word); the four bytes behind `\u` are the only ones
it takes unread. `CoverInv` takes the stack apart. As long as there is no error,
what the file's `lex_top` has put aside, what the string above it has found, what
the `lex_top` of its open `${ }` has put aside, and so on up to the activation that
runs, each cover the text from where the one below stopped (`StringCovered`,
`Bottom`), so that joining them when an activation returns leaves no hole. The
same holds of nesting: each is a run of tokens that nest by themselves (`Nest`)
with the net number of brackets its `depth` says (`Nests`), and a string with an
open `${ }` waits for just one interpolation (`Awaits`). The brace that closes it is
taken only at depth 0 (`Returned`), so the brackets inside are balanced
(`NestInterp`), and it matches no `${` within, since those have been closed. A string
that the text ends in is an exception: it is given up with its fragments, and an
error is recorded. The theorems are about `LexSpec`; `Parse`, the only other step of
the run, leaves text and tokens as they are. That every step brings the end nearer
(`LexingAdvances`) is measured by `Left`: the bytes not yet read, twice, and the
activations on the stack. Returning from one reads at most a bracket, starting one
reads two bytes, and every other step reads one; where an error is reported and
scanning goes on, the character it is about has been read. The property is in no
run's list; TLC found it to hold on the instance of `reader`. What `LexingEnds` says
beyond it is only that a lexer that has not stopped can always take a step.

*Worklist.* `Asked`, `Once` and `Needed` say what `visited` is for: it is the union of
what is compiled and what is queued, which are disjoint and without repetition; the
uses of whatever is compiled are in it; and each pair in either is among the first
or is used by an instance compiled earlier. When the queue is empty `visited` is what
is compiled. That nothing is superfluous follows by a least counterexample: of the
instances that a closed set lacks the one compiled first is used by one it has.
`QueueSpec` assumes of a program that it and the walks of its expressions are finite
(`FiniteProgram`), which is what makes the order of a `HashMap` an enumeration
(`Orders`). It does not assume that the queue gets empty: polymorphic recursion may
keep it going, and the theorems say what holds when it does.

`NeedsLater` is defined as a least closed set rather than by recursion, layout as
a set of cuts, and `load`, `ParentAt` and the folds as recursive functions or folds
of the library, so that the proofs can use them.

Only model-checked:

* agreement with `CallByName` (`PrintsWhatTheProgramMeans`,
  `LineMeansTheLatestDefinitions`, `OverflowsOnlyInsideItself`,
  `ValueHasTheProgramType`, `CompiledMeansTheProgram`,
  `StopsOnlyWhereEvaluationFails`), everything else about `TypeCheck`, `JitGen`,
  `JitRun` and `Parser`, and about `JitInstances` what is not the queue: their
  operators are recursive, and what a recursive operator computes is an induction
  over data;
* that the actions of `JitInstances`, `JitGen` and `JitRun` are steps of `QueueNext`:
  it is so by conjunction for those of the queue, and the others leave its variables
  alone but for `stage`; `CompilesExactlyWhatIsUsed` itself is checked of the whole;
* that the resolver's output is `ResolvedIn` some `J` (`ExpressionsAssumption`), for
  the same reason;
* liveness (`EvaluationEnds`, `TailLoopsEnd`, `LexingEnds`); of the last the part that
  is not about what is possible is `LexingAdvances`.

## What is not modelled, and why

Numbers are integers: rounding, NaN, infinities, fractions and exponents in the
source, division and modulo are left out. Text is compared, joined and converted
from numbers only. Lists nested more than three deep are not compared. Spans and the wording of
diagnostics are left out: an error is an error. Of `String` and `Number` only the
types are modelled: they are pure functions of a library's strings and floats, and
`JitGen` refuses the programs that call them. Of the JIT the layout of objects in
bytes, the arena they are taken from, the text that is printed, and the lowering of
an instruction to Cranelift's are left out: an object is a sequence of cells. The
command line is I/O.

## The plan

The order so far was: the evaluator's core promise (`LazyBindings`, proved), the
evaluator (`Interp` against `CallByName`), the JIT's orders of evaluation and its
scope coordinates; then the driver and the resolver (`Repl`), the type checker and
the worklist (`TypeCheck`, `Worklist`, `JitInstances`), the front (`Lexer`, `Parser`), and the
code of the JIT and its execution (`JitGen`, `JitRun`).
The proofs: every safety property of `LazyBindings`, `JitBlock`, `JitTop`,
`JitScope`, `Worklist` and `Lexer`, and of `Interp` and `Repl` their refinement of
`LazyBindings`, their directories and their heap.
What would come next: division and rounding in `Values`, `String` and `Number` in the
JIT, and lemmas about the type checker's bookkeeping (fresh variables, `FirstVar`)
once unification is written with recursive functions.
