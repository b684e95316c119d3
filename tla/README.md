# toster in TLA+

toster marks programming contests: students' programs are compiled and run on
the tests of each problem, and a scoreboard says what each of them earned. This
directory holds TLA+ models of it, the TLC configurations that check them on
small instances, and proofs, checked by TLAPS, of what matters most in them for
instances of every size. Paths below are those of the repository (`src/judge.c`,
`README.md` and so on); "this README" means the file you are reading.

## 1. The system

Two programs, linked from five C files, and a contest on disk.

| part | code | state it keeps | operations |
|---|---|---|---|
| judge: command line | `src/judge.c` 252-282 | the directory, the number of workers | read `-j` and the directory, ask for the processors |
| judge: main around the jobs | `src/judge.c` 283-313, 341-386 | three log descriptors and the files behind them, cursors | load, refuse or warn about the sandbox, empty the logs, write them piece by piece, end |
| judge: table and pool | `src/judge.c` 93-187, 314-329 | the table of jobs, the slots, `next`/`done`/`running`, `failed`, a pipe per job | enlist submissions, `start_job`, `collect`, `run_jobs` |
| judge: scoreboard | `src/judge.c` 330-386 | cursors over users, problems and jobs, a total | `summarise`, score, write the row of each student |
| judge: trace and layout | `src/judge.c` 38-66, 189-247 | none | what the trace says of a submission; column widths |
| runner: main | `src/test.c` 281-384 | its log, the pipe, the descriptors of a test | find the source, compile, run each test, write marks |
| runner: `spawn` | `src/test.c` 18-27, 104-154 | `child`, `killed`, the alarm of the process | fork, limit, wait, kill on SIGALRM |
| runner: checkers | `src/test.c` 156-259 | two positions in two files | `checker_byte`, `checker_int`, a checker of the problem's own |
| runner: sandbox | `src/test.c` 29-101 | the profile on disk, the command, the memory limit | probe the limit, write the profile, wrap the command |
| contest loading | `src/config.c`, `src/config.h` | a `Contest` | `contest_load`, from `.cfg` files or `contest.json`; defaults and checks |
| command templates | `src/config.c` | none | split, replace, expand |
| reader of `.cfg` | `src/reader_cfg.c` | rows of words, one byte three functions share | read the file into rows |
| reader of JSON | `src/reader_json.c` | a tree of values | recursive descent, without a limit to its depth |
| example contest | `contest/` | none | 89 submissions to ten problems, tests, expected logs |

How they meet:

- The judge **forks and executes** one runner per submission, at most `-j` of
  them at a time. It passes the user and the problem as arguments; the runner
  reads the contest from disk **again**, for itself.
- A runner writes one byte per test into the **pipe** that is its standard
  output, and the same byte into the log of that submission. The judge does not
  read the pipe before **waitpid** has reported that the runner is over.
- A runner forks the compile command, the submission and the checker, one after
  the other, and limits a submission by RLIMIT_CPU and by its own **alarm**,
  whose handler runs between any two steps of `spawn`.
- The **files** outlive all of them: three logs of the judge, a log, a binary and
  an output file per name and letter. A judge that is killed leaves its runners
  going, and the next judge's runners open the same files.
- Nothing is locked, and nothing is read back on a restart.

### What is hard here

| behaviour | why it is hard to test | properties |
|---|---|---|
| runners end in any order | a mark in the wrong row shows only under one order of finishing | `OwnMarks`, `CellsAreTheVerdicts`, `KeepsPromise` of `Judge` |
| pids are handed out again, and children may be inherited | needs a pid to be reused while its old slot is still around | `SlotsHoldChildren`, `JobsAccountedFor`, `Termination` |
| the pool at its limit | over the array at one end, a worker idle or a wait for nobody at the other | `KeepsWorkersBusy`, `WaitsForSomebody`, `Termination` |
| one start, wait or runner of several fails | `pipe`, `fork` and `waitpid` seldom fail | `CleanExit`, `CellsAreTheVerdicts` and a finding |
| a judge killed while it writes, and the next one over its files | three files written by turns, orphans that go on, two users of one name | `LogsTellTheSame`, `WholeScoreboard`, `LogsAreTheMarks`, `NobodyStays` |
| a runner of the judge's own that ends early | nothing fails, and the judge takes what arrived for the row | `KeepsPromise`, `WholeScoreboard`, `LogsAreTheMarks` and a finding |
| a judge that is refused | it must not have emptied the logs by then | `RefusalSparesTheLogs` |
| the log and the pipe are two writes | the runner may end between them | `LogLeadsPipe`, `ZeroMeansWhole` |
| the alarm against the child's exit | a window of a few instructions | `NothingCarriesOver`, `KillsAreTimely`, `RefusalHasAReason` |
| processor time against wall time | needs a loaded machine | `ZeroIsEarned`, `LimitedCallsReturn` and a finding |
| the sandbox and the memory limit are set up in several steps | a fork, a file, a `realpath` or the memory for the command fails between two of them | `SubmissionIsHeld` |
| two loaders for one configuration | each has its own defaults, checks and order | `SameEitherWay`, `UsableOrToldWhy` |
| the ends of the files in the checkers | a last line without a line break | `WordsDecide`, `BytesDecide` and a finding |
| a text cut off anywhere, wrong anywhere, or memory running out anywhere in it | every byte of it is a case | `LinesAreRows`, `FileIsRead`, `TakesTheGrammar`, `NothingLeaks`, `SaysWhatItMeans`, `ArgumentsAreMeant` |
| `-j` and the number behind it | what belongs to what depends on all before it | `OptionsAreMeant` |
| submissions that read memory they never wrote, or do not fit an int | right on one system and wrong on another | `WordsAreTurned`, `LinesAreCompared`, `FractionsAreReduced` |

The complete list, each entry at its line, is under `hazards` in
`PROJECT.json`, with a note where no property covers it yet.

## 2. The modules

```
Marks ── Contest ──┬── Marking            the promise of a marking run
  │                ├── Judge ── MCJudge   the judge, which implements Marking
  │                │     └───── JudgeProofs
  │                └── Session ── MCSession   judges over one directory, one after another
  │                      └─────── SessionProofs
  ├── MarksProofs                       scores, sums, least elements, places, parts of texts
  └── Runner ── MCRunner, RunnerProofs    one submission against one problem
        └─ RunnerPromise                  what the judge may count on from it
Spawn ── MCSpawn, SpawnProofs             one runner's calls of spawn
Places                                    what stands where in a text, in order, and sums
  ├── Checkers ── MCCheckers, CheckersProofs    the two comparisons (and of Lines)
  └── CfgReader, Commands, JsonString
Config ── MCConfig, ConfigProofs          contest_load, from either form
CfgReader, JsonReader, JsonString, Commands, Launch ── Texts ── MCTexts
  │                                       the texts the programs read, one at a time
  └── TextsProofs                         of all of these but JsonReader
Lines, Fractions ── Submissions ── MCSubmissions
                                          seven of the example contest's submissions
```

A module that only a run needs is named MC and what it gives values to.
`Texts` and `Submissions` put modules that share nothing into one specification,
in which one of them is chosen in `Init` and goes on alone. A module of proofs
stands beside what it is about; `JudgeProofs`, `SessionProofs`, `CheckersProofs`
and `TextsProofs` extend `MarksProofs` as well.

### Marks, Contest

`Summarise`, `Passed` and `Score` are `summarise` and the scoring loop of the
judge's `main`. `Contest` has what a run is given as constants: the sizes, the
tests and points of each problem, and `Verdict[u][p]`, the marks that
submission earns when nothing disturbs it. `Faults` says what may go wrong:
`"start"` (`pipe` or `fork` of a runner fails), `"wait"` (`waitpid` fails) and
`"runner"` (a runner ends before it has written everything). `MarkedCell`,
`LostCell` and `AbsentCell` are the three kinds of cell the scoreboard may
get. A `Nul` stands for the zero byte `calloc` leaves in a job nobody collected.

### Judge, and the promise of Marking

| model | code |
|---|---|
| `Enlist`, `RunJobs` | the loop over students in `main`, and the call of `run_jobs` |
| `StartJob`, `StartFails`, `StopFilling` | one turn of the inner loop of `run_jobs`, and its end |
| `Reap` | `waitpid` reports a child: slot found, marks collected, pipe closed, slot released, all of the body of the outer loop in one step |
| `WaitFails` | `waitpid` returns -1: by the fault, or because there is no child |
| `WriteCell`, `EndRow`, `Finish` | one cell and its score, the end of a row, the return |
| `RunnerWrites`, `RunnerExits`, `RunnerDies` | a runner as the judge sees it: bytes in a pipe, and its end |
| `InheritedEnds` | a child the judge got over `exec` ends |

`slots[s].pid` keeps its old value when a slot is released, as in the code;
`NoJob` is the -1 of a free slot, because jobs are counted from 1 here. A pid
is `"free"` once it has been waited for and may be handed out again at once.
The loop `for (slot...)` that looks for the pid is `Owner`. `Reap` is one step,
because the judge has one thread and nothing of what it reads there can be
changed by a runner that is over. `WriteCell` takes the scoring loop (331-339)
and the writing loop (357-375) together: both go over the same results, which
nothing changes in between.

`Marking` says the same run without slots, processes and pipes: submissions are
marked in any order, and once the last one is, or the run has failed, the cells
are written in the order of the configuration, each from its own submission
alone. `Judge!Promise` instantiates it with a mapping: a user is present once
looked at, and the marks of a submission are the result of its index in the
table.

### Runner, and what the judge may count on

`Runner` is `main` of `src/test.c`, from the contest to the return, with the
early returns and their statuses: -1 for a setup that fails, 3 for a read that
fails in a checker, 5 for a mark that cannot be written to the log, and SIGPIPE
when the judge is gone. What `spawn` returns and which file is there is chosen
by the world. A submission that compiles is made ready in three steps, each of
which may fail: `ProbeMemory` is `memory_limit_works`, which leaves the limit
out when nobody could be asked whether it works; `WriteProfile` is
`write_profile`; `WrapCommand` is `sandbox_wrap`, which reads through NULL where
there was no memory for the command. The text of the profile is one word,
`"whole"`. `mark_write` is two steps, `WriteLog` and `WritePipe`, because the
runner may end between them. `RunnerPromise` says what goes through the pipe:
`X` or one mark per test, then the newline, or a beginning of that. It is the
same behaviour that `Judge` gives its runners, so it is the contract between the
two programs.

### Spawn

One runner's calls of `spawn`, one after another. Time goes in seconds. In each
second (`Tick`) the child does or does not get the processor; the alarm counts
down whether it does or not. When it rings, the handler runs before the
next step of the runner, and between any two of them. `task` is what the child
needs: a number of seconds of processor, or something that never comes
(`Blocks`), its exit status, and whether it minds SIGXCPU. A limit of 0 is the
call of the compile command and of a checker. `waited` is a history variable.

### Checkers

`GetWord` and `NextByte` are the two readers, `CompareWords` and
`CompareBytes` one turn of the loops of `checker_byte` and `checker_int`. The
files are sequences of letters, spaces, line breaks and NULs, chosen in `Init`.
The reference definitions are stated over a whole file and never read it from
front to back: `Seen` is what stands at the places where a word begins, and
`Squeezed` what stands at the places without a space, both in the order of the
places (`InOrder`). The way `get_word` ends is kept: a last word with no blank
behind it loses its last byte.

### Config

`contest_load`, from `.cfg` files (`CfgUsers`, `CfgProblems`, `CfgLanguages`)
and from `contest.json` (`JsonUsers`, `JsonProblems`, `JsonLanguages`), with
`ReadSandboxWish` for both. A step reads the users, one problem, one language or
the sandbox, in the order in which each of the two loaders comes to them, and
ends in the next part, or in `Refuse`, which frees the contest (`Freed`, for
`contest_free`). `Refuse(FALSE)` is a refusal without a word. The same
description is loaded in one form and then in the other, as the test script does
with its fixture, and `first` remembers what came of the first. A value that may
be missing is the set of what is there; a line with nothing behind its `=` has
no value (`Value`), whereas an empty string of JSON is one. A checker is looked
for with `access(path, X_OK)`, which finds programs and directories alike
(`Found`). The rows of the files and the text of the JSON are those of the
readers, which `CfgReader` and `JsonReader` model.

`UsableOrToldWhy` has two parts. `LoadedIsUsable` is what `Contest` assumes of a
problem's tests and the runner of its languages, and that there is something under
the name of each checker: that it is a program the code does not find out (section 4).
It does not say that the counts are not negative: `users=` and `problems=` are read
with `atoi` and never checked, and the judge's models ask for that of the
configuration (`ContestAssumption`). A count of -1 is loaded as a contest of nobody,
with an array of names of no bytes; below that `calloc` is asked for a size there
never is, and `load_users` returns without a word (`ImpossibleCount`). `RefusedAloud`
names that and the blank command as the only refusals that say nothing.

`SameEitherWay` leaves out what the two forms say differently or only one of them can
say (`SayableInBoth`): counts of the `.cfg` files that are off; a `letter` out of
order; a language without a `run`, which `lang.cfg` passes over and `contest.json` is
refused for; an extension with a dot, which `lang.cfg` passes over as well, because
`strchr` ends it at the first one, and `contest.json` takes; and empty text: an empty
name is refused in `user.cfg` and taken from JSON, and `checker=` is the default
where `"checker": ""` is the contest directory. All of these are among the
descriptions TLC loads, for `UsableOrToldWhy`.

### Session

What `main` of the judge does around the jobs, over and over in one directory:
the contest, the sandbox, the logs, the room for the jobs (`MakeRoom`), and one
user after another looked for (`Enlist`, for `submitted`). The jobs are those of
`Judge` with less detail (`StartJob`, `Collect`, `GiveUp`), and a runner is
opening its log, writing a mark into it, and sending the mark (`RunnerOpens`,
`RunnerMarks`, `RunnerSends`), so that the log and what the judge knows may come
apart. A runner may end early at each of these places (`RunnerDies`), for
whatever reason there is: it cannot be run, its log or its sandbox cannot be
had, `_exit(3)` or `_exit(5)`, a kill. The judge collects it as any other, with
what had reached the pipe (`InPipe`), and nothing has failed. `cut` is a history
variable, for the jobs to which that happened. `OpenLog` empties the logs one by
one, also when a later one cannot be opened. The last loops of `main` write a
piece at a time: `results.log`, then `scores.log`, then, for a submission, its
entry in `results2.log`, which is written a line at a time (`WriteTrace`): who
it is, what was sent, the account of it, the score. `WriteName`, `WrCell` and
`WrNumber` are the functions of `judge.c` for the pieces of the two tables; a
piece stands for what it says, and its width is left out.

`Killed` ends the judge alone and `Interrupted` the judge with its runners, at
any step. A runner without a judge goes on until it writes into the pipe: it
ends there, unless a later runner of the same judge still holds the reading end,
which it has inherited (`Read`). A user listed twice is `Namings`: then two
runners have the same log, binary and output in hand, as an orphan and a runner
of the next judge may have. A write at an offset behind the end of an emptied
log leaves a hole (`WriteAt`), and what a test earns in a shared binary may be
spoiled (`Spoiled`). `shared` is a history variable, for the submissions to
which that happened.

What a run that has not failed leaves is true to the submissions only as far as
their runners got. `WholeScoreboard` has it that a submission whose runner ended
early is shown as a beginning of the marks it deserves would be, which may be an `X`
or a `+` (the finding of section 4), and `LogsAreTheMarks` that its log then may be
one mark ahead, or that of an earlier judge where nothing was sent.

### Texts

- `CfgReader` is `get_cfgs` with `get_list` and `get_word`: a step is a word of a
  line. `end` is the byte they share, `NoRow` the NULL of a row without words, which
  every loop over rows takes for the end (`Visible`). `NoRoomForWord` and its kin
  let memory run out once, at any step; two of them are a write through
  NULL, which is a stage of its own, `"crashed"`.
- `JsonReader` is the parser as a machine: what C has on its stack is `stack`, with
  the node that is being filled and the name that is waiting for its value, and
  `live` counts the blocks of memory held. The text is made up as it is read, a
  unit at a time, so that all texts are looked at without writing them out.
  `Blocks` is what `json_free` finds; `Grammar` is the reference.
- `JsonString` is `parse_string`, over pieces: a byte, an escape, a `\u` with its
  number. `Room` is the size of the buffer. UTF-8 and the surrogates are computed
  as the code does; the reference goes by the characters of the text: which pieces
  are one (`Characters`), where the bytes of each stand (`Own`), and what they have
  to be (`Says`).
- `Commands` is `argv_split` when a contest is loaded, and `argv_expand` with
  `str_replace` when a runner starts a command.
- `Launch` is the loop of the judge's `main` over its arguments, and
  `workers_wanted`.

### Submissions

`Lines` has five and `Fractions` two of the programs in `contest/code`. They are
there because the repository says of them what it cannot test: README.md has it
of `Selevenko/A` and `Koshkarov/I` that they are right or wrong by what memory
held before (`luck`), and `Koshkarov/A` and `Koshkarov/F` differ from what is
asked for in ways the marks in `contest/expected` only hint at. An int has
`IntBits` bits and wraps.

## 3. What is checked

Every run reports deadlock: where a program has ended, or really waits for ever,
the model has an explicit stuttering action for it (`Halted`, `Finished`,
`Hangs`, `Returned`, `Gone`).

| run | bounds | what it shows |
|---|---|---|
| `judge_board` | 2 students, 2 problems, 3 workers, an inherited child, starts and waits may fail | `TypeOK`, `SlotsHoldChildren`, `JobsAccountedFor`, `WaitsForSomebody`, `KeepsWorkersBusy`, `CellsAreTheVerdicts`, `CleanExit`, `OwnMarks`: the pool, its counters and the pipes it holds open agree, no cursor leaves the table, and no mark goes astray, whatever order runners end in |
| `judge_promise` | the same contest, 2 workers, an inherited child that may or may not end, all faults, no symmetry | `KeepsPromise` (refinement of `Marking` with its fairness, totals included) and `Termination` |
| `runner_marks` | 3 tests, all faults, the three sandbox settings, paths a profile can and cannot quote, a memory limit that works, does not or is not asked for | `SubmissionIsHeld`, `LogLeadsPipe`, `ZeroMeansWhole`, `KeepsPromise` (refinement of `RunnerPromise`) |
| `spawn_calls` | 2 calls, limits 0, 1 and 2 s, children that need 0 to 3 s or block | `TypeOK`, `NothingCarriesOver`, `KillsAreTimely`, `ZeroIsEarned`, `RefusalHasAReason`, `LimitedCallsReturn` |
| `checkers_words` | two letters, space, line break, NUL; every pair of files of up to 4 bytes | `WordsDecide`, `BytesDecide`: the comparisons accept what their definitions over whole files accept |
| `config_load` | 0 to 2 students, up to 2 problems and 2 languages, each part missing, empty, off by one or two or wrong in every combination with the others, with a directory for a checker and a dot in an extension | `UsableOrToldWhy`, `SameEitherWay` |
| `texts_read` | `.cfg` files of up to 6 bytes, JSON of up to 9 units with one blank, strings of up to 3 pieces, command lines of up to 4 units, up to 3 arguments | `LinesAreRows`, `FileIsRead`, `TakesTheGrammar`, `NothingLeaks`, `SaysWhatItMeans`, `ArgumentsAreMeant`, `OptionsAreMeant`: every text is taken for what it says or refused for a reason, memory running out included |
| `session_logs` | 2 judges in a row, 2 users with two names or one, a problem of 2 tests, 2 workers, waits that fail, runners that end early, up to one orphan at a time | `TypeOK`, `LogsTellTheSame`, `WholeScoreboard`, `LogsAreTheMarks`, `RefusalSparesTheLogs`, `NobodyStays` |
| `submissions_run` | lines of up to 4 bytes, an int of 8 bits, numbers of 1 to 3 digits | `WordsAreTurned`, `LinesAreCompared`, `FractionsAreReduced` |
| `judge_partial_plus` | 1 student, 3 problems, 2 workers | a finding of section 4 |
| `spawn_loaded` | as `spawn_calls` | a finding |
| `checkers_last_byte` | files of up to 3 bytes | a finding |

Why the bounds are enough.

- *The contest.* Two rows of two columns are the least in which a mark may land
  in the wrong row, the wrong column or both. The four verdicts are all
  different and so are their scores, one problem has one test and one two, and
  7 points do not divide by 2. Each student may be absent, so the table has 0,
  2 or 4 jobs: fewer than, as many as and more than the workers.
- *The workers.* With 2 workers and 4 jobs, slots and pids are used again; with
  3 workers, of 4 jobs one is left over and of 2 jobs a slot stays free. One
  worker is the case of a single slot, which the proofs cover.
- *`PipeRoom` = 3* is the longest row with its newline: no runner ever blocks.
  Of a row longer than a pipe holds, see section 6.
- *`Spawn`.* Two calls are the least in which something of one call could reach
  the next. Needs of 0 to 3 s lie below, at and above limits of 1 and 2 s, and
  the alarms ring after 4 and 6 s.
- *`Checkers`.* Four bytes hold two words with two blanks, a blank at
  both ends of a word, and a NUL inside a word. `checker_byte` and
  `checker_int` keep no state but their positions.
- *`Config`.* A refusal ends the loading, so that at most one wrong thing is ever
  seen of a description; two of each are enough for the first to be right and
  the second wrong, and for one too few and one too many.
- *`Texts`.* Six bytes hold three lines, or a line with two `=` and one behind
  it, and a file that ends anywhere. Nine units hold an object of two members,
  or three objects and arrays inside one another with something wrong behind
  them. Three pieces are a pair of surrogates with something before or behind
  it; the codes are the two on either side of each border of UTF-8 and of the
  surrogates, and one byte is above 127 and is copied as it is. Of the three paths
  one is shorter than a placeholder, two are longer and hold one, and the longest
  has a blank in it. Three arguments are a `-j`, its number and
  a directory, in every order.
- *`Session`.* Two judges are the least in which one leaves something to the
  next; one problem of two tests lets a judge stop in the middle of a row of
  each table and a runner in the middle of its marks. One user earns a pass and a
  crash (`+x`), so that a runner cut off between the two leaves what looks like a
  whole `+`; the other's submission does not build. With two users there is a
  row above and one below, and two runners may share a log. A judge is killed, or
  gives up, only with at most one runner out (`MaxOrphans`, in `FewOut`), those of an
  earlier judge counted: it bounds the runners that are left behind. An orphan of the
  first and a runner of the second judge is the case that matters; that nothing
  hangs on the bound is for the proofs, which have none.
- *`Submissions`.* Four bytes hold two words and the blanks around them; of two
  lines one can be the beginning of the other. Eight bits make the products of
  two-digit numbers wrap.
- *Symmetry* is used in runs of invariants only: over the pids of the judge's own
  children (only compared for equality) and over the letters.

Fairness.

- `Judge`: weak fairness of the judge as one thread, and of each runner's
  writes and exit: the system schedules a process that can run. None is
  assumed of the faults, nor of an inherited child: `Termination` is checked with
  one that may go on for ever, and does not wait for it (`WaitsForSomebody`).
  That a runner comes to its end is
  `LimitedCallsReturn` for a submission with a limit; a compile command, a
  checker of the problem's own and a submission with `time=0` have none, and
  a contest in which one of these blocks is outside what `Termination` says.
- `Marking`: weak fairness of its progress, which the refinement checks.
- `Spawn`: weak fairness of the steps inside `spawn`, of a pending handler, of
  a child that is ready to exit, and of the clock. That a child ever gets the
  processor is **not** assumed, so that a starved submission is covered.
- `Session`: weak fairness of the judge and of the runners, each of which goes on
  while the system runs it; none of being killed, of giving up, of a contest that is
  refused or of starting another judge. That a submission lets its runner go on is
  `LimitedCallsReturn` again.
- `Texts`: weak fairness of the `.cfg` reader, which is one thread that never
  waits. Of a directory in the place of a file `FileIsRead` claims nothing:
  there `ReadFails` goes on for ever.
- `Runner`, `Checkers`, `Config` and `Submissions` have none: nothing about
  liveness is claimed there.

## 4. Where code and documents differ

Each is a run of its own that TLC finds violated; the lines are under
`findings` in `PROJECT.json`.

1. `PlusMeansAllPassed`: a runner that dies after some passes and no failure is
   a `+`, since `collect` takes any number of marks for the whole row.
2. `LoadIsNoTimeout`: the alarm of `2 * seconds + 2` seconds is wall time, and
   cuts off a submission within its processor time on a machine loaded enough.
3. `BlanksDoNotMatter`: `checker_byte` drops the last byte of a file that does
   not end in a blank: `ab` and `ac` are the same, `ab` and `ab` with a line
   break are not.

Others are in the models, where they are what the properties have to allow for,
without a run of their own:

- After a `pipe` or `fork` that failed, the marks of the jobs that were never
  started are zero bytes in `results.log` (`LostCell`), a mark README.md does
  not list.
- An alarm between the child's exit and `alarm(0)` makes `spawn` return 1 for a
  child that exited with 0 (`RefusalHasAReason` allows for it; the comment above
  `spawn` does not).
- A runner that dies before its first mark is an `X`, as if nothing had been
  submitted, though the trace does tell the two apart.
- The comment at `src/config.c:14` has it that a checker has to be a program under
  the contest directory; `access(path, X_OK)` finds a directory just as well, so that
  `checker=checkers`, or `""` in `contest.json`, is loaded and every test is wrong
  (`Found` in `Config`).
- `language_add` refuses a blank command without saying why (`Refuse(FALSE)` in
  `Config`), where `config.h` says that `contest_load` prints why; so does
  `load_users` for `users=-2` and below.
- `\u0000` in a string of `contest.json` is written as the byte it is, and ends the
  string there for whoever reads it as one of C: a name or a command is cut short
  in silence. `SaysWhatItMeans` is about the bytes `parse_string` writes.
- A line of a `.cfg` file that begins with `=` ends the file for whoever reads
  it, in silence, and a directory in the place of the file is read for ever
  (`RowsOf` and `ReadFails` in `CfgReader`).
- When `memory_limit_works` cannot fork, the memory limit is left out without a
  word (`ProbeMemory` in `Runner`); the comment at `src/test.c:75` has it that the
  contest is told plainly.
- `-j contest` marks the default directory, with a worker for each processor
  (`IsNumber` in `Launch`), as the usage line can be read to say.

## 5. What is proved

All proofs are checked by TLAPS for every value of the constants.

Assumptions, each named in the module that declares the constants and evaluated
by TLC in every run: `ContestAssumption` (counts are natural numbers, a
problem has a test, `points * tests` fits an int), `VerdictAssumption` (a runner
left alone writes `X` or a mark per test), `FaultsAssumption`,
`JudgeAssumption` and `PidAssumption` (at least one worker, no pid 0, and as
many pids as workers and inherited children), `SpawnAssumption`,
`RunnerAssumption` (a problem has a test, which `contest_load` sees to),
`CheckersAssumption` (a letter is no blank, no NUL and no end of file),
`ConfigAssumption` (what a description is made of: lists, and values that may be
missing), `SessionAssumption` (a naming names every user, and at least one
worker), `CfgTextAssumption` and `CommandAssumption` (a text is a row of units, of
any length, and a path is not empty), `QuotedAssumption` (a string is a row of
pieces, of any length: bytes below 256 and numbers of four hexadecimal digits),
`LaunchAssumption` (`atoi` gives every text a number, and the empty one 0) and
`LinesAssumption` (a line is as long as it may be).

**Sums and least elements** (`MarksProofs`). A score is between 0 and the points
of the problem (`ScoreBounds`); of the rows with a mark for every test exactly
the one of passes alone is worth all of them, and exactly that one is a `+`
(`FullScore`: of a shorter row only the first is true, which is the finding).
The library's induction theorems take an operator and cannot be used here;
instead, `LeastNatural` has that a set of naturals that is not empty has a least
element, as its minimum, and `InductiveSet` follows from it: a set that holds 0
and with every number the next holds all of them. With the two, `SumOver` a
finite set, a fold in the community modules, is shown to go one element at a
time, and to come to the same a little further on (`ShiftedSum`). The lemmas
about places are here too: that `InOrder` of `Places` has what stands at a set
of places one by one, and what one place more behind all others adds to it; and
those about parts of texts (`PartIs`, `PartOfPart`), which both `CheckersProofs`
and `TextsProofs` cut theirs with.

**The judge** (`JudgeProofs`). The invariants are built in
layers, each inductive with the ones below it:

| layer | what it says | needed for |
|---|---|---|
| `Typed` | types, and how far each cursor may be at each place of the program | all below |
| `SlotsAgree` | slots hold distinct jobs and distinct pids of children that are not free, each running the job of its slot | `NoRunnerLost` |
| `Pool` | the counters and the open pipes against the slots, the results and the table | `EveryJobAccountedFor`, `WorkersAreBusy`, `SomebodyToWaitFor`, `ExitsClean` |
| `Pipes` | every pipe holds a beginning of what its runner has to write, and all of it when an undisturbed runner is over | `MarksAreTheRunnersOwn` |
| `Table` | the job of student u and problem p is `ProblemsCount` times the number of students present before u, plus p | `Board` |
| `Board` | main's cursor into the table stands at the job of its cell, and the cells written so far are right | `BoardIsTheVerdicts`, `TypeCorrect` |
| `Lookup` | from a place in the table back to the student and problem it is for | `JudgeMarks` |
| `Sums` | the total is the sum of the scores of the row so far | `JudgeMarks` |
| `Unfailed` | while jobs are enlisted and started, nothing has failed | `JudgeMarks` |

None of the properties is inductive by itself. `OwnMarks`, for one, says
nothing of the pipes, and a step of `Reap` could store anything; that it stores
what the job's own runner wrote follows from `SlotsAgree`, and that this is all
of it from `Pipes`. `BoardIsTheVerdicts` is the main result: the scoreboard says
under each student and problem what that submission earned, for any contest, any
number of workers and any order in which runners end.

`JudgeMarks` is the refinement of `Marking`, but for its fairness: under the mapping of
section 2 the initial states are initial, `Enlist`, `Reap`, `WriteCell`, `EndRow`
and what fails are each a step of the abstract run, and every other step of the
judge, of a runner or of an inherited child leaves the abstract run where it is. It
is proved a step at a time (`MapEnlist`, `MapReap`, ...) under all layers at once
(`Known`). The mapping looks a submission's marks up by its index, so `Reap` must be
known to store at one index only what belongs to one submission (`Lookup`); that a
total of the abstract run is a sum over the row, where the judge adds as it goes,
is `Sums`.

**spawn** (`SpawnProofs`). One inductive invariant, `Inv`, in four parts: the
types, `Clock` (how the alarm, the seconds waited and the pending signal add up at
each place of the program), `Aim` (when the handler has a child, and that it has
none or this call's), and `Child` (what a child that is over may have used). From
it: `CallsAreApart`, `TimelyKills`, `EarnedZeros` and `RefusalsAreJustified`.

**runner** (`RunnerProofs`). The inductive invariant is the types, `Place`, which
says for every place in `main` which marks are in the log and which in the pipe,
and `Held` (the files of a test, and what may run without a sandbox). None of the
properties would do alone: that a runner which ends well has sent a whole row
(`ZeroIsWhole`) needs the number of marks at every test before, and `LogIsAhead`
needs to know that a mark is in hand exactly between the two writes.
`PromiseIsKept` is the refinement of `RunnerPromise`, which has no fairness, in
full: the initial states and every step, for any number of tests. `NoFileStaysOpen`
and `NothingRunsUnconfined`, which is `SubmissionIsHeld`, come out of `Held`. Its last
clause, that a limit which works is set, is for a setup that does not fail:
`runner_marks` lets it fail, so that only the theorem has that case.

**The judges of one directory** (`SessionProofs`). Ten layers, for any number of
judges, users, problems and workers and whatever is killed or given up:

| layer | what it says | needed for |
|---|---|---|
| `Typed`, `Unbegun` | types, and that what a judge has not come to yet is as it found it | `Types` and all below |
| `Emptied` | the logs are touched under a sandbox the contest can do with, and are empty from then on until the first is written | `RefusalSpares` |
| `Listed`, `Cursors` | the table has the submissions of those who are there, in the order of the cells, and `main`'s counter has passed exactly the jobs of the cells before its cursors | `Reported` |
| `Reported` | the three logs so far, piece by piece, and the total so far | `LogsAgree`, `WholeScoreboards` |
| `Ours` | whose runner is whose: a judge's own are at jobs started and not collected, and one that ended early is over | `Gathered`, `Kept` |
| `Marked`, `Gathered` | of a submission nobody else has had in hand, a runner has written a beginning of what it deserves, and what was collected is all of it, or less if the runner ended early | `WholeScoreboards` |
| `Kept` | of such a submission, the log is that of the last runner to open it, and at most a mark ahead of what a runner that ended early has sent | `LogsHoldTheMarks` |

`WholeScoreboards` asks for most of them: that a finished scoreboard is whole is
`Reported` at its last piece, and that its cells are deserved is `Gathered`, for
which an orphan of the judge before must be told from a runner of this one, and a
runner that was cut off from one that was not: the judge cannot tell those, and takes
both for results.
`LogsAgree` holds at every moment, between two pieces and while the logs of an
earlier judge are being emptied one by one, too. While a judge reports it is
`Reported`; at any other time the files are either empty or as some judge left
them, which has to be carried along without a table or a counter to speak of
them by.

**Loading a contest** (`ConfigProofs`). `Usable` has the types of all that is
put into the contest and, once a part is done with, that its count is right;
from it `LoadedIsUsable`, the first half of `LoadedCanBeUsed`; the other half
goes through the places where a loader refuses, of which all but two say why.
`AsRead` says how far each part is at each place of either loader: untouched
before, the first few problems or languages of the description while it is read,
all of it afterwards, or blank once refused. So each form, when it is over, has
come to the same `Outcome`, which says what a description is worth without
reading it in any order: that is `SameContestEitherWay`, for the descriptions
both forms can say.

**The comparisons** (`CheckersProofs`). `WordsAreCompared` and `BytesAreCompared` are
stated over files of every length. Both come from one invariant: up to the two
positions there are as many places in either file, and the same things at them
(`SameSoFar`). A turn goes on by one place in both (`BothHaveMore`), finds one more in
one of them only (`OneHasMore`), or none in either (`NoneHasMore`), which is what the
mark says. `GetWordReads` and `NextByteReads` say that the two readers go from one
place to the next.

**The submissions that work on lines** (`CheckersProofs`, second half), for lines of
any length over the letters of `Lines`. `WordsTurnRound` is about the three that turn
words round: they go on from one place where a word begins to the next, and what
they have put together is the beginning, up to there, of the whole line turned
(`IsDone`, in the invariant `WordsInv`). `LinesAreRanked` is about the two that
compare: which of two lines comes first is for the first place to say at which they
differ, one that is over counting as a zero (`FirstDiffers`, `Order`), and both a
byte behind a line that `strcmp` was not to see and a line break that is compared
with the rest leave that place where it is, but for the lines `LinesAreCompared`
leaves out. Both theorems are of `LinesInit` and `LinesNext`; in `Submissions` the
fractions stand beside them, whose recursive greatest common divisor the prover
cannot be shown.

**The texts** (`TextsProofs`). Each theorem is about one reader of `Texts` with its
own `Init` and `Next`, for texts of every length; what is being read by itself in
`Texts` is read there while the other readers stand still.

- `OptionsAreTakenAsMeant`: for every row of arguments. The invariant `OptionsRead`
  says of each place of the loop what the arguments before it have said: which is
  the directory, and which the last number behind a `-j`.
- `RowsAreTheLines`: for every file. The invariant `CfgRead` has the rows so far as
  those of the lines that begin before what is left, the row in hand as one or two
  words of the line it is on, and the shared byte as the one before what is left; so
  the row after a line is that of the next one, or none is, in the three ways
  there are to stop.
- `ArgumentsAreTaken`: for every command line and any two paths. The invariant
  `CommandInv` has what is left of the line as all from some place on, as many words
  in `argv` as begin before that place, each the one that begins at its own (or NULL,
  once memory has run out), and those expanded so far with the paths in them. That
  `str_replace` counts before it copies to the byte is `SizeIs`, for any word.
- `StringsSayWhatTheyMean`: for every string of a JSON text. The invariant
  `PiecesRead` has the bytes so far as those of the characters before some piece at
  which a character begins, each in its own place (`Stands`), and no more of them
  than the text has had. A step adds one character (`CharacterRead`): a byte, a
  `\u` that `put_utf8` writes in as many bytes as its number needs (`Utf8IsWritten`,
  for every number up to 1114111), or two that are joined (`PairIsJoined`). That
  what is read once stays what it was, as the string grows behind it, is
  `StillStands`.

They rest on lemmas about sequences the library does not have: `SequencesAll`, the
induction over sequences in the form of a set that holds the empty one and with
each all that are one longer; from it what `FlattenSeq` makes of a row of rows
(`FlatAppend`, `FlatIs`), how many of the units of a text are of a kind
(`CountConcat`), and that two replacements one after the other are one
(`ReplacedTwice`), as long as the first does not put in what the second looks for.

**Only model-checked**: `Termination`, `LimitedCallsReturn`, `NobodyStays`,
`FileIsRead` and the fairness in `Judge`'s refinement of `Marking`: liveness is out of
the prover's reach. So are `NothingLeaks`, `TakesTheGrammar` and
`FractionsAreReduced`: what they say is of trees and of a greatest common divisor,
recursive operators in `JsonReader` and `Fractions`, which the prover cannot be
shown at all. `LogLeadsPipe` and its kin
are proved for a runner by itself, with what `spawn` returns left open; that the two
models put together are the runner is the contract between `Spawn` and `Runner`, and
not a theorem.

## 6. What is not modelled, and why

- The width of columns, the cut of long names, and the times in the trace:
  nothing reads them back.
- The text of the sandbox profile and what the system makes of it.
- The results of `write` to the scoreboard, which the judge ignores: on a full
  disk it is cut short. No document promises otherwise.
- A row of marks longer than a pipe holds. The judge reads only when its runner
  has ended, so that such a runner would block for ever; the comment at
  `src/judge.c:123` rules it out for the handful of marks a problem has, and
  `PipeRoom` does so in the model.
- A contest edited while it is marked, which every runner would read as it finds it.
- The handler of the alarm between a `waitpid` that has returned and `alarm(0)`
  aims at a pid the system may have given to somebody else by then; which process
  that would be is outside of the models (`Handler` does nothing to it).
- Numbers of `contest.json`: `strtod` takes more than JSON has, and a scalar is
  taken whole in `JsonReader`. A NUL in the file is the end of it, for the code
  as for the model.
- Memory in `path_fmt` and `contest_path`, and memory that runs out in `config.c`: the
  process that loads a contest that is refused exits at once. `contest_free` is modelled
  by what it leaves, not by the order in which it frees.
- A language written down twice, which `ConfigAssumption` leaves out: two `.run` lines
  for an extension would share its first `.compile` line, where two members of
  `contest.json` have one each.
- A judge started with SIGCHLD ignored, for which `waitpid` would only fail
  once all its children are over: `WaitFails` covers what it does then.
- The other 82 submissions, which are as small, sequential and alike, and the
  test script, read for what it expects of the programs.
