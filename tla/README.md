# A verification of the keenetic-sdk build machinery

keenetic-sdk builds firmware and packages for Keenetic routers. It descends from
OpenWrt: a tree of makefiles reads a configuration made with a Kconfig engine,
downloads source archives, builds packages in parallel, collects headers and
libraries in a staging directory and composes images. Most of the repository is
package recipes, patches and vendored tools. What this project models is the
SDK's own logic: the configuration programs (`scripts/config`), the lock tool
(`tools/flock`), the downloader (`scripts/download.pl`), the stamps and the
staging directory of package builds (`include/package.mk`, `include/depends.mk`,
`scripts/clean-package.sh`, `scripts/timestamp.pl`), and the small programs that
make and start a firmware image.

Line numbers below and in the comments of the modules are those of the file
named; `PROJECT.json` maps every definition to its lines.

## 1. Inventory

| Component | State it keeps | Operations | What is hard | What makes it correct |
|---|---|---|---|---|
| flock tool (`tools/flock/src/flock.c`, macro `locked` in `rules.mk`) | the lock of an open file description; a timer; a child | `flock file command`, `flock fd#`; shared, exclusive, unlock; `-n`, `-w`, `-o` | many processes, kills, an alarm at any instruction, reopening on NFS | users that rely on the lock exclude each other; 0 means the command ran; waits end |
| Kconfig symbol engine (`symbol.c`) | per symbol: computed value, visibility, dependencies, user's answer, `SYMBOL_VALID`, `SYMBOL_WRITE` | `sym_calc_value`, `sym_set_tristate_value`, `sym_set_string_value`, `conf_set_all_new_symbols`, `sym_check_deps` | a cache that must be cleared at the right moments; choices, which read and are read by their values; ranges bounded by other symbols; OpenWrt's own rule for select | dependencies are met, selects obeyed, one value of a choice chosen, numbers in range, nothing stale, recursion found |
| Kconfig files and sessions (`confdata.c`, `conf.c`, `include/toplevel.mk`) | `.config`, `tmp/.config`, minimal files, `sym_change_count` | reading, answering, saving, `--defconfig` and its kin, `--savedefconfig`, the sync check | what is saved must be what the next read computes | a file a tool wrote passes the sync check; accepted answers stick; a minimal file gives the configuration back |
| configuration files on disk (`conf_write`) | `.config`, `.config.old`, the temporary files | open, print, close, two renames | two processes, a full disk, kills | a reader finds one whole configuration or another |
| files for the compiler (`conf_write_autoconf`) | `auto.conf`, `autoconf.h`, `tristate.conf`, a file per symbol | touching, printing, three renames | failures and retries with other values | what was compiled with an old value is compiled again |
| Kconfig expressions (`expr.c`) | none (pure) | value, equality, elimination, rewriting, printing | rules that are right for y and n and wrong for m | rewriting keeps the value |
| Kconfig menu (`menu.c`) | the menu tree | building it for the parser, `menu_finalize`, `menu_is_visible` | pointers into lists that grow; a sibling list changed while it is walked | the tree is what was written; conditions reach every prompt |
| conf dialogue (`conf.c`) | call stack, `rootEntry`, `conf_cnt` | `check_conf`, `conf`, `conf_choice` | answers bring up questions that were passed | it ends with every reachable question asked |
| menuconfig (`mconf.c`, `lxdialog`) | call stack, titles, lists and their windows | menus, choices, prompts, pager, search, load, save, exit | partial redraws, saved positions, nested searches | the screen shows what a key acts on; nothing is lost without a question |
| xconfig (`qconf.cc`) | three lists of items | views, answers, links, search, load | items kept, moved, dropped as symbols change | a list is what it would be if it were built anew |
| source downloads (`scripts/download.pl`, `include/download.mk`) | `$filename`, `.dl`, `.hash` in `DL_DIR` | mirrors, local caches, transfer, checksum, publishing | lies and stalls of the network, kills, two runs for one file | only a verified archive gets its name |
| staging directory (`include/package.mk`, `scripts/clean-package.sh`) | files and directories, one list and one stamp per package | configure, build, install, clean | packages in parallel, removal outside the lock, kills | a stamp means that the files are there; every file is on a list |
| package build stamps (`include/package.mk`, `depends.mk`, `timestamp.pl`) | `.prepared`, `.configured`, `.built`, `.dep_files` | out-of-date checks, recipes | whole seconds, edits during a recipe, interrupts | what is built is made from the files |
| kernel module order (`scripts/mdeps.pl`) | resolved and unresolved modules | passes over the unresolved ones | a list changed while it is walked | dependencies first; the loop ends |
| image tools (`padjffs2`, `sstrip`, `zyimage`, `patch-cmdline`) | the file they change | pad, strip, sign, patch | boundaries, failing writes, second runs | marks where they are looked for; the program loads as before; one signature |
| boot loader stub (`lzma-loader`) | range coder, dictionary | `entry`, `LzmaDecode` | distances that wrap, renormalisation | what was packed comes out, and nothing is read or written outside |
| Kconfig parser, package metadata, feeds, environments, image recipes, toolchain wrapper and others | text and files | sequential scripts | - | - |

How they interact:

* The parser calls `menu_add_*`; `menu_finalize()` makes the tree every front end
  walks; the front ends answer through the symbol engine and save with
  `conf_write()`. `conf --silentoldconfig` then makes the files for the compiler.
  Every `make` first runs the sync check of `toplevel.mk`.
* A package build downloads its archive, unpacks, configures, compiles and
  installs to the staging directory; `make -j` runs packages in parallel and the
  recipes of one package in order (`.NOTPARALLEL` in `package.mk`).
* Recipes that change shared directories run under `$(call locked,...)`, which is
  `flock` on a file in `tmp/`. Downloads and `clean-package.sh` do not.
* `image.mk` writes the module load list in the order of `mdeps.pl`; image
  recipes strip, pad, sign and patch what they made, and the stub unpacks it.

The behaviours a test hardly reaches are listed, each at its line, under
`hazards` in `PROJECT.json`; the one without a property says why, and so does each
whose property leaves a case out.

## 2. Modules

```
Flock <- FlockProofs, MCFlock
Symbols <- Kconfig <- ConfSession <- KconfigProofs
                      ConfSession <- Defconfig <- MCConf (with KconfigExpr)
        <- KconfigExpr <- MenuFinalize
SymCheck <- SymCheckProofs
MenuFinalize, SymCheck <- MCMenu
            MCMenu: INSTANCE MenuBuild, ConfWalk, Qconf (the last two over MenuTree)
ConfFile, AutoConf, Mconf <- ConfFileProofs   ConfFile: INSTANCE ConfStore (refinement)
MenuBox <- Dialogs <- BoxProofs   Dialogs: INSTANCE CheckList, InputBox, TextBox
Dialogs, Mconf, ConfFile, AutoConf <- MCMenuconfig   MCMenuconfig: INSTANCE SymString
Download <- DownloadProofs, MCDownload
Staging, Stamps <- StagingProofs, MCStaging
PadImage, Sstrip, PatchCmdline, ZyImage, LzmaDecode, Mdeps <- ToolsProofs, MCTools
            MCTools: INSTANCE Mdeps
```

`MCMenu`, `MCMenuconfig`, `MCStaging` and `MCTools` hold parts that share no state.
A behaviour is of one part, told by `part`; the variables of the others keep one
value. Where a module is extended rather than instantiated, its specification has
a name of its own (`MenuSpec`, `SessionSpec`, `AutoSpec`, `StampSpec`, `PadSpec`,
...) and the property the run checks is the very definition a theorem is about.

Definitions marked "Mutant" are plausible faults of the definition after them.
They are part of no specification; replacing a definition by its mutant must make
a property fail, which shows that the property depends on that code.

### Flock
Each member of `Procs` is a place that runs flock again and again. `pc` follows
`main()`; `lock` and `refs` are the kernel's side: a lock belongs to an open file
description, and the description lives until the last of the flock process, its
command and the shell has closed it. `Kill` may strike the flock process at any
step; its child then goes on. `Alarm` is the timer's signal: it interrupts a
blocked `flock(2)` and is otherwise only remembered in `timeout_expired`. `-o`,
the reopen with `O_RDWR` after `EBADF`, failing `open`, `fork` and `execvp`, and
the exit codes are modelled. The option parser is reduced to the set of command
lines `Opts`.

### Symbols, Kconfig, ConfSession, Defconfig
The variables are the fields of `struct symbol`. `sym_calc_value()` recurses into
the symbols an expression mentions and stops at valid ones; here each symbol is
computed by its own step (`CalcSym`, `CalcChoice`) once what it reads is valid,
which is the order in which the recursion returns. Because a session may compute
symbols at any time, every order is explored. Expressions are opaque in `Kconfig`:
`ExprVal` and `Reads` are parameters, given their definitions by `MCConf`.

A session is a menu run, a defconfig run, or the sync check, which runs
`conf --defconfig` to `tmp/.config` and compares with `kconfig.pl`. `Defconfig`
adds `conf_write_defconfig()` and a later `conf --defconfig` from that file:
its `DefSpec` is `Spec` of `ConfSession` with these steps beside `Next`.
A file maps a symbol to the value on its line or `NoLine`; initially `.config`
may also hold contradictory lines that only an editor can produce.

Left out: several prompts of one symbol; `allnoconfig_y`; randomised answers;
lines for unknown symbols. `MODULES` is constant, because `Config.in` gives it the
default y and no prompt.

`conf_set_all_new_symbols()` is a pass (`mode = "pass"`): `SetAllNewSymbols` answers the
symbols and marks nothing valid, and then each choice without an answer is computed
and answered by a step of its own (`AnswerChoice`, `SetAllChoiceValues`) once what it
reads is valid. `set_all_choice_values()` leaves the choice to be computed again, as
an answered one, but not the symbols that have read it meanwhile (`confdata.c:1123`,
`symbol.c:464`). Such a symbol is one that another unanswered choice needs and whose
prompt reads the choice; it is under way when the choice is answered below it, and
takes from it what it was before. `early` remembers it and what it saw
(`View`). The values of a choice are kept from this by
`SYMBOL_NEED_SET_CHOICE_VALUES` (`symbol.c:339-344`): `sym_calc_value()` of a value
answers its choice before it does anything else. What is left are the entries inside
a tristate choice that are no values of it; a bool choice has the same value before
and after. `CacheCoherent` says of those entries what they saw, and of all other
valid symbols, choices included, that they would keep their value if they were
computed again. `ReadersUnflagged`, its mutant, drops the flag.

### KconfigExpr, MenuFinalize
Pure operators with the names of the C functions: evaluation, `expr_eq`,
`expr_eliminate_yn`, `expr_eliminate_eq`, `expr_eliminate_dups`,
`expr_transform`, `expr_trans_bool`, `expr_trans_compare`, `expr_print`, and from
them `menu_finalize()`: conditions pushed into the properties, the absorption of
following entries below the one they depend on, the lifting of entries from below
one without a prompt. In-place changes through pointers are returned values here.
`Read` is the grammar of conditions in `zconf.y`, against which `expr_print` is
checked.

### MenuBuild, SymCheck
`MenuBuild` keeps the pointers `parent`, `list`, `next`, `current_entry`,
`current_menu` and `last_entry_ptr` and lets the parser's actions work on them,
statement by statement; the text that was written is kept as history.
`SymCheck` is the search of `sym_check_deps()` with its stack, its marks
(`SYMBOL_CHECK`, `SYMBOL_CHECKED`) and the special treatment of choices. As
`sym_check_deps()` ends with NULL at the top whenever it has printed, the exit
of `zconf.y:532` is never taken; what is checked is the report. `Recursive` is the
definition it is compared with: some groups (a choice with its values, or a symbol)
that each need another one of them. `ScanAssumption` says what `menu_finalize()` makes
of choices without a name: what depends on a choice is a value of it or depends on
one as well. A choice that others mention by name could hide a recursion, because
its mark is cleared before its values are looked at (`symbol.c:1244`); the only
one of the tree, `TOOLCHAIN_LIBC_TYPE`, is mentioned by nothing.

### MenuTree, ConfWalk, Qconf
`MenuTree` is a finalized tree with bool symbols, choices and strings, and what
`menu_is_visible()` makes of it, including the mark it sets on hidden symbols, the
list `build_conf()` makes of it and the target of a search key. `ConfWalk` is
`check_conf()` and `conf()` with their stack; `Qconf` the three lists of
xconfig with their items, `MENU_CHANGED`, `SYMBOL_CHANGED`, and the incremental
`updateMenuList()`. Not there: layout, columns, the help pane, window settings,
and what the user has folded.

### SymString
Int, hex and string symbols: answers, ranges whose bounds are symbols, defaults
from symbols, escaping, `.config` and minimal files. A text may be typed for a hidden
symbol too, since menuconfig and xconfig can put all options on show and
`sym_set_string_value()` does not look at the prompt: it is stored, and is the value
whenever the prompt is there and the range has room for it. The code gets two cases
wrong, as the model shows: a bound that `conf_read()` puts back without clearing what
was computed from it (`confdata.c:463`), and a text equal to the one still stored,
whose entering clears nothing (`symbol.c:680`). `ValuesKept` says of them only that the
values are right once something else has cleared them; a save before that writes the
wrong ones.

### MenuBox, CheckList, InputBox, TextBox, Dialogs, Mconf
The boxes keep the variables of their C function and the rows of their window;
a key changes both the way the code does, so that what is on the screen can be
compared with what the variables mean. `MenuBox` leaves one case out of
`RowsShowItems`: a resize that drops the saved position keeps `first_item`
(`menubox.c:253-271`), so the rows are stale until the list is built again.
`Dialogs` puts the boxes together, each with a variable of its own, and adds the
trail of titles and the wrapping of prompts on a line of cells. `Mconf` is the session: the stack of calls, titles, the configuration in
memory as two symbols, files. Two changes are not counted by
`sym_change_count` and are left out of `QuietExitKeeps`: a name that cannot be
loaded clears the count, and a choice with `reset` that goes back to its default
does not count.

### ConfStore, ConfFile, AutoConf
`ConfStore` is the promise: a store that is replaced in one step, may be left
alone, and is empty or broken only in the ways named there (between the renames;
after an unnoticed write failure). `ConfFile` is `conf_write()` call by call, by
several processes with full disks, failing renames, kills and
`KCONFIG_OVERWRITECONFIG`; `SavesAtOnce` is `ConfStore`'s specification under the
refinement mapping. `AutoConf` is `conf_write_autoconf()` and
`conf_split_config()` with a failure possible at each step, and a make that
compiles what was touched.

### Download
A job is a run of `download.pl` for one file name. A file is a sequence of blocks
and a checksum is the sequence it was computed from (no collisions). Directory
entries remember who has them open, because a write goes to the file that was
opened, whatever it is called by then. The loop over mirrors, the outcomes of a
local cache, block-wise transfers that deliver anything and stop anywhere,
verification, publishing and `cleanup()` are actions. `($? >> 8)` is 0 for a
command killed by a signal, so a truncated transfer may count as complete until
the checksum is compared. `Kill` is the user's interrupt: `cleanup()` becomes the
handler only after the loop (276). `$.`, perl's line counter, is modelled because
the early return for a second instance skips the `close` that would reset it.

Simplified: output buffering; opening `.hash` and `.dl` is one step; an interrupt
reaches the fetch command together with the script.

### Staging, Stamps
`Staging`: `CleanStaging`, the configure, build, install and clean recipes and
`clean-package.sh` step by step. The removal of files and empty directories runs
without the lock; the list and `cp -fpR` run under it; `mkdir` inside `cp` is two
steps (look, make). The tree is one level deep and each file belongs to one
package. `find` and `cp` may visit entries in any order, directories before their
files. `[ -f link ]` follows links, so a link whose target went first is kept:
the model shows it, and `NothingUnlisted` speaks of regular files only. The lock
is taken as mutual exclusion released by a kill, which is what `Flock` establishes
for `locked` recipes (`MutualExclusion`), with the recipe's processes as one.

`Stamps`: one package with `CONFIG_AUTOREBUILD`, a clock of whole seconds, a
developer who edits files, sources and settings at any time, and makes that may
be interrupted at any point, also in the middle of the removal of the build
directory: `Remove` takes the tree, a kind of stamp or `.dep_files`, in any order
(the first file of the tree to go stands for all of them), and `Wipe` is the end of it.
Three kinds of change are missed by the code, and one kind of damage;
`BuiltFromFiles` leaves exactly these out: an edit in the second of the stamp
(`timestamp.pl:50`), one made while the recipe that uses the file is running
(`package.mk:135`), settings changed and set back around an interrupted
`Build/Configure` (`package.mk:143`), and what an interrupted removal leaves
(`package.mk:129`; `past.torn`, until a removal runs to its end): stamps of an earlier
list of files may outlive the tree, and vouch for it once the list is that one again.
`make clean` removes the same directory and is not an action of its own.

### Mdeps, PadImage, Sstrip, ZyImage, PatchCmdline
`Mdeps` is the resolution loop for every acyclic `modules.dep`. `Matches` is the
match of `grep(/$dep/)`: names are used as patterns, and `s/.ko//` (85) takes the
first match, so `gspca_konica.ko` loses the wrong part; `DepsFirst` is stated for
names not contained in one another. `PadImage` pads a file to each of several
block sizes through a buffer; `Sstrip` works on program headers and what a failing
write leaves; `ZyImage` signs with a table-driven CRC, checked against one taken bit
by bit; `PatchCmdline` finds the marker and writes the line. Its check of the length
(46) forgets the marker, so a line of the last few lengths is accepted that does
not fit; `LineInRoom` is stated for lines that do.

### LzmaDecode
The stub is built with `_LZMA_IN_CB`. The first part is the range decoder, with the
width of range, code and probabilities as constants and the relations the C code has
between them; the second takes a stream of packets, as an encoder may send them,
through the states, the four distances and the copy loop, with a distance that wraps
to 0 as the end mark.

## 3. Runs

| Run | Instance | States | Shows |
|---|---|---|---|
| `flock_safety` | two places, two invocations each, six command lines that cover every option and mode, kills | 1 293 287 | `MutualExclusion`, `SuccessMeansRan` |
| `flock_live` | two places, one invocation each, a file system that needs a writable descriptor | 11 425 | `InvocationsEnd` if commands end; `BlockedWaitIsLimited` even if they never do |
| `flock_lost_alarm` | as above, ordinary file system | - | **violated**: an alarm between `setitimer()` and `flock()` is lost and `-w` waits for ever |
| `menu_conditions` | conditions of three operands over two tristates and a bool; menus of three entries; Config.in files of four entries; 268 dependency graphs of two options and a choice of two values; a tree of fourteen entries for conf and xconfig | 411 199 | `RewritesKeepValue`, `ConditionsKept`, `NestedSeenWithParent`, `BuiltAsWritten`, `RecursionFound`, `AllAsked`, `ListsCurrent`, `FrontEndsAgree` |
| `conf_packages` | `BASE`, `LIB`, `APP` and a bool choice; a select against a dependency, defaults | 1 121 914 | `DependenciesMet`, `SelectsObeyed`, `AnswersStick`, `DefconfigKeeps` |
| `conf_choice` | a tristate choice, its prompt and values depending on `HW`, an entry below one of its values, a bool choice that needs the entry; contradictory files | 460 554 | `OneChosen`, `InSync`, `CacheCoherent` |
| `conf_out_of_sync` | a symbol y by default and asked about only up to m | - | **violated** `InSync`: the file just saved fails the sync check |
| `menuconfig` | lists of five items in windows of one to four rows, fields of three cells, texts of six characters, two files, two writers, three settings, two symbols | 382 980 | `RowsShowItems`, `ReopensInPlace`, `TextShown`, `TitlesArePath`, `QuietExitKeeps`, `ValuesKept`, `SavesAtOnce`, `Rebuilds` |
| `download_verified` | one run at a time, six mirrors, three kills | 1 236 | `Verified`, `KeepsWhole` |
| `download_race` | two runs for one file | - | **violated** `Verified`: a `.dl` is rewritten between check and move |
| `staging` | two packages sharing a directory, two versions, a link, two kills; one package of two files over three seconds with two changes and one interrupt | 5 217 035 | `StampMeansStaged`, `NothingUnlisted`, `NoMkdirClash`, `BuiltFromFiles` |
| `image_tools` | all acyclic relations on four modules; images of up to 20 bytes and four block sizes; programs of up to two segments; CRCs of six bits; kernel images of eight bytes with room for three; coders of three digits; six packets | 1 034 156 | `DepsFirst`, `MarkAtBoundary`, `SameImage`, `SignedOnce`, `LineInRoom`, `RangeSound`, `DecodesAsSent` |

The three violations are disagreements between the code and what the repository
says of it; `findings` in `PROJECT.json` quotes both sides. `InSync` holds in
`conf_choice` because no symbol there has a default above its prompt's visibility.
Two more limits of properties that hold: `NestedSeenWithParent` is stated for
assignments without m, since `expr_trans_compare` turns `!T != n` into `T = n`,
which differs at m; and `AnswersStick` speaks of menus without tristate choices.
In one, an accepted y of a bool value is lost while the choice is at m
(`symbol.c:234`), and with one operation more than the run has even an accepted
answer to the choice is: answered y, then one of its values answered while
another is not, and saved twice, it is computed anew, because `symbol.c:318` drops
`SYMBOL_DEF_USER`.

`RowsShowItems`, `SavesAtOnce` and the other properties of extended modules are
checked for every behaviour of the run; where the part is another one, their
variables stand still.

### Bounds and why they are enough
* `MaxRuns` 2 in `flock_safety`: a second invocation meets the leftovers of the
  first (a surviving command, a lock held by a shell). Exclusion is a matter of two
  descriptions; the theorems cover any number.
* `MaxOps` 3 in `conf_packages`: two answers and a save, or an answer, a save and
  another answer, in each interactive run; 2 in `conf_choice`, whose menu is there for
  what a pass of `conf_set_all_new_symbols()` does with two choices, one of them tristate
  and needed by the other through an entry in it. Runs follow one another without bound, the file carrying
  the state over.
* `MaxLeaves` 3: a rule of `expr_join_and`/`expr_join_or` looks at two operands;
  the third gives it a neighbour of the same or the other kind.
* Three menu entries: one to absorb, one to be absorbed, one to be absorbed by
  the second or left by the first. Four written entries: a block, its content, a
  block in it and what follows.
* `Depth` 7 is the longest chain of dependencies in the tree; `MaxSteps` 4 in
  xconfig: an item appears, is changed, disappears and appears again.
* Five items in one to four rows: items above, in and below the window, and
  windows too small for the margins the scrolling keeps. Texts of six characters
  over pages of one to three lines: more than two pages, with every mix of empty
  lines. `MaxDepth` 4 in `Mconf`: a menu, a search from it, a jump, and a dialog.
* `MaxSteps` 5 in `SymString`: load, move a bound, answer, save, load again.
* Two writers, two configurations: a rename of one between any two calls of the
  other. Two symbols in `AutoConf`: one touched, one not yet; calls and failures
  are not bounded.
* `Size` 2 blocks: the shortest archive with a proper, non-empty part. `MaxKills`
  3 in `download_verified`: debris of a killed run, on top of debris.
* Two packages and one shared directory in `staging`: the lock and the removal of
  directories relate packages pairwise. `MaxKills` 2: one in each package.
* `MaxTime` 2, `MaxChanges` 2 in `Stamps`: before, in and after the second of a
  stamp; a change and its undoing. Two files of the package, each there at first or
  not: a list that grows and shrinks again, around the interrupt.
* Four modules: a diamond and a chain of four. Block sizes from 2 to 16 with marks
  of one byte: boundaries that coincide and boundaries that do not. Widths in
  `ZyImage` and `LzmaDecode` are scaled down with the ratios kept (bytes in a word,
  probability bits against range bits). `MaxSent` 6: each of the four distances
  is moved to the front once.

Deadlock is checked except where the system ends by itself: flock after its
invocations, and the runs whose parts are programs that end (`menu_conditions`,
`menuconfig`, `image_tools`).

### Fairness
`FlockFairSpec` is weak fairness of each flock process's own steps and of its
alarm: a runnable process is scheduled and a running timer fires. Commands and
shells get none; where a property needs them to end, `CommandsEnd` is its
hypothesis. `mdeps.pl` has weak fairness of its steps: a sequential script runs on.
So does `conf` in `AllAsked`, whose user answers every question with something it
accepts. `Download` has none: `curl` is given no limit for a stalled transfer
(`download.pl:83`), so nothing is claimed about its end.

## 4. Theorems

TLAPS proves these for every value of the constants that satisfies the named
assumptions.

**FlockProofs**: `Typing`, `Exclusion`, `SuccessIsReal`, `CloseWorks`, for any set
of places, command lines, statuses and bound. Mutual exclusion is not inductive:
it does not say whose description the lock belongs to that a user relies on.
`IInv` adds `Owned`, which ties the program counter, the child and the shell to the
references and the lock of the description, and `LocksAgree`, the kernel's rule.
`StepIInv` has one step per action; `Exit` is a lemma of its own because many
actions end with it.

**KconfigProofs**, about `DefSpec`, the specification of the runs: `Typing`,
`Dependencies`, `Selects` and `Choosing` from the inductive invariant
`TypeOK /\ Closed /\ SelectsObeyed /\ Chosen /\ EarlyFits` and, with `ValuesOnly`,
`DependenciesMet`. `EarlyFits` says that only an entry inside a tristate choice that is
no value of it has read it too early. `Closed` says that
whatever a valid symbol was computed from is still valid, and is what makes a
computed value immune to later computations (`CalcFrame`, `ExprFrame`); `Chosen`
says that a valid choice at y has selected a value that can be seen and that of its
values computed since then that one alone is on; it needs no condition on the menu,
since a value of a choice never reads it early. `NewValBounds` is the arithmetic of
`sym_calc_value()`: not above the dependency, not below the select.

`Dependencies` and four more need a condition on the menu, which is a hypothesis of
the theorem and not an assumption, since Config.in files without it exist
(`conf_out_of_sync` is one). `DefaultsShown`: no default is above what the prompt lets
the user answer. `ValuesShown`: a choice that is on has a value to show.
`ValuesOnly`: the block of a tristate choice holds nothing but its values, so that
nothing reads it early (`View`). `BoolChoices`: no choice is tristate.

* `Coherence == DefaultsShown /\ ValuesShown /\ ValuesOnly => ...CacheCoherent`. What a symbol would be computed to
  depends on user values that an answer to another symbol may change; the invariant
  `Cached` says that a valid value is the one its own fields give (`Val`, for each
  of the ways `sym_calc_value()` goes) and that a valid symbol's visibility is
  up to date (`Seen`); m is the value of tristate symbols only (`Modular`). For
  choices `Held` says the same: a choice without an answer has a value that answering
  it would only repeat (`ChoiceRepeated`), which is why being computed twice in a pass of
  `conf_set_all_new_symbols()` does not change it (`StoreHeld`).
* `Answers == DefaultsShown /\ BoolChoices => ...AnswersStick`. `Stuck` follows the last
  accepted answer: as long as its symbol is not valid, the user value and everything
  it is bounded by are what they were, through the symbols it depends on
  (`Below`, the reason why `AcyclicAssumption` is about the transitive
  dependencies); `Picked` keeps the user's value of a choice visible.
* `Syncs == DefaultsShown /\ ValuesShown /\ ValuesOnly => ...InSync`. `ByTool` says of a `.config` that
  a tool wrote that it is what some computation wrote (`Computes`); `Synced`
  says that a sync run that has read it computes that very configuration again
  (`SyncWith`), symbol by symbol, so that each line it writes is the line it read.
  `Marked` and `AllMarked` say that a file is written with all symbols computed.
* `Minimizes == DefaultsShown /\ BoolChoices => ...DefconfigKeeps`. `Recalc` gives what a
  symbol comes to from the answers alone; values that agree with it everywhere are
  `Fixed`, and computing them again, in any order and after clearing the cache, changes
  nothing (`CalcFixed`). `MiniOf` says what the minimal file has to hold of such values:
  a symbol without a line is what its defaults make it, or cannot be changed
  (`PlainMini`), and a choice without one takes its value anyway (`ChoiceMini`). From
  that file `conf_read()` and `conf_set_all_new_symbols(def_default)` make answers that
  fix the same values (`ReadFixed`), and `conf_write()` prints the same lines
  (`OutputPrinted`). The marks count too: a choice value marked by an earlier
  computation keeps its line when it is hidden later. `Clean` and `Loaded` say that a
  session without answers has no such marks.

Assumptions: `StructureAssumption` (types of the menu; distinct places),
`ExprAssumption` (an expression has a tristate value that depends on what it
mentions), `AcyclicAssumption` (`sym_check_deps()` reports recursion; see
`RecursionIsFound`), `FinalizedAssumption` (`menu_finalize()` puts `depends on` into
every property; checked on small menus by `ConditionsKept`), `ChoiceAssumption`
(what `menu_finalize()` does for choices, `menu.c:283-445`: a choice that is seen is
selected to m at least, and its values are seen as far as it is on),
`ReadersAssumption` (what reads a choice reads it in its prompt, as the entries of
its block do; no choice is in the block of another, which `zconf.y` would allow inside
an `if` and no Config.in of the SDK has),
`ChoiceValueAssumption` (`menu.c` warns that defaults of choice values are not
supported; with one, a value of a choice could be on beside the chosen one),
`FilesAssumption`, `OpsAssumption`. TLC evaluates all of them on the instances of
the runs, and `PlainMenus` of `MCConf` says which of the conditions each instance
meets: `conf_packages` all, `conf_choice` neither `BoolChoices` nor `ValuesOnly`, so
that its properties hold there beyond what the theorems say, and `conf_out_of_sync`
is a menu without `DefaultsShown`.

**StagingProofs**: `Typing`, `Staged`, `AllListed`, `NoClash`, for any packages,
contents, shared directories and kills, from `StagingAssumption` (each file has one
owner; builds install their own files). `IInv` adds, per package, `Holding` (list
and copy hold the lock, so a directory found missing is missing still), `Listed`
(lists and what is yet to be visited name files of the package; regular files are
listed, and gone by the time the list is replaced) and `Copied` (no stamp while a
recipe runs; what a copy without failure has visited is there). Nothing is assumed
about what `clean-package.sh` of another package removes meanwhile: it can make a
copy fail, but then there is no stamp.

`Rebuilt`, in the same module: `BuiltFromFiles` of `Stamps` for any files, settings
and number of changes, makes and interrupts. `StampInv` has a conjunct for each
thing a stamp vouches for: `Unpacked`, `SetUp` and `Compiled` for what a stamp and
the tree have in common as long as the history shows no race and no removal that
was broken off, `EditsSeen` and
`Fresh` for the times (nothing is newer than the newest file make knows of),
`Read` and `Looked` for what the running make found, `Emptied` for a tree that was
wiped, and `Current` for a `.built` that make has decided to trust.

**DownloadProofs**: `VerifiedAlone`, `KeptAlone`, for any mirrors, caches, sizes and
kills, under the hypothesis that there is one job (`Job = {j}`); with two the first
is false, as `download_race` shows. `IInv` follows the bytes: while a transfer runs
`.dl` holds exactly the blocks delivered, at the comparison `.hash` was computed from
what is in `.dl`, from then on `.dl` is the archive, and the final name is free
while the job is between two turns of its loop.

**ConfFileProofs**: `ConfWriteSavesAtOnce`, the refinement: for any writers and
configurations every step of `conf_write()` is a step of `ConfStore` or changes
nothing of it. `IInv` adds to the types that a temporary file a writer has closed
holds what it was given, unless a write has failed.

`AutoConfRebuilds` and `AutoConfIsBuilt`, in the same module, for any symbols.
`Rebuilds` alone is not inductive: `AutoInv` adds that no symbol without a mark was
compiled with another value than `auto.conf` has (`BuiltAsAuto`), that while a call
runs the symbols it has passed are marked if they differ (`ChangesMarked`), and
that the renames so far are of this call's files in their order
(`RenamedInOrder`).

`ExitKeeps`, also there: `QuietExitKeeps` of `Mconf` for any file names and values,
from `SessionAssumption` (the default and `.config` are among them). The property
speaks of the end; `Noticed` says the same of every state without an uncounted
change, whatever functions wait on the stack: the file a save would go to has what
is in memory unless a change was counted. The stack and the titles do not matter
(`TitlesDoNotMatter`).

`TitlesFollow`, also there: `TitlesArePath` of `Mconf`, for every nesting of menus,
choices, prompts, loads, saves and searches. The code adds a title when a menu or a
search result opens and cuts the list at that function's own end. `Nested` says how
calls wait for one another (only menus and results call others; the handler of SIGINT
may come on top of any), and `Trails` gives each call the titles there were when it
began, so that what is cut off in any order of returns leaves the path.

**SymCheckProofs**: `RecursionIsFound` (`RecursionFound` of `SymCheck`), for any
symbols, choices and dependencies that `ScanAssumption` allows and every order in
which `conf_parse()` and the expressions bring them up. `ScanInv` has these parts.

* `Structured`: which call may stand on which, and that no group is checked twice at
  once; `MarksFit`: `SYMBOL_CHECK` is what the stack says it is, and `SYMBOL_CHECKED`
  the same for a choice and its values.
* `Loops`: what was printed leads from each symbol to the next and back, and there is a
  loop of groups. The printer starts at the last entry of the symbol, or of its choice;
  from there up each frame needs what the next one checks (`StackLoops`).
* `Progress`, until something is printed: the groups that are checked and off the stack
  need nothing else (`Closed`) and have no loop (`LoopFree`), and what the frames on the
  stack have passed is among them (`LooksDone`, `ChoicesDone`). A group that joins them
  needs only those that are there (`DoneGrows`), which is why no loop can close. The
  delicate case is a dependency on a choice that is being checked and whose own mark is
  cleared: the dependency on one of its values, which `ScanAssumption` promises, is still
  to come, and its mark is set.

**BoxProofs**: the windows of menuconfig for lists, windows, texts and fields of
every size; each key changes the rows incrementally, and the theorems say that the
result is what a complete redraw would give.

* `RowsShow` is `RowsShowItems` of `MenuBox`, from `MenuAssumption` (windows have a
  row). `MenuInv` holds between two keys: `Window` (scroll and choice within the
  list), `Lines` (each row has its item, the highlight in its place) and `Frame`
  (the arrows). A page key runs a loop; that a whole run of it keeps what one line
  does (`LoopRuns`) is shown by taking the first line that does not. `MenuComesBack`
  is `MenuReopens`, an action property: `WasLeft` keeps what the position saved by the
  last return was worth.
* `ChoiceShows` is `ChosenIsShown` of `CheckList`. The arrow below is not brought up to
  date when the highlight moves; `ListFrame` is the part of it that stays right.
* `FieldShows` and `ButtonLit` are `FieldShowsText` and `ActiveIsLit` of `InputBox`. A
  redraw blanks a single cell after the text; `BeyondIsBlank` is why that is enough,
  whatever was deleted and scrolled: the end of the text moves left by at most a cell.

* `PagesFound`, `PagesKept` and `KeysLeadOn` are `PageFound`, `PageKept` and `KeysJump` of
  `TextBox`. The pager keeps a single offset, past the page it has printed, and finds the
  page again by going back. A line has a number (`Rank`); the end counts as one more once
  it was printed, since `back_lines()` spends a round on it (`Spot`). `LinesAhead` and
  `LinesBehind` say that `get_line()` and `back_lines()` add and subtract, up to the end
  and down to 0. `PagerInv` (`Printed`, and `Left` between two openings of a search) then
  says where `page` is relative to what is shown. `update_text()` may move a page of search
  results up; it does so once at most (`Fits`), which is why `PageKept` holds. Two keys on a
  page differ because fewer than `JUMP_NB` lines are between them (`KeysApart`).

* `TextLaidOut` is `WordsApart` and `TrailEnds` of `Dialogs`. `WrapInv` counts the cells
  of the window: the place of the next word, and that of the line below, are past the
  last word (`Behindhand`), also where a word went on in the next line. `TrailInv`: what
  is drawn is what was put, but for the characters that were skipped, a character or a
  title at a time (`MorePrinted`).

`DialogsShow` (`TextShown`) and `DialogsComeBack` (`ReopensInPlace`) collect these for
`BoxesSpec`, the conjunction of the five specifications: no box shares a variable with
another, and so any interleaving of their steps is covered; the run lets one box work at
a time. The sizes are hypotheses (`ListSizes`, `InputSizes`, `PagerSizes`, `DrawSizes`: a row, a cell
and a character at least, titles and words of any length).

**ToolsProofs**: `MarksAreFound` (`MarkAtBoundary` of `PadImage`), `ProgramIsLoaded`
(`SameImage` of `Sstrip`), `CmdlineStaysInRoom` (`LineInRoom` of `PatchCmdline`),
`SignsOnce` (`SignedOnce` of `ZyImage`), `RangeIsSound` and `DecodesRight` (`RangeSound`
and `DecodesAsSent` of `LzmaDecode`), and `LoadsInOrder` of `Mdeps`.

* `PadInv`: every block size that is left has its first boundary at or after the one
  reached (`Reached`), so that no mark and no filling runs over it; those that were
  dropped have their mark, or will get it now. `PadAssumption`: sizes are powers of
  two, so that each divides the larger, and a mark is shorter than a block.
* `StripInv` follows the file from the headers as read to the last write: nothing
  that is loaded lies past `newsize` (`PastSize`), before the file is cut and after.
  `SstripAssumption`: sizes are natural numbers.
* `CmdlineInv`: outside the room the file is as it was built. `CmdlineAssumption`: the
  marker is shorter than the room it begins.
* `RangeInv`: the code is inside the range and every probability strictly between 0
  and 1; `RangeAssumption` has the relations of the C constants
  (`kBitModelTotal` at most `kTopValue`, and so on).

* `ZyInv`: the file has at most one signature, whose sum is that of the image. Words
  are sets of bits and `^` is the symmetric difference, so that a turn of the loop is
  linear (`ShiftXor`); eight of them on a byte (`TurnedXor`, `TurnedHigh`) then come to
  one look into the table (`ByteAtOnce`), for any width and polynomial, and byte by
  byte the two sums are the same (`CrcIs`).
* `LzmaInv`: until an error stops the decoder, what is written, the four distances and the
  state are those of the packets read (`Decoded`), cut at the size in the header.
  `DistanceIs` says that slot and low bits of a distance give it back; `CopyKeeps` that
  bytes copied one at a time, from what the match itself has just written if it
  overlaps, are what the packet means. `LzmaAssumption`: lengths of matches are positive.
* `OrderInv`: every module is in the order or waits, although `splice` closes up the list
  that is being walked, and what is in the order comes after all it depends on. Hence the
  order is right when nothing waits; and since no modules need one another in a circle,
  some module is ready as long as any waits, so that no pass is in vain. `NamesApart`, the
  hypothesis, is what `grep(/$dep/)` takes for granted. That the passes come to an end is
  `DepsFirst`, which needs fairness and stays with TLC.

Induction over the natural numbers is available to the proofs through the
well-foundedness of `<` (`MinIn` in `BoxProofs`), and so are recursive functions.
Out of reach, and only model-checked:

* liveness (`InvocationsEnd`, `BlockedWaitIsLimited`, `DepsFirst`, `AllAsked`): fairness
  and `ENABLED`;
* what is computed by RECURSIVE operators over trees and texts, for which the SMT
  backend is not available: `RewritesKeepValue`, `ConditionsKept`,
  `NestedSeenWithParent`, `BuiltAsWritten`, `ListsCurrent`, `FrontEndsAgree`,
  `ValuesKept`.

## 5. Not modelled
* The lexer and the grammar of Config.in files but for conditions and the building
  of the tree; help texts, printing of help and warnings (`menu.c:584-697`,
  `qconf.cc:1008-1311`): text without state.
* `expr_parse_string` (numbers are compared as spelled in `KconfigExpr`).
* `elf.h`, `pppd.h` and the other headers: declarations and constants, a third of
  the repository's C lines. `print.c`, `printf.c` and `uart16550.c` are not linked
  into the stub. `images.c` is pixel data.
* Layout, columns, icons and stored settings of xconfig; colours and borders of
  `lxdialog`.
* Version-control downloads, `DL_FILE`, the choice of curl or wget: external
  commands in sequence.
* Feeds, environments, image recipes, package archives, the toolchain wrapper, the
  bundling of libraries, `metadata.pl`: sequential text processing; see
  `components` in `PROJECT.json` for each.

## 6. Plan
Done: everything under Modules, and the theorems above.

Left, in this order:
1. `set_all_choice_values()` symbol by symbol, and randomised answers.
2. The dependency translation of `metadata.pl`, against the configurations that
   `Kconfig` allows.
3. An abstract critical section, implemented by `Flock` for `locked` recipes and
   used by `Staging`.
