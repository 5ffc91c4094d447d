# A TLA+ model of 64DOS

64DOS is a small operating system that boots from a 1.44 MB floppy, switches an
x86-64 processor to long mode and gives its user a DOS-like command line over VGA
text and COM1. This directory models its parts in TLA+, checks them with TLC on small
instances, and proves the central invariants with TLAPS for every instance.

## The system

| Part | Source | State it keeps | Operations |
|---|---|---|---|
| Command interpreter, batch files | `kernel/kernel.c` 1197-1351 | `script_depth`, `script_buffers[3]`, C stack | `execute_command`, `run_script_file`, `run_autoexec`, the loop of `kmain` |
| RXE executables | `kernel.c` 1166-1195 | `file_buffer` | `run_rxe_file` |
| Runtime scripts | `kernel.c` 914-1074 | `runtime_vars[16]`, `runtime_var_count`, `file_buffer` | `cmd_script`: SET, ADD, SUB, MUL, DIV, PRINT, RUN |
| FAT12 driver | `kernel/fs_fat12.c` | the mounted volume `fs`, a directory cursor | mount, read_file, stat, list_root, get_info |
| Image builder | `scripts/mkfloppy.py` | FAT, root directory, image under construction | `build_image` and its helpers |
| Image validator | `scripts/validate-image.py` | none | checks of a finished image |
| File names | `mkfloppy.py` 31-44, `fs_fat12.c` 29-69 | none | `dos_name`, `make_83`, `entry_name` |
| RFS table | `kernel.c` 395-486 | compiled-in files, blobs, refs | `fs_read_file`, object paths, `RFSREFS` |
| Console output | `kernel.c` 184-284 | cursor, VGA cells | `console_putc`, `vga_scroll`, `vga_clear`, serial mirror |
| Console input | `kernel.c` 316-392, 903-912 | `shift`, `line_buffer` | `read_char`, `read_line`, `cmd_pause` |
| Boot loader | `boot/stage1.asm`, `boot/stage2.asm`, `kernel/entry.asm` | bounce buffer, mode of the processor, boot info | load the image, check the manifest, copy the kernel, enter long mode |
| Clock | `kernel.c` 774-846 | none of its own; the chip's registers | `rtc_read`, DATE, TIME |
| Repository commands | `kernel.c` 488-590 | package flags, an eight-entry log of pointers | PKG, VCS |
| Text helpers | `kernel.c` 64-182, 286-314, 715-755, 920-946 | none | lines, words, comments, numbers |
| Settings, information | `kernel.c` | `vga_color`, `prompt_text` | COLOR, PROMPT, VER, HELP, MEM, INFO, BEEP |

How they interact. The builder and the kernel share nothing but the bytes of the
image. The boot loader puts the image in RAM; `kmain` mounts it and never writes it.
All interpreters call `execute_command`, and `execute_command` calls them: they share
`file_buffer`, `script_buffers`, `script_depth` and `runtime_vars` at whatever depth.
Everything prints through `console_putc`; only `read_line` and `cmd_pause` read.

What is hard. The kernel is one thread with interrupts off, so nothing runs at the
same time inside it; what interleaves is recursion, and what is at risk is state that a
caller uses again after the call (the buffers, the variable table, `script_depth`).
Host, user and keyboard act at any time, and the kernel looks only when it reads. The
clock ticks while its registers are read, a drive may fail, and a BIOS call may leave the
processor in another mode. RAM outlives a reset. The builder and the driver were written
apart, in two languages, and must agree on layout, twelve-bit packing, chains and names. Most loops have a bound: depth 3, 16 variables,
8191 bytes, 128 characters, one screen, one floppy.

What makes each part correct:

- interpreters: each program executes its own lines, in order, each once; a caller goes
  on after the call; `script_depth` is the number of batch files running; the prompt
  comes back.
- variables: SET reads back, no name twice, no entry past the sixteenth.
- builder: every file keeps its own chain; the manifest names the kernel's sectors;
  what cannot fit raises.
- driver: reads return what the builder was given, follow whatever chain there is,
  report what is cut, and end.
- names: what the builder stores the driver finds, under every usual spelling.
- console: the screen is the text printed, in the colour set last, the terminal on COM1
  is the screen, what is echoed is what is executed, shift is not stuck.
- boot loader: what runs is the kernel of the floppy in the drive, over its whole image;
  a good floppy is stopped by the drive alone; every boot ends.
- clock: a reading is of one moment and is shown as it is; the wait for it ends.
- repository: VCS LOG lists every commit, the newest first, each with its own text.
- text: each part of the code that takes a line, a word, a name or a number takes the same.

## The modules

| Module | What it is |
|---|---|
| `RuntimeVars` | the variable table and `int32_t` arithmetic, as operators |
| `Shell` | the interpreters: one action per loop turn, per command and per return |
| `Programs` | abstract: programs nest like procedure calls, without buffers |
| `MCShell` | file languages, images and user lines for TLC |
| `ShellProofs` | the inductive invariant of `Shell` and its theorems |
| `FatTable` | twelve-bit entries: `set_fat12_entry` (Python) and `fat_next` (C) |
| `DosNames` | the three name conversions |
| `FormatProofs` | what builder and driver share: FAT entries and names of any size |
| `Text` | lines, words, comments, numbers and RFS paths |
| `Typing`, `MCText` | a machine that types every string on its keyboards; five keyboards for TLC |
| `TextProofs` | names, numbers, words and lines, for strings of any length |
| `ImageBuilder` | `build_image`, one action per turn of its loops |
| `Fat12`, `MCFat12` | the driver, one action per turn of its loops; images the builder would not write |
| `FileStore` | abstract: a read is answered once, with the first bytes of the named file |
| `Fat12Proofs` | the invariants of a read, for every image |
| `Floppy`, `MCFloppy` | builder, validator and driver on one image |
| `FloppyProofs` | the inductive invariants of the builder and of builder and driver together, and their theorems |
| `Console`, `MCConsole` | screen, COM1, keyboard, line editor |
| `ConsoleProofs` | the inductive invariant of `Console` and its theorems |
| `Boot`, `MCBoot` | stage 1, stage 2 and the start of the kernel, over several boots |
| `BootProofs` | the inductive invariant of `Boot` and its theorems |
| `Clock` | `rtc_read`, DATE and TIME against a clock that goes on |
| `Repo` | PKG, VCS and PROMPT, and where their texts lie |
| `Commands`, `MCCommands` | the commands of `Clock` and `Repo` at one prompt |
| `CommandsProofs` | their two inductive invariants and the theorems |

### Shell

`stack` is the part of the C stack that belongs to the interpreters: one record per
activation of `run_script_file`, `run_rxe_file` or `cmd_script`, with its loop index
(`pos`), the length read (`len`) and the slot of `script_buffers`. An action takes one
line from the innermost activation (`BatchLine`, `RxeLine`, `ScriptLine`) and executes
it whole; if the line starts an interpreter, the action ends with that interpreter's
load and a new activation. `Return` is the end of a loop, with `script_depth--` for a
batch. `Restart` is the reset of REBOOT or of a trap: `entry.asm` clears `.bss`.

A buffer is an array of cells, each the length of one line with its terminator; lines
are sequences of words in upper case, as `str_icmp` compares them. A load copies as many
cells as fit and leaves the rest alone, as `read_file` does, so a later load can
uncover old lines. The chain of a file in `Damaged` ends before its size in the root entry
does: a read that asks for more fails when it gets there, the command is refused, and what
had been copied stays in the buffer. The zero that an interpreter writes behind what it has
read is the end of the last cell. In the code it can also fall on the first byte of an
uncovered line, when the file read ends with a line end; only a program that reads on past its
own length would see that, and none does but a script whose buffer was filled anew
(`shell_script_lines`). Words that begin with `:` or `#` are one word each. Commands that
touch none of this state are one action, `Other`. `current` and `answer` are what the
console shows of the last command.

Two outcomes are not in the C text. The kernel stack is 16384 bytes and is not guarded:
an activation that does not fit ends the model in `machine = "overflow"`, and nothing is
said about the time after it. `INT32_MIN / -1` executes `idiv` and raises #DE; the kernel
loads no interrupt table, so the processor resets. Signed overflow of ADD, SUB and MUL is
undefined in C and wraps in the build.

### Floppy

The image is a function from offsets to bytes. The boot sector's parameter block, the
manifest and the root directory are kept beside it as records; FAT and file data are
bytes. `ImageBuilder` follows `build_image`: a file is begun (its clusters fit, or the
builder raises), its chain is written cluster by cluster, its bytes are copied, its root
entry is written. `Fat12` follows the driver: `OpenFile`, a `ReadCluster` per turn of the
loop with its break, `EndRead` with the return value, `ListRoot` per call of cmd_dir.
`Floppy` lets the driver have the image once it is written. `Validates` is what
`validate-image.py` tests. Names are scaled from 8.3 to 2.1 characters; the conversions
look at every character. Upper case is one function for Python's `str.upper` and the ASCII
`upper` of the kernel: characters on which the two differ are outside the model. Attributes are
numbers whose bits are tested, and an erased entry is one whose name begins with a
character no name is made of (`Erased`). Subdirectories, which the builder skips, and the wrap of the
mount's `uint32_t` sums, which no image with this parameter block reaches, are left out.

### Console

`console_putc` is one action per character; `pending` is the rest of what a command
prints. The line editor, `cmd_pause` and the two sources of `read_char` are separate
actions, and host and keyboard act between any two. What a line means is left open. A
history variable `text` holds what was printed, line by line, cut to what can be on
the screen; the screen is compared with a layout of it. `term` is a terminal of the
same size on COM1. CLS, COLOR and BEEP part screen and terminal: the first two clear
only the screen, and a bell takes a cell of the screen and none of the terminal.

Each screen holds an attribute for every cell beside its character, and the one COLOR has
set. `Clears` is vga_clear, which CLS and COLOR share.

### Boot

RAM is a function from addresses to sectors: what lies at each is a sector of a floppy, or junk.
A boot is a sequence of actions in the order of the assembly: stage 1 loads stage 2, which
reads the manifest's extent sector by sector through the bounce buffer (`ReadSector`,
`CopySector`), checks the first bytes of the kernel twice, copies it, writes the boot
information and jumps (`EnterKernel`); `Kmain` checks what it is handed and mounts. A read
may fail, a BIOS call may leave unreal mode, and line 20 may stay masked: each is a
choice in the action where the code meets it. `Reset` starts again with the RAM as it is and
any floppy in the drive. The first bytes that stage 2 compares are a property of the
sector (`FirstByte`), because two kernels begin alike. Page tables, the
switch to long mode and the BIOS data area are left out: no property sees them. So is the
"Unreal mode error" of `verify_unreal_mode`: it comes straight after `enter_unreal_mode`, and
its probe at 0x280000 is RAM on every machine considered (`LayoutAssumption` puts the kernel
above it), lies between image and kernel, and has bit 20 clear, so that it reads back what
it wrote with line 20 open or masked. That interrupts between the `sti` of
`enter_unreal_mode` and the next BIOS call keep the mode is an assumption, made where
`AfterBios` is defined.

### Text

Operators over sequences of characters; each loop of the code is a recursive function of its
index over the loop's own variables. `Text` extends `DosNames`; `Typing` types
a string, one character per step, and its invariants ask of every string what its several
readers make of it. Sizes are scaled: lines of three characters, integers of eight bits, two hex
digits, names of 3.1 characters, a drive named `R:`. A character is what the code tells
apart: a letter in two cases, a digit, a blank, a line end, a separator.

### Clock, Repo and Commands

`Clock` splits rtc_read where the hardware can act: a poll of register A, then one action
per register, then register B, the conversion and the print. The chip goes around idle,
due (its update flag is up) and updating; while the flag is up, at least `Lead` accesses
pass before the update. The datasheet of the MC146818 gives 244 microseconds, and rtc_read
needs seven accesses of about two port operations each, with interrupts off; `Lead >= 6` is
the assumption the code rests on. During an update a register gives its old or its new
value. Register B is whatever the firmware left: all four settings are initial states.

`Repo` keeps texts at places in memory, since `vcs_log` holds pointers: the buffer the
line is in, the constant of the first commit, the slots of `vcs_msgs`, `prompt_text`. Any
command reads a line into the same buffer. `Log` is the loop of VCS LOG: `listed` is what it
prints, from the last entry down, each text read where its pointer leads at that moment. STATUS
and LIST only print, and `vcs_dirty` is never set, so STATUS always says that the tree is clean; RFSREFS prints two
constants, which no commit moves.

`Commands` lets one command run at a time, while the clock goes on.

## The runs

Passing runs. Together they fire every action and every disjunct.

| Run | Bounds | What it shows |
|---|---|---|
| `shell` | five families of floppies: AUTOEXEC.BAT and B.BAT of up to two lines over seven commands; scripts of up to three lines over seven instructions with a batch of up to two; scripts of up to three lines over twelve arithmetic instructions, two variables, two-bit integers; files past their buffers; a file whose chain ends before it does, run, shown and called as a script. Depth 3, five frames of stack | each depth keeps its lines, `script_depth` counts batches, the order is that of `Programs`, the prompt returns, SET reads back (an action property: of the table before and after one line), names are unique |
| `text` | every string of up to five characters on five keyboards of five to seven characters | names, lines, words, comments, numbers and RFS paths mean the same to all who take them |
| `floppy_build` | five clusters of two bytes, a kernel and up to two files of 0 to 4 bytes | chains, manifest, validator, listing, and the refinement of `FileStore` |
| `fat12_images` | every FAT of three clusters, one or two sectors each, sizes 0 to 5 | damaged chains: the driver follows them, reports what is cut, and always ends |
| `boot` | an image of five sectors, three good floppies and seven damaged ones, three boots, any read failing, any BIOS call leaving unreal mode | the kernel that runs is the floppy's, over its whole image; good floppies are stopped by the drive alone; every boot ends |
| `commands` | four moments at midnight and noon that differ in every register, four settings, a lead of six accesses; a log of three, two texts of which one is cut | no torn reading, right times, VCS LOG and the prompt show the texts they were given, the wait ends |
| `console` | two rows, three columns, two colours, four bytes of line buffer, one character that is the same with shift, a byte and a code waiting | screen = text in one colour, terminal = screen, echo = line, shift |

Why the bounds are enough. Depth 3 is the program's own bound, and two files suffice for
every pattern of calls between equal and different files. Two cells of buffer
distinguish a line that is kept from one that is replaced, and a file of three lines is
one that does not fit. A two-bit integer has its overflow, its trap and its zero. Three
clusters make a chain with both parities, a circle and a meeting of chains; five clusters
let a disk be exactly full and one too full. A screen of two rows wraps and scrolls in
one step, and with prompt and three characters a line crosses its rows. One character is
enough: no property depends on which one a key gives. Buffers of one byte and one code
are the smallest that can lose something; a kernel that is busy loses all the rest. Three
boots are two resets, so that RAM can hold what one boot left when another floppy is in the
drive, and again. Five characters reach a line that is cut between two others, a number one past
the largest, and a name with a prefix and an extension. A lead of six is the least that the
code survives: with five TLC finds a torn reading. A log of three is filled by two commits.

Runs that end in a counterexample, each a disagreement between the code and what the
repository says:

| Run | What it shows |
|---|---|
| `shell_script_lines` | after `RUN` of a command that reads a file, a script goes on with that file's lines |
| `shell_whole_file` | a batch or script longer than its buffer is run in part, not refused |
| `shell_stack` | a script that RUNs SCRIPT of itself is never refused, and fills the stack |
| `shell_rxe_name` | `RUN DEMO.RXE`, the README's example, is refused |
| `shell_div` | `INT32_MIN / -1` resets the machine instead of aborting the script |

`shell_stack` scales the 16384 bytes of the kernel stack to six activations, twice what
`MAX_SCRIPT_DEPTH` lets batch files take: they alone never fill it, and the message "Batch
nesting too deep" is for them only. README.md:88 lists RUN for scripts without a limit.

Others were met and have no run of their own: `RUN` in a script does not take the name of
an RXE file (README.md:88); TYPE does not take `RFS:` paths (kernel.c:398); `RUN SAMPLE.EXE`
ignores the header HELP RUN speaks of (kernel.c:1090); a variable name of 16 characters or
more is unknown after its SET; a nested SCRIPT empties its caller's variables; CLS and
BEEP are not mirrored to COM1 (README.md:11); with a clock of 12 hours TIME shows noon as 00 and
midnight as 12; VCS COMMIT echoes a message whole that the log keeps cut; README.md:70 calls
the filesystem "not read-only", and kmain prints that it is. The models have this behaviour, and the
properties that touch it say so.

Fairness. `FairSpec` of `Shell` assumes that the processor goes on between two lines
(`WF(Kernel)`): nothing blocks there. The user is not assumed to type or to end a PAUSE.
`MCFat12` assumes the same of the driver's loops (`Working`), `Boot` of the loader, and
`Commands` of the kernel inside rtc_read and of the clock, which are machines of their own; a
command need not be entered. Weak fairness is enough for the wait: after each update at least
one access finds the flag down, because the kernel polls faster than the clock ticks
(`Quiet`). `Floppy`, `Console` and `Text` check safety only. Deadlock is checked where the
system never stops (`console`, `commands`); it is not where an overflowed stack (`shell`), a
failed build, mount or boot, or a string at its bound is an end.

## What is proved

For every value of the constants, from the named assumptions next to them:

- `ShellProofs`: `TypeCorrect`, `BatchFilesKeepTheirLines`, `DepthCountsBatchFiles`,
  `RxeFilesKeepTheirLines`, `NamesStayUnique`, the action property `SetsReadBack`, and
  `ShellImplementsPrograms`. The assumptions are those on
  the constants (sizes are natural numbers, files are sequences of lines of words, any of them
  may be damaged) and
  `RxeInert`: no RXE file compiled into the kernel holds a command that reads a file or
  runs another. That is true of `rfs_demo_rxe` and is what keeps `run_rxe_file` sound; TLC
  evaluates it on the shipped table.
- `BootProofs`: `TypeCorrect`, `ImageIsInPlace`, `KernelIsInPlace`, `GoodFloppiesBoot` and
  `UnrealModeHolds`, for any layout of memory whose areas do not overlap and any set of
  floppies whose kernels lie on them; and `BootsAreBounded`, the safety half of `BootEnds`: each
  step of the loader lowers `StepsLeft`, a natural number that only a reset raises.
- `CommandsProofs`: `ReadingIsNotTorn` for any calendar and any lead of at least six
  accesses, `TimeIsRight` for every date and hour in all settings, `TextsStay` for a log of
  any size (what VCS LOG lists, entry by entry, and the prompt), `TypeCorrect`.
- `ConsoleProofs`: `TypeCorrect`, `ScreenAlwaysShowsText`, `TerminalMirrorsScreen`,
  `ScreenHasOneColor`, `ShiftEnds` and `EchoAlwaysShowsLine`, for a screen of any size, buffers
  of any size and any characters (`ConsoleAssumption`, and `CharAssumption`, which says what the
  set of characters holds). `EchoAlwaysShowsLine` alone rests on `PromptAssumption`: prompt and
  full line leave a row of the screen free (32 + 127 characters, 24 rows of 80), and the prompt
  holds no line end and no Backspace. A prompt that is typed holds none; a PROMPT line in a file
  could set one that does, and then the echo would not be there to see.
- `FormatProofs`: `EntryReadsBack` and `OtherEntriesKept` (what `set_fat12_entry`
  writes is what `fat_next` reads, and no other entry changes, for every size of FAT);
  `HostNamesAreFound` and `TypedNamesAreExact` (`make_83` finds the entries `dos_name` wrote
  and no others, for names of any length). They assume that no character of a name parts
  words or marks an erased entry, and that upper case is upper case of itself (`AllowedAssumption`, `UpperOfAssumption`).
- `FloppyProofs`: of the builder, `BuilderTypeCorrect`, `FileChainsIntact` and
  `KernelFoundByBoot`; of builder and driver together, `FloppyTypeCorrect`,
  `BuiltImagesAccepted`, `DirShowsEveryFile` and the refinement `ReadsBackWhatWasBuilt`. They
  hold for every geometry whose FAT has an entry for each cluster (`GeometryAssumption`,
  `FatCoversData`), any files (`HostAssumption`), reads of any length (`LimitsAssumption`), and
  names of the required files and of the kernel that are 8.3 names (`RequiredAssumption`,
  `KernelNameAssumption`), as those at validate-image.py:108-113 and mkfloppy.py:69 are.
- `Fat12Proofs`: `SuccessMeansAll`, `ReadsFollowChains` and `ReadsStayInside`, for every image of
  any size, chains that circle or leave the FAT included; `ReadsAreBounded` and
  `ListingsAreBounded`, the safety half of `ReadReturns`: each turn of the loop of `read_file`
  leaves fewer bytes to copy and each entry `list_root` returns leaves fewer ahead. They assume only that sizes are
  numbers (`DriverAssumption`, `ImageTypeOK`).
- `TextProofs`: `HostNamesAlwaysFind`, `TypedNamesAlwaysExact`, `LinesAlwaysKept`,
  `WordsAlwaysMatch`, `CountsAlwaysExact` and `PrintsAlwaysReadBack`, for strings of any length on any keyboard whose characters have an
  upper case (`KeyboardAssumption`). The drive of the RFS table is not the letter A
  (`RfsAssumption`; its name is `RFS`), the buffers of `print_dec` and `print_hex32` hold the
  largest number (`WidthAssumption`; 11 and 8 digits for 32 bits), and digits are their own
  upper case (`DigitsAssumption`).

The argument for `Shell`. The safety invariants are not inductive. That `script_depth`
counts the batches says nothing of which slots they use, and without that a new batch
could overwrite a live slot. `Inductive` adds: live batches hold the slots
`0 .. script_depth - 1`, each exactly one, rising with the stack (`SlotsInUse`); every
activation has a loaded file and an index within it (`Loaded`); and an RXE activation is
always the innermost (`RxeOwn`), which with `RxeInert` gives it `file_buffer` for itself.
There is one lemma for each command, one for each loop, and one for each kind of change to
the stack (push of a batch, push of another, progress, pop). `ShellImplementsPrograms`
then maps every step to a step of `Programs` or a stutter.

The argument for `Boot`. `ImageInPlace` speaks of the running kernel only. The invariant
follows the loader: the manifest in memory is that of the floppy in the drive as soon as
stage 1 is past it; while the image is loaded, the sectors below the current one are in
place; the bounce buffer holds the current one between its read and its copy; and unreal
mode is on from the copy to the checks. Old contents of RAM need no case of their own: every
sector the kernel will see is shown to be written in this boot.

The argument for `Commands`. `ShowsOneMoment` is not inductive: an update between two
registers would break it. `InTime` adds that while r registers are still to be read, no
update is in progress, and if the flag has gone up since the poll, at least r accesses are
left before the update. `DecodedIsHeld` is the arithmetic of the registers, for each of the
four settings. For the texts, `SlotsDiffer` says that entry i of the log points to slot i, so
that no commit and no line writes where an earlier entry points, and `MemoryHolds` what each place
holds; `LogKeepsRepoInv` follows the loop of VCS LOG from there.

The argument for `Console`. Screen and terminal are two arrays with a cursor each; `Alike` says
that they agree unless a command has parted them, and one lemma per kind of byte (a
character, a line end, an erase) shows that both go the same way, wraps and scrolls included. For
the shift key the flag alone says nothing: what the codes still waiting will do to it
must be part of the invariant (`ShiftFollows`).

That the screen shows the text joins two views: cells written one at a time where a cursor stands,
and a layout of all lines in rows. `Laid` is the layout of any lines, `Shown` what
`ScreenShowsText` asks of a screen for any rows, and it depends on the last `Rows` of them only
(`ShownEnd`), so that the history may forget (`ShownRecent`, `ShownShortened`). One more
character changes the last row of a line alone, or adds an empty one (`RowsGrow`, by the division
of its length by `Cols`); a new line moves all cells up by one where `Hidden` grows by one
(`ShownNewLine`); an erased character shortens the last row (`ShownBack`). `ShownPrinted` puts these
together. The cursor's column follows from it, and `EchoFollows` needs that: a Backspace in column
0 takes no character back. It says that before a line is read, the text with what is still to
print ends with the prompt.

The argument for `ImageBuilder`. `ChainsIntact` is kept only if the next chain never touches
an earlier one. `Done` says where each finished file is: its clusters lie below
`next_cluster`, its chain is whole and its bytes are in their sectors; `Begun` says the
same of the file at hand, as far as it has come. `DoneKept` is the step they share: what leaves the entries below
`next_cluster` and the sectors before it alone keeps every finished file, and
`OtherEntriesKept` gives that for entries that share a byte. That the image lies behind the
FAT copies, and each file behind the one before it, is arithmetic (`Layout`,
`ClusterPlace`). The driver's steps leave the image alone.

The argument for `Floppy`. `FileStore` sees a file answered whole at the end of a read, while
the driver goes from cluster to cluster through the FAT. `Used` joins three facts: the image is
one the builder finished (`Built`); the root directory holds one entry for each file, in order,
then free ones (`Catalogued`), so that the first entry `find_entry` meets is the file that the
host's names give; and a read that is under way is at the cluster of its place in the chain
with the bytes up to there in the buffer (`Driven`). The end-of-chain mark then arrives
exactly when the bytes do, and the return value is that of the abstract store.

The argument for `Fat12`. On any image, `at` is where the walk along the FAT has come after as
many turns as the buffer has clusters: the walk is a recursive function of the number of turns,
so a circle needs no case of its own. That reads stay inside rests on the one guard
the loop has; that a FAT entry lies in the image when its cluster does is arithmetic of the
volume (`NextIsInImage`).

The argument for `SetsReadBack`. `find_runtime_var` returns the first entry of a name, and an
append goes behind all: reading back needs that a new name is in no earlier entry, and that no
other word's first entry moves. Truncated names are why the property speaks of names that fit.

The argument for names and text. The conversions loop from the left in C and split from the
right in Python. Both come down to where the dots are (`FormatProofs`), by
induction on the length of a string and facts about its first and last dot. Numbers are
recursive functions of the characters read or the number left to print; what they compute is
proved by induction over the natural numbers in the form of a least counterexample
(`Inductive`, a set that holds 0 and every successor; `UpTo`). A number printed is `Numeral`, whose
value is the number (`NumeralIs`), and what is read of it is its value as long as it does not
overflow (`ReadDigitsIs`, `NothingWraps`), in both signs (`BitsAndBack`). A path of the RFS table
keeps its drive and colon in `make_83`, which drops no drive but `A:`, and no file of the image has a colon in
its name (`PathsApart`). Words are the places where a word starts: WC counts them character by
character (`WcCounts`), take_token goes from one to the next (`CursorMoves`, `TokensCount`). For lines
the invariant says of every character fed so far in which line it stands (`SoFar`, `FeedGoesOn`).
`FlattenSeq`, which lays out the screen, is a choice of a function; that the function exists and
what it gives is shown by the same least counterexample (`GlueExists`, `GluesUnique`).

Only model-checked: liveness (`ReturnsToPrompt`, `ReadReturns`, `BootEnds`, `ReadEnds`), which is
out of the provers' reach. For a boot, a read and a listing the measures above show that no loop
goes on for ever; that the next step is then taken rests on fairness and ENABLED, which only TLC
can follow. Every other property of a passing run is a theorem.

## What is not modelled

Output without state: VER, HELP, MEM, INFO, PWD, the layout of DUMP and LIST. The table
from scan codes to characters, beyond shift. Page tables and descriptor tables of the
loader. Tests, build scripts, CI and the shipped files are no part of the running system;
they were read for what they say of it. `executable.h` declares a header that no code reads.

## What could follow

A measure for the loops of `Shell` and `Commands` too, as `StepsLeft` is one for `Boot`;
the alternation of several DATE and TIME commands in the order of time.
