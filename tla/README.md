# SYSOPY 2022 in TLA+

The repository holds the exercises of an operating-systems course: small C programs, one or more
per laboratory (`lab1` … `lab10`). The first labs are sequential tools; from lab 4 on the programs are
about processes, signals, pipes, message queues, semaphores, threads and sockets, and there the
interesting properties are about interleavings. This directory specifies the concurrent programs and those
sequential ones that keep state, model-checks them with TLC, and proves with TLAPS, for any size, the safety of most of them: the pizzeria with its
start and end, Santa Claus, the FIFO, the game server, the game, the chat, the signals, the image filter, the integral, the table of blocks, the shell's descriptors
and the search.

## 1. Inventory

| Part | State | Operations | What is hard | Status |
|---|---|---|---|---|
| lab7 pizzeria (`zad1` System V, `zad2` POSIX semaphores) | two circular arrays in shared memory (oven, table), five counting semaphores | loops of the cooks and of the deliverers | processes interleave inside `add_to_arr`/`remove_from_arr`; a place is reserved before the lock is taken; waiting cycles | modelled, proved |
| lab7 start and end (`main.c` of both) | names or keys of the objects, `pids`, what each worker has opened | creation, `fork`, recording of the pid, SIGINT and its handler | SIGINT between `fork` and `execl`; objects left behind; another pizzeria with the same names | modelled, proved |
| lab9 Santa Claus | counters of waiting elves and of reindeer that are back, `end_of_delivery`, six mutexes, four condition variables | thread bodies of Santa, elves, reindeer | variables read under one mutex and written under another; nested mutexes; lost and spurious wake-ups | modelled, proved |
| lab5/zad3 FIFO | a FIFO, an output file, two `flock`s, the stdio buffer of each consumer | `produce`, `consume`, `save`, the tests' `check` | parts of messages interleave; the lock is released before the buffer is written; end of file and SIGPIPE | modelled, proved |
| lab10 game server | table of clients (descriptor, name, opponent, `active`), sockets | main loop (`poll`, `accept`, `recv`, handlers), ping thread | `remove_client` runs without the mutex; descriptors are used again; pings time out | modelled, proved |
| lab10 game client | board, loop that reads messages, move thread | `game`, `move`, `check_game_status`, `end_game` | two copies of one board; who ends the game | modelled, proved |
| lab6 chat (`zad1` System V, `zad2` POSIX queues) | the server's table and `curr_id`, one queue per process | INIT, LIST, 2ALL, 2ONE, STOP; SIGINT of either side | stale entries of the table, full queues, shutdown that races with leaving clients | modelled, proved |
| lab4 sender and catcher (`zad3a` burst, `zad3b` handshake) | their counters, pending signals, nested handlers | `kill`, `sigqueue`, handlers, `sigsuspend` | pending signals merge; handlers interrupt each other; a signal comes before the `sigsuspend` that waits for it | modelled, proved |
| lab5/zad1 shell | descriptor table, pipes of bounded size, a stack of processes | `execute` | waits for a command before its output is read; numbers of closed descriptors; a failed `execvp` | modelled, its descriptors proved |
| lab8 image filter | image, ranges of the threads | `invert_colors`, `numbers`, `blocks` | limits of the ranges; threads write one image without a lock | modelled, proved |
| lab1 library (`zad1`–`zad3`) | table of heap blocks, the file `temp`, the options | create, count, save, remove, print, free | ints that become `size_t`; index and lifetime of blocks | partly (no timers), proved |
| lab2 line tools (`zad1`, `zad2`, system calls and C library) | position in the file, buffer | copying without empty lines, counting a character | lines cut by the end of a buffer | modelled |
| lab3/zad2 integral | ranges of the children, their files | `calc_in_new_process`, `sum_results` | leftovers of two divisions; files of an earlier run | modelled, proved |
| lab3/zad3 search | a process for each directory, its buffer of stdout | `traverse`, `check_file` | `fork` copies the buffer | modelled, proved |
| lab5/zad2, lab3/zad1, lab2/zad3, lab4/zad1 and zad2 | none to speak of | printing, `popen`, `stat`, demonstrations of `sigaction` | – | not modelled: input and output |
| `create_targz.sh` | – | copies and packs | – | not modelled |

The programs do not call each other. Within a program the parts interact as follows.

* **Pizzeria.** `main` creates the semaphores and arrays and starts the workers, which share nothing else. A cook
  reserves a place (`FULL_OVEN_SEM`), locks the oven, stores, unlocks, bakes, locks, takes out, unlocks,
  gives the place back, then does the same with the table and announces a pizza (`EMPTY_TABLE_SEM`) for a deliverer.
* **Santa.** Elves and reindeer wake Santa through one condition variable when a batch is full
  or all reindeer are back; he answers through three others.
* **FIFO.** Producers and consumers meet only at the FIFO and at the output file.
* **Game.** Clients talk to the server over sockets; the server's two threads share its table; a client's two threads its board.
* **Signals.** The catcher learns the sender's pid from the first signal; each side's handlers send to the other.
* **Image.** `main` gives each thread a range and joins all before it saves.
* **Chat.** Clients and server exchange messages; a client's receiving child stops its parent with SIGINT.
* **Shell.** A command gets the pipe of the one before it as its input and an own pipe as its output. Parent and children share open pipes, not descriptor tables.
* **Integral, search.** `main` and the children of the integral meet at the files `w1.txt` …; the processes of the search only inherit from each other.

What makes each correct: for the pizzeria, arrays that behave as bounded queues and workers that never wait for each
other for ever; for Santa, sound batches and complete deliveries; for the FIFO, whole messages, in order, in
their rows; for the server, a table that pairs clients and agrees with their connections; for the game,
one board, two copies and one verdict; for the chat, a table that follows the clients, an answer for whoever asks to join, and an end
when the server is interrupted; for the shell, output as the pipeline would give it; for start and end of the pizzeria, objects of one's own and none left;
for the sequential tools, results that do not depend on where a buffer, a block or a range ends.
The `hazards` of `PROJECT.json` give the lines at which each of these could go wrong.

## 2. Modules

An operation of the code is an action with the operation's name where it has one. A sleep or a computation nobody can
observe is the time a process takes until its next action. `Goto` in each module moves one process from one line to
the next. Texts, times, printing and logging are left out. Some modules contain variants of an action under a comment "Not in the
code": a plausible mistake, for which a run is known to fail.

| Module | Models | State ↔ code |
|---|---|---|
| `Arr` | `struct arr`, `add_to_arr` and `remove_from_arr` in halves (lab7) | `array`, `first`, `last`, `count`; a store and the index arithmetic after it are separate steps, so an interleaving inside shows |
| `Pizzeria` | loops of `cook.c` and `deliverer.c`; 17 and 7 steps | `sem` the five semaphores, `oven`, `table`, `n` the local variable, `pc` the line |
| `PizzaLine` | the abstract specification: two bounded FIFO queues, every move in one step, no semaphores | `hand`, `stage`, `inOven`, `onTable` |
| `PizzeriaProofs`, `SantaProofs`, `NamedPipeProofs`, `GameServerProofs`, `TicTacToeProofs`, `ChatServerProofs`, `SignalsProofs`, `ToolsProofs` | the proofs, see 4 | |
| `Santa` | `lab9/zad1/main.c`, one step per access to shared data | `owner` the mutexes kept from one step to the next; a thread waiting on a condition is at a `parked…` step, from where a broadcast or a spurious wake-up sends it back to the loop around the wait |
| `RowFile` | `save` of `consumer.c`: where in the output file a text is inserted, and `check` of `main.c` | a file is a sequence of texts and newlines |
| `NamedPipe` | `produce`, `consume` and the FIFO | `fifo` the parts of messages in it, `ends` who has it open, `flocks`, `buf` what a stream has not yet written, `file`; `saved` is a history of the texts given to `save` |
| `GameServer` | `lab10/zad1/server.c` with both threads, and the session of `client.c` | `slots` is `clients[]`, `fds` who is at the other end of a descriptor, `rem` the locals of a thread in `remove_client`, `inbox`/`outbox` the sockets, `link` how a connection ended |
| `Board` | `check_win`, `check_game_status`, as operators on a board | |
| `BoardGame` | the abstract specification: one board, moves in turn, a result | `board`, `next`, `result` |
| `TicTacToe` | the two clients' games: loops, move threads, messages | `boards`, `thread`, `x`, `loop`, `out`, `in` |
| `ChatServer` | both servers and both clients of lab6; a behaviour is of one `kind`, `sysv` or `posix` | `clients` the table, `todo` the messages the order in hand has still to send, `unstopped` the slots `sigint_handler` has not come to, `pending` the message a client is sending, `zero` the queue of number 0, which a slot that was never used names |
| `Signals` | sender and catcher of both programs; a behaviour is of one `protocol` and one `mode` | `stack` is the frames of a process with the mask each runs with: delivery pushes a frame, a handler's end pops it; `pending` the values of waiting signals; `known` whether `sender_pid` is set; an exit empties the `pending` signals of its process; `early` is a history |
| `Negative` | creation and joining of the threads, their loops, `save_image` | `todo` the pixels a thread's loops have not come to; a step is one pixel |
| `Shell` | `lab5/zad1/main.c`: `execute`, its children and the commands they run | `processes` is a stack, as everyone waits for its only child; `fds` of each what a descriptor's number stands for; `prev`, `current` are `prev_fd`, `current_fd` |
| `Launch` | `main.c` of both pizzerias, the opening calls of the workers, `sigint_handler` | `owner` who created what has a name now; `proc` where each process is, `pids` its `pid_counter`, `opened` whose objects it uses |
| `BlockTable` | `lib.c`, and the options of `main.c` and `main_dynamic.c` | `table`, `table_size` as in the code; `heap` the allocated blocks; `loop` the calls an option has still to make |
| `LineTools` | the four programs of lab2/zad1 and zad2 | `position` how far the file is read; a step is one pass of the loop around `read` |
| `Integral` | `lab3/zad2/main.c` | `files` the strips whose sum is in `w1.txt` …; a sum is the bag of its strips |
| `StartAndEnd`, `Integrals`, `Blocks`, `Pipelines`, `Searches` | an instance of `Launch`, `Integral`, `BlockTable`, `Shell` and `Search` under names that can stand beside another program's | the runs of `MCProcesses` and `MCTools` and the proofs use the same instance and property |
| `Search` | `lab3/zad3/main.c` | `process` one per directory, with the buffer of its stdout; `missed` is a history of the entries that a failing `opendir`, `fork`, `popen` or `fopen` has kept from being read |
| `MCProcesses`, `MCTools` | several of the modules above in one run, see 3 | `program` which of them a behaviour is of |
| `MC…` | constants for TLC; each `.cfg` is one run | |

Points where reading the model beside the code needs care:

* `Pizzeria` is written from `lab7/zad1`. The loops of `zad2` differ in the calls (`sem_wait` for `semop`), not in their order.
* In `Santa` a mutex is taken in the action of the first access under it and given back in the action of the last. Nothing is lost by that: nobody
  else can touch what a mutex guards, so taking it may as well happen just before that access, and releasing it just after. `reindeer_delivery`, `elf_full_queue` and
  `elf_solving_problem` are then never kept between two actions and have no variable. The mutexes kept while another is asked for are the other
  three, and data read under a mutex it is not written under is read in an action of its own.
* In `GameServer` the handlers of a message are one action each, because they run under `clients_mutex` from beginning to end;
  `remove_client` and the ping loop are cut at every access to shared state. `recv` has its three outcomes: a message, end
  of connection, and −1, which the code ignores: it then parses the old buffer again (`RecvError`) and can crash (`ServerCrashes`).
  A closed descriptor's number is used again for the next connection. Names are at most two different ones and a message
  carries its sender's name; the game itself is left to `TicTacToe`, where the connections are good.
* In `ChatServer` an exit removes a System V queue with its messages; a POSIX queue stays for those that have it open. The server handles a message and sends the
  messages that follow from it one by one, so that an interrupt can come in between. A client that leaves has sent its STOP (`ClientSends`) some time before it exits and
  its queue goes (`ClientLeaves`). The receiving child of a System V client takes the most urgent kind of message first, as `msgrcv` with a negative type does. A message to −1 goes
  to the first free slot's queue. A slot that was never used holds 0: no open POSIX queue, but with System V the number of a real queue, if one has been there since the machine was
  started. `zero` is then the server's own queue or none; that it is the queue of another program, or of a client that started before the server, is left out. A signal is
  delivered at once, but not between `msgrcv` and the change of the table, nor within the change. A slot that POSIX `msg_stop` has
  freed holds a closed descriptor, whose number is taken never to be used again by another slot; a Ctrl-C reaches both processes of a client; and a client starts only when the
  server's queue exists. Text with an underscore, which `parse_client_msg_str` cuts, is left out with all texts.
* `NamedPipe` cuts a message into two parts, the least that can interleave. Any number of the `Consumers` is started, as the tests do.
  SIGPIPE can kill a producer between the two parts (`Torn`); what is left of its message stays in the FIFO if another process has that open, and is read, alone at the end of the
  input (`ConsumerReadsHalf`) or with the first part of the next message; `save` is called all the same. `atoi` of the middle of a message is taken to be 0, which is no row.
* In `Signals` a process is interrupted before any of its steps. As in Linux, of the signals a process can take the lower number comes first,
  a handler starts with its own signal blocked in addition to what was blocked (`sa_mask` is empty), and the mask of an interrupted
  `sigsuspend` holds in the handler. The catcher has installed its handlers when the sender starts: a user reads its pid first.
* In `Search` a failing `fork` leaves out a directory, a failing `opendir` all that is in one, and a failing `popen` or `fopen` ends the process, with what it has not read yet. The constant `Above` gives the directories above each one; `SearchAssumption` relates it to `Parent`, and a tree has just one such function. It is there so that depths are numbers of
  elements, without recursion.
* `Shell` writes to a terminal, so that a process prints line by line; the script fits the stdio buffer (it is shorter than 4096 bytes), so a
  clone after a failed `execvp` has the whole rest of it. `gen`, `big`, `copy` are what a command can do to a pipe; `typo` is one that does not exist.
  A line whose numbers are out of range ends the real shell with an error and is left out. A process with less than two free numbers up to `MaxFd` would go beyond
  the bound and stands still; in the run none does.
* `Launch` has one name for the five POSIX semaphores, which are made, opened and unlinked one after the other, and assumes
  that the binaries are there and `fork` succeeds. A handler that has begun is not interrupted by another SIGINT.
* `BlockTable` works with numbers modulo `Word`, as `size_t` does. `calloc` fails above `MaxTable`. The byte that `save_block` writes before an empty block
  (`block_size - 1` with size 0) falls into a field of the allocator that is zero anyway and is left out. Of the names an option lists
  only their number and their length together matter to the size of the command and of `temp`: `Length` gives the latter.
* `LineTools`: a text is a sequence of one character that counts, blanks and newlines; opening files is left out.
* `Integral` computes with fractions, so that what the code does at the borders is seen and the rounding of a `double` is not.
* `Negative` takes any image of values 0 … 255 for what `load_image` reads.

## 3. Runs

All passing runs are complete. Bounds are constants of the cfg files, or of the instances in `MCProcesses` and `MCTools`. These two modules put several
small programs into one run each: the initial states choose a `program`, the variables of the others stand still in an ended
state, and each property speaks of its own program. Nothing of one program can influence another.
Where a module has a type invariant it is a conjunct of a property: of `BatchIsWaiting`, `MessagesWhole`, `TableIsSound`, `BoardsAgree`, `OwnId`, `NothingMerges`
(which bounds the nesting of handlers) and `OwnObjects`; those of all modules with proofs (4) are proved.

| Run | Instance | Shows |
|---|---|---|
| `pizzeria` | 3 cooks, 1 deliverer, 2 places, 2 kinds of pizza | no two processes in one array (`MutualExclusion`); semaphores = arrays ± processes on their way (`PlacesAreCounted`); no deadlock; refinement of `PizzaLine` (`ImplementsLine`) |
| `santa` | 3 elves for batches of 2, 2 reindeer, 2 deliveries; behaviours with prompt wake-ups and without | any timing: `BatchIsWaiting`, `DeliversWithAll`, `NoLostWakeup`, no deadlock of all threads; prompt wake-ups: no reindeer is left out of a delivery (`NobodyLeftBehind`), Santa finishes (`Termination`) |
| `fifo` | 3 producers with 2, 1 and 1 messages, 1 or 2 consumers, FIFO of 3 parts | messages stay whole and in order until a producer is killed within one (`MessagesWhole`); what one consumer alone got is in the file at the end (`SavedIsKept`); processes end (`EverybodyEnds`) |
| `fifo_lost` | 1 producer, 2 consumers | **violation** of the check that `main.c` makes after a test, see 5 |
| `game_calm` | 3 clients for 2 slots, one may quit, one may hang, one move each; pings are answered between two rounds, removals by main come at any moment | the ping thread removes no player that still answers (`LiveIsKept`), a player is told when its game is over (`PlayerIsTold`) |
| `game_race` | 3 clients, two of one name, one may quit, pings at any time | `TableIsSound`: pairs are symmetric, a slot and its connection belong together, `opponent` is never −1 when used; `START_GAME` is first (`StartComesFirst`), one move under way in a pair (`OneMove`) |
| `game_live` | 2 clients, one may hang | a silent player loses its slot (`HungIsNoticed`) |
| `tictactoe` | the real 3×3 board, all games | boards agree (`BoardsAgree`), verdicts are right (`VerdictIsRight`), the two clients play the game `BoardGame` (`PlaysTheGame`), to its end (`GameEnds`) |
| `chat` | 3 clients, 2 slots, one order each, queues of 1, both kinds, one client may leave, the server may be interrupted | ids are not shared and 2ONE reaches its addressee, or, sent to −1, a client that leaves (`OwnId`); the table is stale only as long as the STOP waits in its queue, or for a client that was interrupted before it had an id (`RegisteredIsAlive`); whoever asks to join is answered unless the server ends or waits at a full queue that nobody empties (`Answered`), an interrupted server ends but for the named deadlocks (`ServerStops`) |
| `processes` | *Signals:* 0 to 3 signals, both programs, all modes | what queues, or is waited for, does not merge: until a process exits, all sent to it are counted, being counted or waiting (`NothingMerges`); printed counts are true (`ReportsAreTrue`); both end but for signals that came too early or to an unknown pid (`BothEnd`) |
| | *Shell:* all scripts of two lines of up to 2 commands, or one of up to 3; pipes of 2 units | lines print what their pipelines give (`PrintsResult`), only ends to read from leak (`OnlyReadEndsLeak`), the shell ends unless a command reads first, writes too much or is misspelt (`ShellEnds`) |
| | *Launch:* two pizzerias with 2 and 0 workers, both kinds, SIGINT at any time | own objects, none left by one that ended in its handler (`OwnObjects`); the workers end but for one main did not know of (`WorkersEnd`) |
| | *LineTools:* all texts of up to 5 characters, buffers of 0 to 4 | results are right wherever chunks cut lines (`ResultIsRight`); the tools end but for counts with a line longer than the buffer (`ToolEnds`) |
| | *Pizzeria:* 2 cooks, 2 deliverers, 1 place | everybody's turn comes again and again (`NobodyStarves`) |
| `tools` | *Negative:* all images of 2×3 pixels with 3 levels, 1 to 4 threads, both modes | the saved image is the negative of the input (`SavedIsNegative`) |
| | *Integral:* all widths a/b, a ≤ 7, b ≤ 23, up to 6 children, any of which may fail | each whole strip is added once and the leftover once, or twice when another block than the last ends there; only an old file in place of a failed child's can change that (`StripsAreCounted`) |
| | *BlockTable:* up to 5 options, sizes −1 to 3, ranges inside, outside and across the end | the heap is what the table points to (`HeapIsTable`) |
| | *Search:* 4 directories, 3 files, depths 0 to 2, with and without a terminal, any call that may fail failing | files with the pattern come out, once or by inherited buffers, but for those a failing call has kept from being read, and no others (`FoundIsPrinted`) |
| `blocks_remove` | up to 3 options on a table of up to 2 places | **violation**: the option `-r` removes nothing, see 5 |

Why the bounds are enough for what they show. Pizzeria: with more cooks than places both arrays get full, and with two kinds of
pizza an exchange of pizzas is visible; the proofs remove the bounds. Santa: one elf more than a batch meets a full queue; two deliveries are the
least in which a signal left over from one can be taken for another. FIFO: a FIFO of three parts blocks every second message half
written; two messages of one producer can overtake each other; of three producers one can be killed within a message while another keeps the FIFO, with that message's first part, for
the next consumer, whom the third meets. Server: two slots are one pair, the third client
finds the table full, and a client that quits frees a slot for it to take over; a pair interacts with another only through the
search for a free slot. Chat: the third client is refused or takes the slot of one that left; a queue of one is full as soon as
a message is not read, so that all waits at full queues that `Answered` and `ServerStops` name occur (at a client that has left, at one that cannot send its STOP, at the server's own).
That one message overtakes another needs a queue of two: for `OwnId` and `RegisteredIsAlive` the proofs cover queues of any size; `Answered` and `ServerStops` also pass with `QueueSize = 2`, in 2.8 million states,
but there one order each is too few to bring all these waits about. Signals: while one signal is handled a second waits and a third merges with it. Image:
four threads are more than columns or levels, two leave a remainder; the proof removes the bounds. Shell: the third command of a line, or the second line, finds the
descriptors that the commands before have left; a pipe of two units is written past its limit by `big`. Launch: a second pizzeria begins before, during and after the
first, or while a child of the first is in main's handler. LineTools: five characters hold three lines, of which some, none or all fit a buffer. Integral: 6 children of
up to 23 strips leave every remainder, and blocks that end before, at and behind the last strip. BlockTable: create, count, save, remove, save again is five options.

Deadlock checking is off where the program stops: the FIFO processes end, clients of the server and the chat end, a game ends, sender and catcher end, the image is saved, the shell and the tools end.
It is on in the pizzeria, which never stops, and in Santa, where the exited state is the only one in which nothing happens (it loops).

### Fairness and timing

* Pizzeria: no process stops by itself, and the kernel queues the processes waiting on a System V semaphore, hence strong
  fairness of each process's step. For POSIX semaphores (`zad2`) this is an assumption about the scheduler.
* Santa: strong fairness per thread. Threads sleep for seconds between two uses of a mutex, so that a waiting thread gets it in between.
  Behaviours with `prompt`: a reindeer that has been woken gets away before another, which sleeps at
  least 5 s, is back. Without it `NobodyLeftBehind` is false: line 200 takes back `end_of_delivery` and a reindeer stays.
* FIFO: strong fairness per process (scheduling, and `flock` granted to those who wait).
* Server: strong fairness of its two threads. `CalmPing` (only in `game_calm`): the ten seconds between two rounds are enough for a
  ping to reach its client and the answer to be handled. Nothing is assumed of `remove_client` in the main thread, which may clear slots at any step of a round.
  Clients are under no obligation: a hanging one is exactly what `HungIsNoticed` is about.
* Game: some process that can run does, and a player who is asked for a move makes one.
* Chat: each process that can run does (weak fairness). Users need not do anything.
* Signals: weak fairness of each process together with the delivery of its signals.
* Shell, line tools: weak fairness of the next step: one process runs at a time. Launch: weak fairness of `main`, of each worker and of each handler; users need not start or interrupt anything.

## 4. Proofs

Each theorem holds for any values of the constants that satisfy the module's assumptions: any finite sets of processes or threads, disjoint where they are of two kinds;
at least one place in an array, slot in the table, part in the FIFO, elf in a batch, delivery and thread of the filter; any messages, moves, names and pizzas. The
assumptions are named where the constants are declared, and TLC evaluates them.

* `PizzeriaProofs`. The inductive invariant `Inv` is `TypeOK`, `LocksHeld`, `OvenAccounting` and `TableAccounting`. `MutualExclusion`
  is not inductive: it needs that the value of a lock's semaphore plus the number of its owners is one (`LocksHeld`). Type correctness needs no more than
  itself. `count` of an array is related to the semaphores through the number of processes in each group of steps: `GotoCounts` says how one
  process's step changes every such number, `CookCounts` and `DelivererCounts` that each step balances. From `Inv` follow
  `TypeCorrect`, `Accounting` and `Mutex`.
* The same module on the arrays and the abstract specification. First the arrays: the contents of an array are the `count` elements from `first` on. `AdvanceAppends` and `AdvanceTakes`: index arithmetic modulo
  `ArrSize` appends at the end and drops at the front, wherever the array begins. Then `Refinement`: `Spec` implements `PizzaLine`, `ImplementsLine` of the run. A pizza is in the abstract queue once its index
  has moved; between the halves of an array operation the process holds the lock, and the additional invariant says that what it has stored,
  or read, is still what stands there. That the queue is not full when a cook stores, nor empty when a worker takes, follows from
  the accounting.
* The same module on start and end (`Launch`), for any pizzerias and any numbers of workers. `LaunchInv`: `Crew` says which workers exist at which line of
  `main`, so that the one whose `fork` is under way, which may not be in `pids` yet, is the only one the handler can miss; `Signalling` that the handler has
  signalled all those with smaller numbers; `Removing` that what it has removed is no longer its own. `Created` (a main that has created its objects has them until it removes them) and `Opened` (its workers have opened no others)
  hold as long as no child, still a copy of main, runs main's handler (`NoCopies`; with System V a child that does so does no harm to the names). `KeepToTheirOwn` follows.
* `SantaProofs`. `Owners` says which thread keeps which mutex at which step, so that two threads that write the same counter exclude each other.
  `Wakers` is `NoLostWakeup` made inductive: Santa asks about the elves and the reindeer at two different steps, so a waker of the first kind is owed already when he is at the second. `Counted` relates `reindeers_back` to the number of reindeer in
  harness: at most as many, and exactly as many under prompt wake-ups unless `end_of_delivery` is set, when none is back. From it follow `Complete` (all counted
  means all in harness) and `Prompt`; `Batches` and `WakeUps` are parts of the invariant.
* `NamedPipeProofs`. `Stream` is what lies between `fwrite` and `save`: the parts in the hands of the consumer that has the lock on the output file, then the FIFO. `Aligned`:
  its parts alternate, and if the last one is a first half its producer holds the lock on the FIFO and owes the other half. `Ordered` and `SavedInOrder`: of each producer
  the stream has the messages that follow those saved, in order and without a gap. `WholeMessages` follows.
  Both locks are needed, one for each end of the stream; the last process to close the FIFO empties it, which leaves no gap before a message still to come, as
  every producer has then ended or not begun. All this is claimed only until a producer is killed between two parts (`Torn`).
  `SavedStays` is about the output file. The cells of a row are the places with as many newlines before them (`Cells`); `PaddedIs` and `RowsPut` say that adding
  rows at the end, and inserting a text at the end of one, leave the texts of every other row and their order as they are. `Kept` then relates what was saved to
  the file and, as long as it is not flushed, to the one consumer's stream.
* `GameServerProofs`. `TableIsSound` by itself says little about a table that two threads change, one of them without the mutex. The invariant adds `Handling`: what the main thread
  has read before it takes the mutex is still true of the table when it uses it, or concerns a descriptor that is closed. `Removals` is how far each
  of two overlapping calls of `remove_client` has come with its two slots; `Pairs` says that a slot with an opponent is in a pair, or that a call which is
  under way will still clear it. `Pings`: a client has at most one ping or answer under way, so an answer cannot be one to a ping of an earlier client of the slot. `Waiting`
  and `Starting`: a client without an opponent has heard nothing of a game, one with an opponent has its start in its inbox or behind it. `TableSound` and `StartFirst` follow.
* The same module on `OneMove`. `Right` counts for a client the places where its right to move can be: with its move thread, in a message on its way to or from the server, or with
  the server's main thread between the two. `OneRight`: a pair has at most one, and newcomers and those who wait have none. It needs the pairs of `Handling` and `Removals`: a move
  goes to the opponent the server read before, and a client that is removed takes its right with it. `OneMover` follows.
* The same module under calm pings. Under `CalmPing` (section 3 says why it is justified, and `game_calm` is the run) `CalmInv` is added to that invariant. `Asked`: a player whose mark is cleared has
  its ping, or its answer, on the way, or does not answer any more. A round starts when nothing is on the way, so `Lost` can say of the slots the round has still to visit that a player who
  has no mark there is lost, and so is the one the thread is about to remove. Both are about players: main may clear a slot while the thread is at it, and a new client that waits there may keep the old mark; but a client
  becomes a player only when it is paired, and then both marks are set. `CalmLiveKept` follows. `Linked`, `Leaving` and `Informed`: who is removed has ended, does not answer or waits alone, and its opponent has its news in the inbox before
  its connection is closed; a client takes a farewell only to leave. `CalmPlayerTold` follows.
* `TicTacToeProofs`. The invariant has three forms: a player looks at its board and both boards are equal (`Thinks`); a move is under way, and one board lacks exactly
  that mark (`Marks`); or the result is on its way (`Over`). `Agreement` and `Verdicts` follow from these. `Refinement`: a step that finds the game over, with the news for the server, is
  the result of `BoardGame`, the step that marks a player's own move is its move, and all others - messages, the copy of a move on the opponent's board - are stutters. That the list of `check_win` is
  the rows, columns and diagonals is `LinesAreThree`.
* `ToolsProofs`. Image: `Cover`: the ranges of a division into m parts, the last of which takes the rest, leave no number out, whatever the
  remainder and even if m is larger than what is divided. The invariant `IInv` is `TypeOK` and `Done`: a pixel that a created thread has to write, and has
  come past, has the right value. It survives the writes of other threads because all that write a pixel write the same. When all
  threads are joined none has a pixel left, and `EveryPixel` (from `Cover`) says that each pixel had a thread: `Negation`.
  Integral: `BlocksReach`: blocks of the rounded-up quotient, one for each child, reach the last whole strip. `Fits` turns the comparisons of fractions in the loops into
  comparisons of numbers of strips; with it `Adds` says which children add a strip: the one in whose block it is, and for the strip left over at the end
  also one whose block ends where it begins. `HowOften` counts them, and `StripsInv` (each started child that has not failed has
  written just these strips) gives `EachStripOnce`. Nothing but arithmetic depends on the widths, so that it holds for all of them.
* The same module on the table of blocks. `Entries` is the table as `calloc` made it, with numbers of blocks or null; `OneToOne` that different entries have different blocks and that every block is in one.
  It is kept since an allocated number is not on the heap (`NewBlock`) and an entry is emptied with its block, for whatever `size_t` an argument has become (`ArgumentIsNumber`).
  `CommandFits` compares the buffer of `wc_to_temp` with what is written into it. `HeapFollowsTable` follows.
* The same module on the shell's descriptors. Of the stack of processes only the lowest is the shell, and it changes only when it is alone. `IsShell` counts what it has open beside
  input and terminal at each line of `execute`: what earlier lines have left, one for each command before in the same line, and, while it waits for a command, the two ends of its pipe, one of
  which it writes to; and it says that the numbers in `current_fd` are of open descriptors wherever they are closed later, which is not so of `prev_fd`. The numbers `pipe` gives are free and differ
  (`TwoAreFree`); `PassedOnGrows` adds a line. Of the other processes, clones that go on behind a failed `execvp` among them, `Placed` says only at which command they are. `ShellKeepsReadEnds` follows.
* The same module on the search, for any finite tree. `Forked`: a directory has a process once its own directory has passed it in reach and no call has failed there, and only then. `Reads` gives a process's place
  in the file it checks: the pattern is not where it has looked. `Buffers` says whose buffer has the line of a file: that of its finder, once it has checked it, and perhaps some of those below; never any on a terminal.
  `Gone`: a missed file is behind its process (`Passed`) and its line in no buffer; `GoesOn` is what every step leaves to the others.
  `ComesOut`: the line has come out once on a terminal when the file is checked, otherwise once for each ended process that has it in its buffer. When all have ended,
  every directory in reach with nothing missed above it had a process (`ReachIsRead`): else take one without that is highest (`HighestOf`); its own directory had one and has passed it. `SearchFinds` follows.
* `ChatServerProofs`. `IInv` is about three places in which an id can be: the table, a client, and messages on their way. `Owned`: there is one function from the ids given so far
  to clients such that every id in the table, in a client, in a client's queue and in what the server has still to send is that of
  the client the function says, and a STOP with an id comes from a client that has sent it and leaves or has left (`Left`). That ids are given only once is not enough for this: `Requests` says that a client asks once and nothing is
  for it while it asks, so that the reply it takes for its own is its own, and `Replied` that the reply comes before all else.
  `Table`: a free slot names no client's queue but that of one that leaves, and only registered clients are waited for. `Noted` is a stronger form of `RegisteredIsAlive`: already who leaves and is still there has its STOP in the queue. `IdsAreOwn` and `TableIsAlive` follow, for any
  finite set of clients, both kinds of queue, and whatever the server's interrupt comes between.
* `SignalsProofs`, for every n. `Stacks`: which frames can lie on which, from the masks the handlers run with; a stack has at most three frames, but for the catcher of zad3b,
  whose handlers nest as deep as there are signals, and `Depth` says what each frame of it stands for. `OneToken`: there is one `sig2` at a time, with the sender, on its way or being
  handled. `Merged` is the balance of `sig1` for each process: those counted, those in a handler and those pending are as many as were sent, or at most as many where signals merge; `Round`
  gives the sender's place in the rounds of the handshake, which waits and so makes the balance exact. `SignalsArrive` follows. For `ReportsHold`, `Settled` says that in zad3a the catcher's answer begins when
  nothing interrupts it any more, that the sender answers only after that, and that the values of `sig2` are then the catcher's count.

The invariants were checked with TLC on the instances of section 3 before they were proved. One of them failed: with two producers
`MessagesWhole` holds without its condition, with three it does not, because of a torn message (see 5).

Only model-checked: all liveness properties (fairness is outside what the prover handles); what the shell prints (`PrintsResult`), a concatenation
over the lines of a script, and the line tools (`ResultIsRight`), whose result is a fold over the text: both need an induction over data, which the prover cannot do.

## 5. Findings

* `fifo_lost`. `lab5/zad3/consumer.c` unlocks the output file at line 78 while the text of its last `save` is still in its stdio buffer, and
  line 64 empties the file, without the lock, whenever a consumer starts. With two consumers the output file may end
  without messages that were read. `main.c` checks after each test that every row is complete; the run shows a
  behaviour in which it is not, all processes having ended.

* `blocks_remove`. The option `-r`, `--remove_block`, of lab1 prints its name and leaves the table as it is (`lab1/zad2/main.c:113`, `lab1/zad3/main_dynamic.c:143`). The
  makefile of the same program measures the time of `-r 0` under the name "remove 1 block with result of wc 3 files" (`lab1/zad2/makefile:65`).

Facts the models show, but about which the repository claims nothing, so that no run states them: the server of lab10
crashes when `recv` returns −1 after a reset (`strcmp` with a null name); two clients can wait in
different pairs; an elf whose problem was solved may wait for the next batch; a consumer that meets no producer for a moment takes it for the end of the
input; a producer killed in the middle of a message while another keeps the FIFO open leaves half of it there, and from then on every message is read from its middle; the chat server ends with an error when it sends to a client that has left but whose STOP is still queued; it
stays blocked at the full POSIX queue of a client that has left, with both kinds at the full queue of a client that reads no more because the server's queue has no room for its STOP, and with System V at its own full queue, when that has number 0 and a message to −1 goes
to an unused slot; a client that is interrupted before it knows its id keeps its slot for ever; and a shutdown never completes between a registration and its INIT, at the full queue of a client that reads no more, or (System V) when its own queue is full and a client has no room for its STOP. The game server can
take the slot from a client that waits for an opponent, when main frees the slot and the client gets it while the ping thread is marking it. In lab4/zad3b
an answer that comes between `kill` and `sigsuspend` leaves the sender waiting for ever, and `sender n` with n = 0 never ends; in lab4/zad3a the handler of `sig2` may
run before that of `sig1` has begun, and then the answers go to pid −2 and the sender waits for ever. That handler, and the sender's, end in `exit`: what waits for the process then is lost, so that also of real-time
signals, which queue, only a part is counted. The report shows it (`lab4/zad3a/raport.txt`, test 3: 1000 sent, 346 counted, 120 back), in agreement with the model. The shell of lab5
never ends when the first command of a line reads its input, since the numbers of the pipe it closed are given out again for the pipe it writes to; a misspelt command makes a second shell
that goes through the rest of the script first, so that lines come twice. A pizzeria interrupted in the moment of a `fork` leaves a worker
it does not know of; with System V that one ends when the semaphores are removed, with POSIX it works on; and one that finds a name taken leaves what it has created, so that nobody can start again. The integral counts the leftover strip
twice when a block of another child than the last ends where the whole strips do, and adds an old file for a child that failed. `count_char` never ends on a line longer than its
buffer. The search prints a line again for each process forked with it in its buffer, unless stdout is a terminal, and goes on without what a failing `opendir` or `fork` has hidden.

## 6. Plan

Done: all parts of the inventory that keep state; proofs of the pizzeria with its start and end, Santa, the FIFO, the server, the game, the chat, the signals, the image, the integral, the table of blocks, the shell's descriptors and the search.

Left: nothing that is in reach of the prover. What the end of section 4 names needs induction over data, or fairness.

## 7. Not modelled

lab5/zad2 (mail and sort through `popen`), lab3/zad1, lab4/zad1 and zad2 (print what a child inherits), lab2/zad3 (prints `stat`), `create_targz.sh`: each is a sequence of calls whose result is what it prints,
with no state that outlives a call. Of lab1 the timers and the file of their results; of lab2 the opening of files and the timing; of lab5/zad1 the parsing of the
script; of the chat the log file; of the game the drawing of the board.
