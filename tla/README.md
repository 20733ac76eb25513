# A verification of the sim900 driver

The sim900 library (`src/sim900.c`, `src/sim900.h`) drives a SIM900 GSM modem over a serial
line. An application calls `simx_...` functions, each of which sends one AT command; the
modem's bytes come back through `simx_receive`, usually from an interrupt; `simx_tick_1ms`
counts the time; callbacks tell the application what arrived. One static context is shared by
all of them. This directory models that context and everything that changes it in TLA+,
checks it with TLC and proves its safety properties with TLAPS.

## 1. The system

| Part | Code | State it keeps | Operations |
|---|---|---|---|
| Command channel | `sim900.c` 319-341, 854-1539 | `is_receive`, `state`, `reply`, `cmd`, `fcmd_finished`, `cmd_data`, `time_ms`; the caller's `sim_reply_t` | the 24 API functions that send, `simx_tick_1ms`, `simx_wait_reply`, `simx_finished` |
| Answer handlers | 343-666, 1396-1417 | `state` within the command in flight | one state machine per answer format: `simx_rcv_{r,d,w,m,ip,sd}frame` |
| Notifications and connection events | 668-773 | none of its own; aborts the command in flight, starts a payload | `simx_check_message`, the idle part of `simx_receive_frame` |
| Byte receiver | 790-850 | `fsimx_receive`, `sim_cnt`, `receive_len`, `receive_ncon`, `rx_buffer` | `simx_receive_msg` assembles lines, `simx_receive_tcp` a payload |
| Modes | 1099-1102, 1220-1226, 1478-1484 | `mux`, `ciphead`, `te_chaster` | finishing hooks of AT+CIPMUX, AT+CIPHEAD, AT+CSCS |
| Result parsers | 994-1090, 1140-1160, 1277-1417, 1511-1532 | `pin_is_required`, `network_reg`, `sim_is_insert`, `gprs_is_attach`, `cip_state`, the caller's buffers | `_simx_..._resp` |
| Text helpers | 222-316 | none | `str_quotes`, `_strchrcpy`, `str_to_ip`, `str_to_tcp_mode` |
| Getters | 1541-1575 | none | six accessors |
| Modem | external | | answers commands, announces events at any time |
| Application | external, examples, tests | its replies | calls, polls `reply.status`, waits |

How they interact. A call writes some fields of its reply and of the context and then asks one
of the four `sim300_send_...` functions to send: an idle driver takes the reply as
`context->reply`, lowers `is_receive` and sends; a busy one writes `SIM300_BUSY`. Bytes go
through the function pointer `fsimx_receive`. A complete line is first compared with the
notifications; if it is one, its callback runs and the command in flight, if any, ends with
`SIM300_ERROR`. Otherwise an idle driver looks for a connection event in it, and a busy one
hands it to the handler of the command in flight, which moves on or writes the verdict and
raises `is_receive` through `simx_finished`, running the hook the call left in
`fcmd_finished`. The tick and the loop of `simx_wait_reply` raise `is_receive` with
`SIM300_TIMEOUT`, without running the hook.

What is hard. Calls, lines and ticks interleave freely; a call leaves traces in shared state
even when it is refused; notifications cut commands short while the modem still works on them;
answers come after the timeout and meet another command; a callback may call back into the
driver; the byte counter is narrower than the length it is compared with. What makes the parts
correct is accordingly: a command in flight belongs to one caller and can be served in every
state (channel, handlers); it ends within its time, with a verdict of its own kind, written to
its own reply (channel); nothing writes to a reply nobody waits with (all); the driver's
modes follow the answers of the commands that set them (modes); a payload is handed over
whole, for the right connection, and ends (receiver). The list of hazards, line by line, is
in `PROJECT.json`.

## 2. The modules

| Module | Content |
|---|---|
| `Sim900Types` | the constants of the code: commands and the handler the table gives each, states, verdicts, lines, callbacks |
| `Sim900Driver` | the driver: every entry point of `sim900.h` that changes state is an action; a line, a call and a tick are one step each |
| `AtChannel` | what callers are promised: one request at a time, refusals without harm, a verdict exactly when the channel becomes free |
| `Sim900Channel` | the refinement mapping from the driver to `AtChannel` |
| `Sim900Clock` | the driver with the time its command has really had, as a history |
| `Sim900Results` | the result parsers and the fields and buffers they fill, on top of the driver |
| `Sim900System` | driver and parsers composed with a worker that runs scripts, a serial line and a modem |
| `SimxReceive` | the line assembler and the payload receiver byte by byte, with the buffer as it is |
| `SimxPreempt` | sends, the waiting loop, a handler, the tick and its callback statement by statement, interrupting each other or on two threads; mapped to `AtChannel` too |
| `SimxText` | `str_quotes` as a function, `_strchrcpy` as its loop, against what a field is |
| `MCDriver`, `MCChannel`, `MCClock`, `MCSystem` | values of the constants for TLC |
| `Sim900DriverProofs`, `Sim900ChannelProofs`, `SimxReceiveProofs`, `SimxPreemptProofs`, `SimxTextProofs` | the theorems about one module each |
| `Sim900SystemProofs`, `Sim900AnswersProofs`, `Sim900ResultsProofs` | the theorems about the composition: types and modes, whose answer ends a command, what a query stores |

The modules look at one program in three grains. `Sim900Driver` takes whole lines and whole
functions as steps. `SimxReceive` looks below the lines and shows what `Sim900Driver` takes for
granted, that lines and payloads are handed over whole. `SimxPreempt` looks below the functions
and shows how far they may be taken for one step: outside three windows an observer sees
`AtChannel` still.

### How `Sim900Driver` corresponds to the code

Variables carry the names of the context's fields. `status`, `user_data` and `user_pointer`
are the fields of the replies, as functions of the reply; a reply's fields are whatever its
caller left there, so `user_data` starts arbitrary. `user_pointer` holds the command whose
call set it, which tells the type of what it points to; `cmd_data` holds the reply of the
`simx_send_sms` that set it, which tells whose text it is. `upcalls` is the set of callbacks
the last step made.

A line is one step (`simx_receive_msg` with the frame it completes); how bytes become lines is
in `SimxReceive`. A payload is received byte by byte. The lines are
records: the text, the connection number where there is one, the command an information line
echoes, the length a header announces. Lines with nothing the code would recognise are `TEXT`.
A few lines are there for how the code compares them: with multi-IP on the code skips three
characters and compares the rest over its own length, so a one-character line (`CHAR`)
matches anything; AT+CSQ compares only `CS` of its echo.

The environment is open: any line of `Frames` may arrive in any state, and any function of
`Calls` may be called in any state the constants allow. That includes late, repeated,
reordered and missing answers without modelling a modem. The constants that describe the
application are:

| Constant | Meaning |
|---|---|
| `Calls` | commands whose function it uses |
| `BusyCalls` | those it may also call while a command is in flight |
| `NestedCalls` | those it may call from inside a notification callback: any without a pointer, hook or text, and not "+++" |
| `ReuseReply` | may such a call pass the very reply in flight |
| `MidPayload` | may it start a command while a payload is arriving |
| `Ticking` | is `simx_tick_1ms` wired to a timer (the desktop example does not) |

A call made inside a callback while a command is in flight is refused; that is the sequence
of a refused call and a notification, which the model has as two steps. A callback of a
notification that starts a command on an idle driver is one step (`NestedCall`): the command
is sent and finished with `SIM300_ERROR` before `simx_receive_frame` returns. The code lets a
callback call every function; `NestedCalls` is narrower. A command with a pointer, a hook or a
text would moreover leave these behind, and "+++" would take over what is in flight.
`NotificationLeavesIdle` says nothing about such callbacks, and that the nested command itself has
ended is the shape of the step. Calls from the
other callbacks are, up to the order of two adjacent statements, calls made right after them.
A number in a header is cut to the 16 bits of `receive_len` (`Uint16`).

Bounds. `MaxTime` bounds `time_ms`, which only "+++" lets grow beyond the limit; it must exceed
`Timeout`. `Timeout` and `ByteMod` are scaled down in the runs (1 tick for 300000, 3 or 4 for
256): the code compares the one and takes the remainder of the other, nothing else depends on
their size, and the proofs are for all values. Two replies suffice for one command in flight
and one call made meanwhile, because a call touches one reply at a time. Connection numbers in
calls are 0 and 1; they only travel to the text that is sent.

`Sim900Clock` adds one history, `waited`, to the driver: the ticks since a command was last sent.
`time_ms` is one field for all commands, set to 0 in one place and counted in another, and two
places end a command by it; the history says how long a command has been in flight in fact.

### How `Sim900Results` and `Sim900System` correspond to the code

`Sim900Results` adds what the answers say. `result` holds, per query, the context field its
parser fills (`pin_is_required`, `network_reg`, `sim_is_insert`, `gprs_is_attach`, `cip_state`,
which the getters return) or what lies behind the reply's `user_pointer` (signal level, address,
the sender of an SMS); `client` is the state column of the caller's array of CIPSTATUS rows, and
`sms_text` the length of the text kept. `Parse` runs with the line, in the handler states in
which the code calls the `f_msg` column. The parsers of AT+CREG, AT+CSMINS and AT+CGATT look at
a variable `sscanf` has not set when it cannot read a line: the model then takes any number. A
row of CIPSTATUS has its connection number in one character, whose distance from '0' the code
takes; the model's rows are of connections 0 and up, as a modem's are, so a character below '0',
which would give a negative index, does not occur.

`Sim900System` closes the environment. The worker makes one call at a time, waits for it, and
gives a script up when the verdict is not the one it wants, as `worker.cpp` does. The modem
takes its commands in order and answers each as the tests of that command do (ATD and ATO with
CONNECT), or with ERROR, ATO also with NO CARRIER; that a modem passes on to its data mode behind
CONNECT is not modelled. It
prompts, and takes what is sent next for the text; it has a multi-IP mode of its own, which
AT+CIPMUX sets and which decides whether its lines carry a connection number. It may announce an
event before and behind any of its answers and while it waits for a text, but not between the
lines of one answer. The serial line keeps the order. The timer may end any
command at any moment (`Timeout = 0`), so late answers meet later commands. Lines carry a history mark,
whose answer they are, which no action of the driver looks at; `quiet`, `cut`, `doubt` and
`said` are histories too. `cut` says that since the line was last quiet a command has ended
otherwise than with its own answer; `doubt` that an AT+CIPMUX has.

### How `SimxReceive`, `SimxPreempt` and `SimxText` correspond to the code

`SimxReceive` has the cells of `rx_buffer` that an 8-bit counter can reach; nothing is cleared
but by a send. Bytes are the characters the receiver looks for, and "I" for the four characters
behind the "+" of "+IPD,". `Dispatch` hands a line to `simx_receive_frame` and stores its
terminator. What the handlers may do with it that matters here, ending the command, changing a
mode, starting a payload, is left open, and so is what a callback does: it may send a command,
which clears the buffer while it is still being read, or "+++", which does not (`NestedSend`).
"+++" may also come between any two bytes (`CommandMode`), and so may the end of the time limit
(`TimeOut`). The length of a payload is any of
`Lengths`; one the counter cannot reach never ends. When the counter is 1, the code compares the
cell before the buffer, which is `receive_ncon`, a connection number: never CR. Before the first
command the code reads the row in front of the command table; `Init` leaves open what it finds.

`SimxPreempt` keeps `is_receive`, `time_ms`, `context->reply` and the replies' statuses. `pc` is
the main program's next statement, `handler` that of the line handler, `ticking` says that the
tick is in `simx_callback_timeout`, and `threads` whether the main program runs on while a line is
handled (`worker.cpp`) or is interrupted by it (a microcontroller). Any line that ends a command
may come at any time. The callback may start a command, wherever the tick has interrupted the
others, up to `MaxRestarts` times. `intruded` is a history: it notes that one of the three windows
was hit. The finishing hook, which `simx_finished` runs and clears behind `is_receive = 1`
(335-340), and the OK that CIPSTATUS reports before its end (567) are left out.

`SimxText` begins with any text. `str_quotes` is a function of it; `_strchrcpy` is its loop,
`ReadComma` and `ReadOther` one turn of it each. A token's `str` is its place in the text, 0 where
the code leaves the pointer as it was.

## 3. The runs

| Run | Question | States |
|---|---|---|
| `driver_any` | An application without discipline, a modem that says anything: is a command in flight always served and ended with a verdict of its own, at its time, and is every reply left alone otherwise? | 782 thousand |
| `driver_channel` | One command per answer format and "+++", harmless calls meanwhile: do the destination of the answer and the owner stay with the command, and does the driver implement `AtChannel`, including that every request is answered? | 571 thousand |
| `driver_modes` | Do the modes change exactly with the answers to their commands? Is every payload delivered once and whole, and does it end? | 502 thousand |
| `system_link` | With a modem that answers in order, do answers go to the commands they belong to, is nothing left over, do the two multi-IP modes agree, and does every command end without a timer? | 1.9 million |
| `system_results` | For every command and every number an answer may carry: is what a query has stored what the modem said? | 242 thousand |
| `receive` | Are every line and every payload handed over, once and whole? | 2.5 million |
| `preempt` | What do callers see when everything interrupts everything? | 56 thousand |
| `text` | Do the text helpers find the fields? | 774 thousand |
| `finding_takeover`, `finding_mode_lost`, `finding_lost_event`, `finding_sms_text` | Counterexamples, one each; see below. | |

Each property of the passing runs fails when a plausible mistake is made in the code it is
about; the mistakes are the operators named `Bug_...`, paired with the properties in
`PROJECT.json`.

What the discipline of a run leaves out is what the code gets wrong. `driver_channel` has no
`simx_tcp_head_enable` and no "+++" while a command is in flight; `driver_modes` no timer, no mode
command while another is in flight, no command in the middle of a payload (the driver would drop
the payload, line 897) and no length beyond the counter. `driver_any` has none of these
restrictions, and its properties hold regardless. The properties
of the two system runs carry their restrictions in the formula, as `quiet`, `cut` and `doubt`.

What the less obvious properties say about the code:

- `SuccessIsOwn`: until a command ends without its own answer, no command is reported done on
  another's. The condition is needed: after a timeout the late answer is taken for the next
  command's, and all answers are one command late until the line is quiet.
- `FailureIsOwn`, `NothingLeftOver`: every handler takes the whole answer, in both multi-IP
  modes, and nothing more. The one exception is in the formula: the empty line behind the
  single-IP CIPSTATUS (line 1405), which spoils the next answer if that command is sent before
  it has come.
- `MuxAgrees`: the driver's `mux` is the modem's unless an AT+CIPMUX was cut short.
- `AnsweredByModem`: no handler waits for a line the modem does not send. The condition on
  `doubt` is needed: with multi-IP on, CIPSTATUS waits for the row of connection 7, which a
  modem in single-IP mode never sends.
- `ResultsFollowAnswer`: the tables of the parsers are those of `sim900.h`, a number without a
  meaning is stored as unknown, the text of an SMS whose line is shorter than the buffer is stored
  as it is, and rows beyond the caller's array are dropped. What becomes of longer texts is in
  `finding_sms_text`.
- `TimeoutOnTime`: no refused call, notification or timeout before a command takes anything from
  its time, whichever of the tick and the waiting loop ends it, and "+++", which inherits the
  count, gets no more than the limit.
- `WholeLines`, `WholePayloads`: old contents of the buffer, prompts, sends in the midst of a line
  and a callback's send never get between the bytes of what is received, and a payload neither
  swallows a byte of the line behind it nor leaves one to it.
- `OnlyThreeWindows`: outside of three windows callers see what `AtChannel` promises. The windows
  are: a line handled between `is_receive = 0` (889) and the clearing of the status (901); the time
  limit reached in the midst of a handler while the caller runs on another thread; and a command
  started by `simx_callback_timeout` (328) while the waiting loop or a handler has yet to write
  what it has decided about the command before, which the new one then gets. Taking any of them
  out of the formula gives a counterexample.

### Bounds

The driver's are in section 2. `driver_modes` explores the commands that set a mode and two
others without restriction, and the remaining twenty from a driver that has just started to the
next call (`OthersFirst`): they set no mode and start no payload, and what they leave behind, a
text or a destination, no property of the run looks at. The worker's scripts of `system_link` are those of `worker.cpp`
without the steps that another one with the same handler stands for, and a TCP session in
multi-IP mode; at most one command waits for the modem (`Backlog = 1`) beside the answer that is
under way, which is enough for a late answer to meet the next command, and for that one's
answer to meet the one after it. One event is under way at a time. `system_results` follows one command at a time, with
AT+CIPMUX before and behind it (`OneCommand`), because the parsers' fields are disjoint, and
only calls made on a quiet line, because its property is about these; it tries all 25 commands,
with the numbers 0 to 16, which covers every table and numbers none of them knows, and an SMS
buffer of 8 characters, which texts of 0 to 16 fit, fill and exceed.
`receive` has a counter of 5 cells, so that lines of up to four bytes are whole and longer ones
wrap, and payloads of 0, 2 and 6 bytes: one that ends when the counter has wrapped, one shorter
than the counter's range, one it never reaches. The proofs are for every width and length.
`preempt` has two replies, two answers, a time limit of 2 and two commands started by the
timeout's callback. `text` has texts of up to 8 characters, a destination
of 4 and a table of 3: fields shorter than, as long as and longer than the destination, and more
fields than the table has places.

### Fairness

`TickSpec`, and `ClockTickSpec` with its history, assume weak fairness of `simx_tick_1ms`: a
periodic timer interrupt that is never disabled for good. The modem and the application are not assumed to do anything, so
`CommandConcludes` and `EveryCallAnswered` say that the timer alone ends every command.
`PayloadSpec` assumes weak fairness of `simx_receive_tcp`: a modem that has announced a payload
sends its bytes. `SystemSpec` assumes weak fairness of the modem's work and of the line's
delivery, and none of the timer, the worker or the events: `AnsweredByModem` is about a modem
that answers. `SimxPreempt` assumes that the processor goes on with a started send, with the
waiting loop and with a handler, that the timer ticks, and that the timeout's callback returns;
`CallsReturn` moreover rests on `MaxRestarts`, since a callback that starts a command at every
timeout keeps the waiting loop for ever. Nothing else is assumed fair; in
`Sim900Driver` the loop of `simx_wait_reply` in particular is not, because a caller need not
wait.

### What the findings show

- `finding_takeover` (line 1490): a refused `simx_tcp_head_enable` has already become
  `context->reply`, and the verdict of the command in flight goes to it.
- `finding_mode_lost` (1108): a refused `simx_set_TE_character` has already replaced
  `fcmd_finished`; the OK of AT+CIPMUX is then reported but not adopted. The same holds between
  any two of the three functions with hooks.
- `finding_lost_event` (738): a connection's CLOSED that arrives while a command is in flight
  goes to the command's handler; `simx_callback_tcp_msg` is not called.
- `finding_sms_text` (1528-1530): an SMS text one or two characters shorter than the buffer is stored
  with the CR, or CR LF, of its line, and its terminator one behind the buffer. A longer text is cut
  and has its terminator there, too.

The code has more flaws of these kinds. They have no run, and are what the properties leave out:

- A payload of 256 bytes or more does not end, since its length is compared with an 8-bit counter
  (793); the source notes the overflow.
- "+++" called while a command is in flight is not refused but takes the command's reply and row
  (1126-1137), and it does not reset `time_ms`, so that it may be given up at the first tick;
  `TimeoutOnTime` exempts it.
- A refused `simx_send_sms` has already replaced the text of the SMS in flight (1507), which the
  prompt is then answered with. As `cmd_data` has no other writer, a property without this case
  would say nothing, and there is none.
- A command sent while a payload is arriving drops the payload (897, 1128).
- A timeout leaves the hook installed (325): it runs at the next OK, of any command, and adopts
  what that command's reply holds in `user_data`.

## 4. The proofs

All proofs are for every value of the constants that satisfies the `ASSUME`s of the module: the
null pointer is no reply, lines and calls are of the kinds defined, the numbers are numbers, a
byte counter of `SimxReceive` can hold more than 3. Of the composition they say that what the
modem sends unasked is no line an answer consists of (`EventsAssumption`; a `CLOSED` or a
`RING` is not an `OK`) and that the worker's callbacks send no command (`CallbackAssumption`, as
in `worker.cpp`); of `SimxText`, that no letter is one of the two marks or the model's stand-in
for an untouched destination, and that a text is shorter than 256, as the lines of an 8-bit counter
are.

`Sim900DriverProofs`:

- `TypeCorrect`, `InFlightServed`, `VerdictNotEarly`, `TimeLimited`, `PayloadWhenIdle`,
  `CounterStaysBelow`, `IdleAfterNotification`: the invariants;
- `CompletionHasVerdict`, `RepliesLeftAlone`: what no step may do;
- `RefusalIsHarmless`, `PayloadIsDelivered`, `DestinationIsItsOwn`: the same under the discipline
  their hypotheses state.

The inductive invariant `IInv` is the conjunction of the seven invariants. Types alone are not
inductive: a handler writes `status[reply]`, which is well typed only if there is a reply, and a
hook adopts `user_data[reply]`; both rest on `InFlightIsServed`. That in turn needs the handlers
to leave only states they know, which is where each handler's lemma (`RframeEffect` and so on)
is used: it sums the handler up as `HandlerEffect` (the command ends with a verdict, ends its
table, moves on, or announces its table). Likewise `AppCallEffect` sums up the 24 functions as
"accepted, refused, or +++", and what each leaves in the hook, the text and the reply's fields.
`VerdictOnCompletion` needs `NoEarlyVerdict`, because the CIPSTATUS table ends without writing a
status. `PayloadOnlyWhenIdle` is what keeps payload bytes from touching a command. The action
properties and the refinement start from `StepKinds`, which classifies every step by its effect
on the command in flight.

The same module proves `ModesAreAdopted` and `ModesChangeNotOtherwise` under `HooksApart`: no
command with a hook, nor "+++", is called while a command is in flight, replies in flight are
not reused, and no timer ends a command without its hook. The invariant added is `HookInv`: the
hook installed is exactly that of the command in flight, whose reply still holds the mode asked
for.

`Sim900ChannelProofs` proves `DriverImplementsChannel`: under the discipline of the run
`driver_channel`, every behaviour of the driver is one of `AtChannel` (its safety part). Its
`SystemImplementsChannel` says the same of the composed system without that discipline: a worker
that waits for each of its calls makes none while a command is in flight (`WorkerWaits`). The same
module proves `TimeoutComesOnTime` (`TimeoutOnTime`), without any discipline. The invariant added
to `IInv` is `ClockInv`: a command in flight has waited no longer than the limit,
and `time_ms` is the time it has waited, or, of "+++", at least that.

`SimxReceiveProofs` proves `TypeCorrect`, `BufferAlwaysHoldsLine`, `LinesAreWhole` and
`PayloadsAreWhole`. The invariant is `TypeOK` and `BufferHoldsLine`, which is about payloads as
well: it is inductive because every way to complete something, and every send, brings the counter
back to 0 (`Afresh`), so that whatever a callback's send or a terminator has done to the cells,
none of them counts any longer. `MsgInv` and `TcpInv` sort the steps into those that keep a byte
(`KeptInv`) and those that begin anew (`AfreshInv`); the action properties compare the receiver's
tests on the buffer with the same tests on the bytes that came (`TestsOnLine`).

`SimxPreemptProofs` proves `TypeCorrect` and `NoOtherWindow`, a refinement of `AtChannel` up to
the windows. The invariant has the bounds that always hold (`Bounds`: the time limit, whose reply
a started send or loop has) and, as long as no window has been hit, `Quiet`: nothing is handled
during a send, a handler on another thread works on a command still in flight, the loop gives up
only on a command that has ended, and when the flag is up the last command has a verdict.

`SimxTextProofs` proves `QuotesAlwaysCopy`: a text that is copied is the field between the first
two marks. With two marks a least one exists because the order of the numbers is well-founded;
the rest is how a text falls apart at two places (`FieldSplits`). `TokensStayFields` is about the
loop of `_strchrcpy`. `TokensAreFields` is not inductive, because it does not say how far the loop
has come; `LoopInv` does: every finished token ends at a comma and the last one at the place read
(`ReadSoFar`), the commas read so far are one fewer than the tokens (`OnePerComma`), and the loop
has returned only at the text's end or at the comma the table has no room for (`Returned`).
`CommaOpens` and `OtherGrows` show that a turn of the loop keeps it. The number of fields in the
property then follows by counting: at the end of the text all commas have been read.

### The composed system

The proofs about `Sim900System` hold for every set of scripts, events and numbers, any backlog and
any time limit; the timer may end every command, in any state. They go up in four steps, each
using the one before it as an invariant.

`Sim900SystemProofs`. `TypeInv` adds to the driver's `IInv` the types of what is stored, of the
lines and of the worker, and that a command in flight is being waited for (`WorkerWaits`); with
`SystemTypeCorrect` it gives the values the getters return. `DriverServesSystem` says that the
composition is a behaviour of the driver as far as `IInv` goes, so that everything proved about
the open environment holds in the closed one. `MuxStaysAgreed` (`MuxAgrees`) needs more than that
the modes agree between commands: `Marks` says that what is marked as the last command's is its
own and that the modem takes it last, `MuxHook` that the hook of AT+CIPMUX is installed only
while that command is in flight or when one has been cut short, and `MuxAnswer` that the OK on
the wire is there because the modem has changed its mode, and that the command's ERROR leaves
both modes as they were. The three together are `ModeInv`.

`Sim900AnswersProofs` proves `SuccessStaysOwn`, `FailureStaysOwn` and `NothingStaysOver`. None of
the three is inductive: whose the next line is depends on everything before it. `AnsInv` says, as
long as no command since the line was last quiet has ended otherwise than with its answer, where
the answer is and how far the handler has come. Either the command has not reached the modem
(`Asked`); or the wire holds the rest of one of the modem's answers behind its first k lines, with
whole events before and behind it but not in it, and the handler is in the state it has after k
lines (`Answering`, `StateAfter`); or the same with the second half of an answer, behind a prompt
(`Completing`); or no command is in flight and nothing of an answer is left but the line behind
CIPSTATUS (`Resting`); or a command was sent behind that line, and nothing before its own answer
can end it (`Mixed`). What keeps this going is one lemma per answer format (`ReportReads`,
`SmsReads`, `TableReads`, ...): in the state after k lines the handler takes line k + 1 and is in
the state after k + 1, or ends with the verdict the line stands for. `EventPairs` is needed
because an event begins with the same empty line as an answer: the handler takes that for the
first line of its answer, and only the event's second line, which ends the command, or which the
handler does not know, puts it right (`Fresh`). `FailureStaysOwn` needs `ModeInv` besides, because
the connection number in a line is skipped by the driver's mode and written by the modem's.

`Sim900ResultsProofs` proves `ResultsStayAnswers` (`ResultsFollowAnswer`). The invariant
`StoredInv` relates what has been stored to what is still on the wire: behind the line that
carries a number the field has that number's meaning, and the text of an SMS, the STATE line of
CIPSTATUS or its row 0 has been stored or is still awaited (`Awaits`). That the last line of an
answer awaits none of these (`AwaitsLast`) gives the property at the verdict. The tables of the
parsers are compared with those of `sim900.h` once, in `StateTables` and `OtherTables`. The
theorem's hypothesis, that the numbers fit in a byte, is there because the level of AT+CSQ
is kept in one.

### Only model-checked

- Liveness and the fair refinement, which are beyond the prover: `CommandConcludes`, `PayloadEnds`,
  `EveryCallAnswered`, `AnsweredByModem`, `CallsReturn`, `ImplementsFairChannel` (its safety part
  is proved).
- The findings, which are counterexamples.

## 5. Not modelled, and what is left

- `str_to_ip` and `str_to_tcp_mode`: a `sscanf` and two comparisons; the columns of a CIPSTATUS row other
  than its state, and the fields of an SMS header other than the sender, which travel the same way.
- In the statement-level model, commands started by callbacks other than `simx_callback_timeout`,
  the finishing hooks and the OK that CIPSTATUS reports before its end. `simx_finished` runs the hook
  and clears it after `is_receive = 1`: with the caller on another thread the next command's hook
  may be run or cleared by the line of the one before, and no run shows that.
- Callbacks that call the functions with a pointer, a hook or a text, or send "+++": see `NestedCalls`.
- A CIPSTATUS row whose connection is a character below '0', and lines within another answer: the
  modem of `Sim900System` sends neither.
- What a modem in data mode sends behind CONNECT, and what it does with commands there.
- Formatting of command texts, the delay loop, the contents of `tx_buffer`.
- The board support and project files of the examples: the STM32 example does not call the
  library. The desktop example is written for an older interface and is modelled as its scripts
  and its two threads.
- Connections as the modem has them: opening, closing and data of a connection are lines of the
  open environment of `Sim900Driver` and not tied together.

What would come next is a modem with connections, so that `simx_tcp_connect` and the events can
be told apart by connection.
