--------------------------- MODULE Sim900ResultsProofs ---------------------------
(***************************************************************************)
(* Proofs about what a query stores: the parsers run with the lines of its *)
(* own answer, and what they leave is what sim900.h says the answer means. *)
(***************************************************************************)
EXTENDS Sim900AnswersProofs

-----------------------------------------------------------------------------
(* The parsers.                                                            *)

\* The tables of the two CIPSTATUS formats are those of sim900.h.
LEMMA StateTables ==
  ASSUME NEW v \in Nat
  PROVE  Documented("CIPSTATUS", v) =
           IF mux = 0 THEN _simx_mux0_cipstate(v) ELSE _simx_mux1_cipstate(v)
<1> DEFINE cip == [n \in 0..9 |->
                IF n < 5 THEN {n}
                ELSE IF n = 5 THEN IF mux = 0 THEN {5, 6, 7} ELSE {14}
                ELSE IF n = 9 THEN {13}
                ELSE IF mux # 0 THEN {}
                ELSE IF n = 6 THEN {8} ELSE IF n = 7 THEN {9, 10} ELSE {11, 12}]
           m == IF mux = 0 THEN _simx_mux0_cipstate(v) ELSE _simx_mux1_cipstate(v)
<1>1. Documented("CIPSTATUS", v) =
        IF \E n \in 0..9 : v \in cip[n] THEN CHOOSE n \in 0..9 : v \in cip[n] ELSE Unknown
  BY Zenon DEF Documented
<1>2. \A n \in 0..9 : cip[n] =
                IF n < 5 THEN {n}
                ELSE IF n = 5 THEN IF mux = 0 THEN {5, 6, 7} ELSE {14}
                ELSE IF n = 9 THEN {13}
                ELSE IF mux # 0 THEN {}
                ELSE IF n = 6 THEN {8} ELSE IF n = 7 THEN {9, 10} ELSE {11, 12}
  OBVIOUS
<1> HIDE DEF cip
<1>3. CASE mux = 0
  <2>1. CASE v \in 0..13
    <3>1. m = IF v < 5 THEN v ELSE IF v < 8 THEN 5 ELSE IF v = 8 THEN 6
              ELSE IF v < 11 THEN 7 ELSE IF v < 13 THEN 8 ELSE 9
      BY <1>3, <2>1 DEF _simx_mux0_cipstate
    <3> HIDE DEF m
    <3>2. m \in 0..9 /\ v \in cip[m]
      BY <1>2, <1>3, <2>1, <3>1
    <3>3. \A n \in 0..9 : v \in cip[n] => n = m
      BY <1>2, <1>3, <2>1, <3>1
    <3> QED BY <1>1, <3>2, <3>3 DEF m
  <2>2. CASE v \notin 0..13
    <3>1. m = Unknown
      BY <1>3, <2>2 DEF _simx_mux0_cipstate
    <3>2. \A n \in 0..9 : v \notin cip[n]
      BY <1>2, <1>3, <2>2
    <3> QED BY <1>1, <3>1, <3>2
  <2> QED BY <2>1, <2>2
<1>4. CASE mux # 0
  <2>1. m = IF v \in 0..4 THEN v ELSE IF v = 14 THEN 5 ELSE IF v = 13 THEN 9 ELSE Unknown
    BY <1>4 DEF _simx_mux1_cipstate
  <2> HIDE DEF m
  <2>2. CASE v \in 0..4 \cup {13, 14}
    <3>1. m \in 0..9 /\ v \in cip[m]
      BY <1>2, <1>4, <2>1, <2>2
    <3>2. \A n \in 0..9 : v \in cip[n] => n = m
      BY <1>2, <1>4, <2>1, <2>2
    <3> QED BY <1>1, <3>1, <3>2 DEF m
  <2>3. CASE v \notin 0..4 \cup {13, 14}
    <3>1. m = Unknown
      BY <2>1, <2>3
    <3>2. \A n \in 0..9 : v \notin cip[n]
      BY <1>2, <1>4, <2>3
    <3> QED BY <1>1, <3>1, <3>2 DEF m
  <2> QED BY <2>2, <2>3
<1> QED BY <1>3, <1>4

\* The other queries keep the number, if they know it.
LEMMA OtherTables ==
  ASSUME NEW c, c # "CIPSTATUS", NEW v
  PROVE  Documented(c, v) = IF c \in DOMAIN Known /\ v \notin Known[c] THEN Unknown ELSE v
  BY DEF Documented

\* The length of the text an SMS leaves in its buffer.
Kept(v) == IF v + 2 < MsgLength THEN v ELSE MsgLength

\* A report is stored in the field of its query.
LEMMA ReportStored ==
  ASSUME TypeInv, Numbers \subseteq 0..(ByteMod - 1), is_receive = 0, cmd \in RframeCmds,
         state = "CMD", NEW v \in Numbers \cup {0}, NEW f, f = Report(cmd, v), Parse(f)
  PROVE  result'[cmd] = Documented(cmd, v) /\ client' = client
<1>1. f.text = "INFO" /\ f.of = cmd /\ f.link = 0 /\ f.len = v
  BY DEF Report, InfoLine
<1>2. Parsed(f) /\ Reports(f)
  BY <1>1 DEF Parsed, IsNotification, NotificationTexts, EchoMatches, Reports, NoLink
<1>3. cmd \in Queries /\ result \in [Queries -> Nat \cup {Unknown}]
  BY DEF TypeInv, ResultsTyped, Queries, RframeCmds
<1>4. \A x : Store(x) => result'[cmd] = x
  BY <1>3 DEF Store
<1>5. Documented(cmd, v) = IF cmd \in DOMAIN Known /\ v \notin Known[cmd] THEN Unknown ELSE v
  <2>1. cmd # "CIPSTATUS"
    BY DEF RframeCmds
  <2> QED BY <2>1, OtherTables
<1>6. CASE Number(f)
  BY <1>1, <1>2, <1>4, <1>5, <1>6 DEF Number
<1>7. CASE _simx_signal_quality_report_resp(f)
  <2>1. v \in Nat /\ v < ByteMod /\ ByteMod \in Nat \ {0}
    BY NumberAssumption
  <2>2. v % ByteMod = v
    BY <2>1
  <2>3. cmd \notin DOMAIN Known
    BY <1>7, KnownNumbers DEF _simx_signal_quality_report_resp
  <2>4. result'[cmd] = v /\ client' = client
    BY <1>1, <1>2, <1>4, <1>7, <2>2 DEF _simx_signal_quality_report_resp
  <2> QED BY <1>5, <2>3, <2>4
<1>8. CASE _simx_sms_read_resp(f)
  <2>1. cmd = "CMGR" /\ cmd \notin DOMAIN Known
    BY <1>8, KnownNumbers DEF _simx_sms_read_resp
  <2>2. result'[cmd] = v /\ client' = client
    BY <1>1, <1>2, <1>4, <1>8, <2>1 DEF _simx_sms_read_resp
  <2> QED BY <1>5, <2>1, <2>2
<1>9. ~Address(f) /\ ~_simx_connection_status(f)
  BY DEF Address, _simx_connection_status, RframeCmds
<1> QED BY <1>2, <1>6, <1>7, <1>8, <1>9 DEF Parse

\* The text of an SMS is cut to its buffer.
LEMMA TextStored ==
  ASSUME is_receive = 0, cmd = "CMGR", state = "MSG", NEW v \in Nat, NEW f,
         f = Saying("TEXT", v), Parse(f)
  PROVE  sms_text' = Kept(v) /\ result' = result
<1>1. f.text = "TEXT" /\ f.len = v
  BY DEF Saying, Line
<1>2. Parsed(f)
  BY <1>1 DEF Parsed, IsNotification, NotificationTexts, TwoBytes, RframeCmds
<1>3. _simx_sms_read_resp(f)
  <2>1. ~Number(f)
    BY KnownNumbers DEF Number
  <2> QED BY <1>2, <2>1
          DEF Parse, _simx_signal_quality_report_resp, Address, _simx_connection_status
<1>4. sms_text' = (IF MsgLength > v + 2 THEN v ELSE MsgLength) /\ result' = result
  BY <1>1, <1>3 DEF _simx_sms_read_resp
<1> QED BY <1>4, MsgLengthAssumption DEF Kept

\* The address is kept as it is.
LEMMA AddressStored ==
  ASSUME TypeInv, is_receive = 0, cmd = "CIFSR", state = "MSG", NEW v, NEW f,
         f = Saying("IP", v), Parse(f)
  PROVE  result'[cmd] = v /\ client' = client
<1>1. f.text = "IP" /\ f.len = v
  BY DEF Saying, Line
<1>2. Parsed(f)
  BY <1>1 DEF Parsed, IsNotification, NotificationTexts, IpframeCmds
<1>3. Address(f)
  <2>1. ~Number(f)
    BY KnownNumbers DEF Number
  <2> QED BY <1>2, <2>1
          DEF Parse, _simx_signal_quality_report_resp, _simx_sms_read_resp, _simx_connection_status
<1>4. result \in [Queries -> Nat \cup {Unknown}] /\ cmd \in Queries
  BY DEF TypeInv, ResultsTyped, Queries
<1> QED BY <1>1, <1>3, <1>4 DEF Address, Store

\* The table of CIPSTATUS: its STATE line is translated, a row is kept if there is
\* a place for it, any other line leaves everything as it is.
LEMMA TableStored ==
  ASSUME TypeInv, is_receive = 0, cmd = "CIPSTATUS", state = "MSG", NEW f \in Frame,
         ~IsNotification(f), Parse(f)
  PROVE  /\ result'[cmd] = IF f.text = "STATE" THEN Documented(cmd, f.len) ELSE result[cmd]
         /\ client' = IF f.text = "CLIENT" /\ RowFits(f.link) /\ f.len \in ClientStates
                      THEN [client EXCEPT ![f.link] = f.len] ELSE client
<1>1. Parsed(f)
  BY DEF Parsed, MframeCmds
<1>2. _simx_connection_status(f)
  <2>1. ~Number(f)
    BY KnownNumbers DEF Number
  <2> QED BY <1>1, <2>1
          DEF Parse, _simx_signal_quality_report_resp, Address, _simx_sms_read_resp
<1>3. result \in [Queries -> Nat \cup {Unknown}] /\ cmd \in Queries
  BY DEF TypeInv, ResultsTyped, Queries
<1>4. f.len \in Nat
  BY DEF Frame
<1>5. CASE f.text = "STATE"
  <2>1. Store(Documented(cmd, f.len))
    BY <1>2, <1>4, <1>5, StateTables DEF _simx_connection_status
  <2>2. result'[cmd] = Documented(cmd, f.len)
    BY <1>3, <2>1 DEF Store
  <2> QED BY <1>2, <1>5, <2>2 DEF _simx_connection_status
<1>6. CASE f.text # "STATE"
  BY <1>2, <1>6 DEF _simx_connection_status
<1> QED BY <1>5, <1>6

\* Every other line of an answer is none of a parser's business.
LEMMA NotStored ==
  ASSUME NEW f, Parse(f), ~Parsed(f)
  PROVE  UNCHANGED <<result, client, sms_text>>
  BY DEF Parse, results

-----------------------------------------------------------------------------
(* What has been stored while the answer is under way.                     *)

\* A line of the last command's answer is still to come.
Awaits(t, n) ==
  \E i \in 1..Len(wire) : wire[i].whose = "own" /\ wire[i].f.text = t /\ wire[i].f.link = n

\* The report of a query has been stored, and behind it the text of an SMS.
ReportKept ==
  cmd \in RframeCmds /\ state \in {"MSG", "STATUS"} =>
    /\ result[cmd] = Documented(cmd, said)
    /\ cmd = "CMGR" => Awaits("TEXT", NoLink) \/ sms_text = Kept(said)

\* What the table of CIPSTATUS has said so far has been stored.
TableKept ==
  cmd = "CIPSTATUS" /\ state = "MSG" =>
    /\ Awaits("STATE", NoLink) \/ result[cmd] = Documented(cmd, said)
    /\ mux # 0 /\ modem_mux # 0 /\ said \in ClientStates /\ RowFits(0) =>
         Awaits("CLIENT", 0) \/ client[0] = said

StoredInv == InFlight /\ quiet /\ ~cut => ReportKept /\ TableKept

\* Up to the first line of the answer there is nothing to store.
LEMMA FirstStored ==
  ASSUME state' = "RN" \/ state' = AfterFirst("RN")'
  PROVE  ReportKept' /\ TableKept'
<1>1. cmd' \in RframeCmds => state' \in {"RN", "CMD"}
  BY DEF AfterFirst
<1>2. cmd' = "CIPSTATUS" => state' \in {"RN", "STATUS"}
  BY DEF AfterFirst, RframeCmds, MframeCmds
<1> QED BY <1>1, <1>2 DEF ReportKept, TableKept

\* What is awaited is so until it is the next line.
LEMMA AwaitsDropped ==
  ASSUME NEW z, Dropped(z, wire), wire' = z, NEW t, NEW n, Awaits(t, n),
         ~(wire[1].whose = "own" /\ wire[1].f.text = t /\ wire[1].f.link = n)
  PROVE  Awaits(t, n)'
<1>1. PICK i \in 1..Len(wire) : wire[i].whose = "own" /\ wire[i].f.text = t /\ wire[i].f.link = n
  BY DEF Awaits
<1>2. i # 1
  BY <1>1
<1>3. i - 1 \in 1..Len(z) /\ z[i - 1] = wire[i]
  <2>1. i - 1 \in 1..Len(z)
    BY <1>2 DEF Dropped
  <2>2. z[i - 1] = wire[(i - 1) + 1] /\ (i - 1) + 1 = i
    BY <2>1 DEF Dropped
  <2> QED BY <2>1, <2>2
<1> DEFINE j == i - 1
<1>4. j \in 1..Len(wire') /\ wire'[j].whose = "own" /\ wire'[j].f.text = t /\ wire'[j].f.link = n
  BY <1>1, <1>3
<1> HIDE DEF j
<1> QED BY <1>4 DEF Awaits

\* With k lines of the answer read every later one is awaited.
LEMMA AwaitsBehind ==
  ASSUME NEW a, NEW k \in Nat, Behind(wire', a, k, 0), Len(a) \in Nat, Len(wire') \in Nat,
         NEW i \in 1..Len(a), k < i
  PROVE  Awaits(a[i].text, a[i].link)'
<1> DEFINE j == i - k
<1>1. j \in 1..Len(wire') /\ 0 < j /\ j <= 0 + (Len(a) - k) /\ j - 0 + k = i
  BY DEF Behind
<1>2. wire'[j] = [f |-> a[j - 0 + k], whose |-> "own"]
  BY <1>1 DEF Behind
<1>3. wire'[j] = [f |-> a[i], whose |-> "own"]
  BY <1>1, <1>2
<1>4. wire'[j].whose = "own" /\ wire'[j].f.text = a[i].text /\ wire'[j].f.link = a[i].link
  BY <1>3
<1> HIDE DEF j
<1> QED BY <1>1, <1>4 DEF Awaits

\* The last line of an answer awaits none of another kind.
LEMMA AwaitsLast ==
  ASSUME NEW a, Len(a) \in Nat, Len(a) >= 1, Behind(wire, a, Len(a) - 1, 0), NEW t, NEW n,
         Awaits(t, n)
  PROVE  t = a[Len(a)].text /\ n = a[Len(a)].link
<1>1. PICK i \in 1..Len(wire) : wire[i].whose = "own" /\ wire[i].f.text = t /\ wire[i].f.link = n
  BY DEF Awaits
<1>2. 0 < i /\ i <= 0 + (Len(a) - (Len(a) - 1))
  <2>1. IF 0 < i /\ i <= 0 + (Len(a) - (Len(a) - 1))
        THEN wire[i] = [f |-> a[i - 0 + (Len(a) - 1)], whose |-> "own"]
        ELSE wire[i].whose = "event"
    BY <1>1 DEF Behind
  <2> QED BY <1>1, <2>1
<1>3. i = 1 /\ wire[i] = [f |-> a[i - 0 + (Len(a) - 1)], whose |-> "own"]
  BY <1>1, <1>2 DEF Behind
<1>4. i - 0 + (Len(a) - 1) = Len(a)
  BY <1>3
<1> QED BY <1>1, <1>3, <1>4

LEMMA FitsSame ==
  ASSUME UNCHANGED <<user_data, reply>>
  PROVE  \A n : RowFits(n)' <=> RowFits(n)
  BY DEF RowFits

LEMMA DocumentedSame ==
  ASSUME NEW c, UNCHANGED <<said>>, UNCHANGED mux \/ c # "CIPSTATUS"
  PROVE  Documented(c, said)' = Documented(c, said)
<1>1. CASE UNCHANGED mux
  BY <1>1 DEF Documented
<1>2. CASE c # "CIPSTATUS"
  BY <1>2 DEF Documented
<1> QED BY <1>1, <1>2

\* A line of the table.
LEMMA TableLine ==
  ASSUME TypeInv, is_receive = 0, cmd = "CIPSTATUS", state = "MSG", TableKept,
         wire[1].f \in Frame, simx_receive_msg(wire[1].f), Parse(wire[1].f), is_receive' = 0,
         NEW z, Dropped(z, wire), wire' = z,
         UNCHANGED <<cmd, said, mux, modem_mux, reply, user_data>>,
         wire[1].f.text = "STATE" => wire[1].f.len = said,
         wire[1].f.text = "CLIENT" /\ wire[1].f.link = 0 => wire[1].f.len = said
  PROVE  TableKept'
<1> DEFINE f == wire[1].f
<1>1. ~IsNotification(f)
  <2>1. IsNotification(f) => is_receive' = 1
    BY NotificationEnds DEF EndsWith
  <2> QED BY <2>1
<1>2. /\ result'[cmd] = IF f.text = "STATE" THEN Documented(cmd, f.len) ELSE result[cmd]
      /\ client' = IF f.text = "CLIENT" /\ RowFits(f.link) /\ f.len \in ClientStates
                   THEN [client EXCEPT ![f.link] = f.len] ELSE client
  BY <1>1, TableStored
<1>3. Documented(cmd, said)' = Documented(cmd, said)
  <2>1. PICK c : c = cmd
    OBVIOUS
  <2>2. Documented(c, said)' = Documented(c, said)
    BY DocumentedSame
  <2>3. Documented(cmd, said)' = Documented(c, said)'
    BY <2>1
  <2> QED BY <2>1, <2>2, <2>3
<1>4. /\ f.text = "STATE" => f.len = said
      /\ f.text = "CLIENT" /\ f.link = 0 => f.len = said
  OBVIOUS
<1> HIDE DEF f
<1>5. Awaits("STATE", NoLink)' \/ result'[cmd] = Documented(cmd, said)
  <2>1. CASE f.text = "STATE"
    BY <1>2, <1>4, <2>1
  <2>2. CASE f.text # "STATE"
    <3>1. Awaits("STATE", NoLink) => Awaits("STATE", NoLink)'
      BY <2>2, AwaitsDropped DEF f
    <3> QED BY <1>2, <2>2, <3>1 DEF TableKept
  <2> QED BY <2>1, <2>2
<1>6. ASSUME mux # 0, modem_mux # 0, said \in ClientStates, RowFits(0)
      PROVE  Awaits("CLIENT", 0)' \/ client'[0] = said
  <2>1. client \in [Link -> ClientStates \cup {Unknown}] /\ 0 \in Link
    BY DEF TypeInv, ResultsTyped, Link
  <2>2. CASE f.text = "CLIENT" /\ f.link = 0
    BY <1>2, <1>4, <1>6, <2>1, <2>2
  <2>3. CASE ~(f.text = "CLIENT" /\ f.link = 0)
    <3>1. Awaits("CLIENT", 0) => Awaits("CLIENT", 0)'
      BY <2>3, AwaitsDropped DEF f
    <3>2. client'[0] = client[0]
      BY <1>2, <2>1, <2>3
    <3> QED BY <1>6, <3>1, <3>2 DEF TableKept
  <2> QED BY <2>2, <2>3
<1>7. RowFits(0)' <=> RowFits(0)
  BY FitsSame
<1> QED BY <1>3, <1>5, <1>6, <1>7 DEF TableKept

-----------------------------------------------------------------------------
(* The driver gets a line.                                                 *)

\* What a line leaves alone, and whose it is while nothing is cut.
LEMMA StoredGets ==
  ASSUME TypeInv, Deliver
  PROVE  /\ Parse(wire[1].f) /\ UNCHANGED <<cmd, said, modem_mux, reply, user_data>>
         /\ is_receive' = 0 => mux' = mux
<1>1. Head(wire) = wire[1] /\ simx_receive_msg(wire[1].f) /\ wire[1].f \in Frame
  BY DeliverGets
<1>2. UNCHANGED user_data
  BY <1>1, LineKeepsCommand DEF TypeInv
<1> QED BY <1>1, <1>2, DeliverGets DEF Deliver

\* The lines of a report.
LEMMA ReportLine ==
  ASSUME TypeInv, Numbers \subseteq 0..(ByteMod - 1), is_receive = 0, NEW a,
         IsReport(a, cmd, said) \/ IsSms(a, cmd, said),
         NEW k \in 1..(Len(a) - 1), state = StateAfter(k, Len(a)), ReportKept,
         simx_receive_msg(a[k + 1]), Parse(a[k + 1]), is_receive' = 0, wire[1].f = a[k + 1],
         NEW z, Dropped(z, wire), wire' = z, Behind(z, a, k + 1, 0),
         UNCHANGED <<cmd, said>>
  PROVE  ReportKept'
<1>1. said \in Nat /\ said \in Numbers \cup {0}
  BY SaidNumber DEF TypeInv, LineTyped
<1>2. cmd \in RframeCmds /\ cmd # "CIPSTATUS"
  BY DEF IsReport, IsSms, RframeCmds
<1>3. Documented(cmd, said)' = Documented(cmd, said)
  <2>1. PICK c : c = cmd
    OBVIOUS
  <2>2. Documented(c, said)' = Documented(c, said)
    BY <1>2, <2>1, DocumentedSame
  <2>3. Documented(cmd, said)' = Documented(c, said)'
    BY <2>1
  <2> QED BY <2>1, <2>2, <2>3
<1>4. Kept(said)' = Kept(said)
  BY DEF Kept
<1>5. /\ Len(a) \in Nat /\ Len(z) \in Nat /\ k + 1 \in Nat
      /\ Len(a) \in {4, 5} /\ (cmd = "CMGR" <=> Len(a) = 5)
      /\ Len(a) = 5 => a[3] = Saying("TEXT", said)
      /\ a[2] = Report(cmd, said) /\ (Len(a) = 4 => a[3] = Empty) /\ (Len(a) = 5 => a[4] = Empty)
  <2>1. Len(z) \in Nat
    BY DEF Dropped
  <2>2. CASE IsReport(a, cmd, said)
    BY <2>1, <2>2 DEF IsReport
  <2>3. CASE IsSms(a, cmd, said)
    BY <2>1, <2>3 DEF IsSms
  <2> QED BY <2>2, <2>3
<1>6. k + 1 < Len(a)
  <2>1. CASE IsReport(a, cmd, said)
    <3>1. Len(a) = 4
      BY <2>1 DEF IsReport
    <3>2. k # 3
      BY <1>1, <2>1, <3>1, ReportReads, EndsNotStays DEF EndsWith
    <3> QED BY <3>1, <3>2
  <2>2. CASE IsSms(a, cmd, said)
    <3>1. Len(a) = 5
      BY <2>2 DEF IsSms
    <3>2. k # 4
      BY <1>1, <2>2, <3>1, SmsReads, EndsNotStays DEF EndsWith
    <3> QED BY <3>1, <3>2
  <2> QED BY <2>1, <2>2
<1>7. CASE k = 1
  <2>1. state = "CMD" /\ a[2] = Report(cmd, said) /\ Parse(a[2])
    BY <1>2, <1>5, <1>7 DEF StateAfter, AfterFirst
  <2>2. result'[cmd] = Documented(cmd, said)
    BY <1>1, <1>2, <2>1, ReportStored
  <2>3. cmd = "CMGR" => Awaits("TEXT", NoLink)'
    <3>1. Saying("TEXT", said).text = "TEXT" /\ Saying("TEXT", said).link = NoLink
      BY DEF Saying, Line
    <3>2. cmd = "CMGR" => 3 \in 1..Len(a) /\ k + 1 < 3
      BY <1>5, <1>7
    <3>3. cmd = "CMGR" => Awaits(a[3].text, a[3].link)'
      BY <1>5, <3>2, AwaitsBehind
    <3> QED BY <1>5, <3>1, <3>3
  <2> QED BY <1>3, <2>2, <2>3 DEF ReportKept
<1>8. CASE k # 1
  <2>1. state \in {"MSG", "STATUS"} /\ (k + 1 < Len(a) => state = "MSG")
    BY <1>2, <1>5, <1>8 DEF StateAfter
  <2>2. result[cmd] = Documented(cmd, said)
        /\ (cmd = "CMGR" => Awaits("TEXT", NoLink) \/ sms_text = Kept(said))
    BY <1>2, <2>1 DEF ReportKept
  <2>3. CASE a[k + 1] = Empty
    <3>1. UNCHANGED <<result, sms_text>>
      <4>1. ~Parsed(a[k + 1])
        BY <1>2, <2>1, <2>3 DEF Parsed, Empty, Line, TwoBytes, MframeCmds, IpframeCmds, RframeCmds,
             EchoMatches
      <4> QED BY <4>1, NotStored
    <3>2. Awaits("TEXT", NoLink) => Awaits("TEXT", NoLink)'
      BY <2>3, AwaitsDropped DEF Empty, Line
    <3> QED BY <1>3, <1>4, <2>2, <3>1, <3>2 DEF ReportKept
  <2>4. CASE a[k + 1] = Saying("TEXT", said) /\ cmd = "CMGR"
    <3>1. sms_text' = Kept(said) /\ result' = result
      BY <1>1, <1>6, <2>1, <2>4, TextStored
    <3> QED BY <1>3, <1>4, <2>2, <3>1 DEF ReportKept
  <2>5. a[k + 1] = Empty \/ (a[k + 1] = Saying("TEXT", said) /\ cmd = "CMGR")
    <3>1. k = 2 \/ (k = 3 /\ Len(a) = 5)
      <4>1. Len(a) = 4 => k = 2
        BY <1>6, <1>8
      <4>2. Len(a) = 5 => k = 2 \/ k = 3
        BY <1>6, <1>8
      <4> QED BY <1>5, <4>1, <4>2
    <3> QED BY <1>5, <3>1
  <2> QED BY <2>3, <2>4, <2>5
<1> QED BY <1>7, <1>8

\* The lines of the table.
LEMMA TableGoesOn ==
  ASSUME TypeInv, is_receive = 0, NEW a, IsTable(a, cmd, said),
         NEW k \in 1..(Len(a) - 1), state = StateAfter(k, Len(a)), TableKept,
         wire[1].f = a[k + 1], wire[1].f \in Frame, simx_receive_msg(wire[1].f),
         Parse(wire[1].f), is_receive' = 0,
         NEW z, Dropped(z, wire), wire' = z, Behind(z, a, k + 1, 0),
         UNCHANGED <<cmd, said, mux, modem_mux, reply, user_data>>
  PROVE  TableKept'
<1>1. /\ cmd = "CIPSTATUS" /\ Len(a) \in {5, 7} /\ (Len(a) = 7 <=> modem_mux # 0)
      /\ a[2] = Line("OK") /\ a[3] = Empty /\ a[4] = Saying("STATE", said) /\ a[5] = Empty
      /\ Len(a) = 7 => a[6] = Row(0, said) /\ a[7] = Row(7, said)
      /\ Len(z) \in Nat
  BY DEF IsTable, Dropped
<1>2. /\ Line("OK").text = "OK" /\ Empty.text = "CRLF"
      /\ Saying("STATE", said).text = "STATE" /\ Saying("STATE", said).link = NoLink
      /\ Saying("STATE", said).len = said
      /\ Row(0, said).text = "CLIENT" /\ Row(0, said).link = 0 /\ Row(0, said).len = said
      /\ Row(7, said).text = "CLIENT" /\ Row(7, said).link = 7
  BY DEF Line, Empty, Saying, Row, LinkLine
<1>3. CASE k = 1
  <2>1. Awaits("STATE", NoLink)'
    <3>1. 4 \in 1..Len(a) /\ k + 1 \in Nat /\ k + 1 < 4 /\ Len(a) \in Nat
      BY <1>1, <1>3
    <3>2. Awaits(a[4].text, a[4].link)'
      BY <1>1, <3>1, AwaitsBehind
    <3> QED BY <1>1, <1>2, <3>2
  <2>2. modem_mux # 0 => Awaits("CLIENT", 0)'
    <3>1. modem_mux # 0 => 6 \in 1..Len(a) /\ k + 1 \in Nat /\ k + 1 < 6 /\ Len(a) \in Nat
      BY <1>1, <1>3
    <3>2. modem_mux # 0 => Awaits(a[6].text, a[6].link)'
      BY <1>1, <3>1, AwaitsBehind
    <3> QED BY <1>1, <1>2, <3>2
  <2> QED BY <2>1, <2>2 DEF TableKept
<1>4. CASE k # 1
  <2>1. state = "MSG"
    BY <1>1, <1>4 DEF StateAfter, RframeCmds
  <2>2. k \in 2..6
    BY <1>1, <1>4
  <2>3. a[k + 1] \in {Empty, Saying("STATE", said), Row(0, said), Row(7, said)}
    <3>1. k = 2 \/ k = 3 \/ k = 4 \/ (Len(a) = 7 /\ (k = 5 \/ k = 6))
      BY <1>1, <2>2
    <3> QED BY <1>1, <3>1
  <2>4. /\ wire[1].f.text = "STATE" => wire[1].f.len = said
        /\ wire[1].f.text = "CLIENT" /\ wire[1].f.link = 0 => wire[1].f.len = said
    BY <1>2, <2>3
  <2> QED BY <1>1, <2>1, <2>4, TableLine
<1> QED BY <1>3, <1>4

\* The next line of the answer to a query.
LEMMA StoredRest ==
  ASSUME TypeInv, Numbers \subseteq 0..(ByteMod - 1), EventPairs(wire), is_receive = 0,
         ReportKept, TableKept, NEW a, NEW k, NEW p, Answering(a, k, p), k # 0,
         Deliver, wire[1].whose # "event", is_receive' = 0
  PROVE  ReportKept' /\ TableKept'
<1> DEFINE z == Tail(wire)
<1>1. /\ Dropped(z, wire) /\ wire[1].f \in Frame /\ simx_receive_msg(wire[1].f)
      /\ Parse(wire[1].f) /\ UNCHANGED <<cmd, said, modem_mux, reply, user_data, mux>>
      /\ prompting = <<>> => wire' = z
  BY DeliverGets, StoredGets
<1>2. /\ FirstAnswer(a, cmd, said) /\ Behind(wire, a, k, p) /\ Len(a) \in Nat /\ said \in Nat
      /\ ~IsPrompt(a) => prompting = <<>>
  BY SaidNumber DEF Answering, FirstAnswer
<1> HIDE DEF z
<1>3. wire[1] = [f |-> a[k + 1], whose |-> "own"] /\ Behind(z, a, k + 1, 0) /\ k \in Nat /\ k < Len(a)
  <2>1. Dropped(z, wire) /\ Behind(wire, a, k, p) /\ Len(a) \in Nat /\ wire[1].whose # "event"
    BY <1>1, <1>2
  <2> QED BY <2>1, DropOwn
<1>4. k \in 1..(Len(a) - 1) /\ k # Len(a)
  BY <1>2, <1>3
<1>5. state = StateAfter(k, Len(a))
  BY <1>4, Zenon DEF Answering
<1>6. wire[1].f = a[k + 1] /\ simx_receive_msg(a[k + 1]) /\ Parse(a[k + 1])
  BY <1>1, <1>3
<1>7. ASSUME cmd \in RframeCmds \cup {"CIPSTATUS"}
      PROVE  IsReport(a, cmd, said) \/ IsSms(a, cmd, said) \/ IsTable(a, cmd, said)
  <2>1. ~IsRefusal(a)
    <3> SUFFICES ASSUME IsRefusal(a) PROVE FALSE
      OBVIOUS
    <3>1. Len(a) = 2
      BY DEF IsRefusal
    <3>2. k = 1
      BY <1>4, <3>1
    <3>3. state = AfterFirst("RN") /\ simx_receive_msg(a[2])
      BY <1>5, <1>6, <3>2 DEF StateAfter
    <3> QED BY <3>3, RefusalReads
  <2>2. cmd \notin DframeCmds /\ cmd \notin PromptCmds /\ cmd \notin IpframeCmds
    BY <1>7 DEF RframeCmds, DframeCmds, PromptCmds, WframeCmds, SdframeCmds, IpframeCmds
  <2> QED BY <1>2, <2>1, <2>2 DEF FirstAnswer, IsVerdict, IsAddress
<1>8. ASSUME cmd \in RframeCmds \cup {"CIPSTATUS"} PROVE wire' = z
  <2>1. ~IsPrompt(a)
    <3>1. Len(a) # 2
      BY <1>7, <1>8 DEF IsReport, IsSms, IsTable
    <3> QED BY <3>1 DEF IsPrompt
  <2> QED BY <1>1, <1>2, <2>1
<1>9. CASE cmd \in RframeCmds
  <2>1. IsReport(a, cmd, said) \/ IsSms(a, cmd, said)
    BY <1>7, <1>9 DEF IsTable, RframeCmds
  <2>2. ReportKept'
    BY <1>1, <1>3, <1>4, <1>5, <1>6, <1>8, <1>9, <2>1, ReportLine
  <2>3. TableKept'
    BY <1>1, <1>9 DEF TableKept, RframeCmds
  <2> QED BY <2>2, <2>3
<1>10. CASE cmd = "CIPSTATUS"
  <2>1. IsTable(a, cmd, said)
    BY <1>7, <1>10 DEF IsReport, IsSms, RframeCmds
  <2>2. TableKept'
    BY <1>1, <1>3, <1>4, <1>5, <1>6, <1>8, <1>10, <2>1, TableGoesOn
  <2>3. ReportKept'
    BY <1>1, <1>10 DEF ReportKept, RframeCmds
  <2> QED BY <2>2, <2>3
<1>11. CASE cmd \notin RframeCmds /\ cmd # "CIPSTATUS"
  BY <1>1, <1>11 DEF ReportKept, TableKept
<1> QED BY <1>9, <1>10, <1>11

\* Any line while the answer to a command sent on a quiet line is under way.
LEMMA StoredAnswering ==
  ASSUME TypeInv, Numbers \subseteq 0..(ByteMod - 1), EventPairs(wire), is_receive = 0,
         ReportKept, TableKept, NEW a, NEW k, NEW p, Answering(a, k, p),
         Deliver, is_receive' = 0, ~cut'
  PROVE  ReportKept' /\ TableKept'
<1>1. /\ FirstAnswer(a, cmd, said) /\ Behind(wire, a, k, p) /\ Len(a) \in Nat /\ Len(a) >= 2
      /\ ~IsPrompt(a) => prompting = <<>>
  BY DEF Answering, FirstAnswer
<1>2. CASE k = 0 /\ wire[1].whose # "event"
  <2>1. Answering(a, 0, p)
    BY <1>2, Zenon
  <2>2. Answering(a, 1, 0)'
    BY <1>2, <2>1, AnsweringFirst
  <2>3. state' = StateAfter(1, Len(a))'
    <3>1. Len(a) # 1 /\ ~(1 = 0)
      BY <1>1
    <3> QED BY <2>2, <3>1, Zenon DEF Answering
  <2>4. state' = AfterFirst("RN")'
    BY <2>3 DEF StateAfter
  <2> QED BY <2>4, FirstStored
<1>3. CASE k = 0 /\ wire[1].whose = "event"
  <2>1. PICK q : Answering(a, k, q)'
    BY <1>3, AnsweringEvent
  <2>2. Fresh("RN")'
    <3>1. ~(k > 0) /\ k # Len(a)
      BY <1>1, <1>3
    <3> QED BY <2>1, <3>1, Zenon DEF Answering
  <2> QED BY <2>2, FirstStored DEF Fresh
<1>4. CASE k # 0 /\ wire[1].whose # "event"
  BY <1>4, StoredRest
<1>5. CASE k # 0 /\ wire[1].whose = "event"
  <2> DEFINE z == Tail(wire)
  <2>1. /\ Dropped(z, wire) /\ wire[1].f \in Frame /\ simx_receive_msg(wire[1].f)
        /\ Parse(wire[1].f) /\ UNCHANGED <<cmd, said, modem_mux, reply, user_data, mux>>
        /\ prompting = <<>> => wire' = z
    BY DeliverGets, StoredGets
  <2> HIDE DEF z
  <2>2. k = Len(a) /\ ~IsPrompt(a) /\ cmd = "CIPSTATUS" /\ state = "MSG"
    <3>1. ~(k > 0 /\ k < Len(a) /\ p = 0)
      <4>1. Len(wire) \in Nat
        BY <2>1 DEF Dropped
      <4> QED BY <1>1, <1>5, <4>1, AnswerGoesOn
    <3> QED BY <1>5, <3>1, Zenon DEF Answering
  <2>3. wire' = z
    BY <1>1, <2>1, <2>2
  <2>4. wire[1].f.text # "STATE" /\ wire[1].f.text # "CLIENT"
    <3>1. 1 \in 1..Len(wire)
      BY <2>1 DEF Dropped
    <3>2. wire[1].f = Empty \/ wire[1].f.text \in Events
      BY <1>5, <3>1 DEF EventPairs
    <3>3. Empty.text = "CRLF"
      BY DEF Empty, Line
    <3> QED BY <3>2, <3>3, EventTexts DEF AnswerOnly
  <2>5. TableKept'
    BY <2>1, <2>2, <2>3, <2>4, TableLine
  <2>6. ReportKept'
    BY <2>1, <2>2 DEF ReportKept, RframeCmds
  <2> QED BY <2>5, <2>6
<1> QED BY <1>2, <1>3, <1>4, <1>5

LEMMA StoredDeliver ==
  ASSUME TypeInv, Numbers \subseteq 0..(ByteMod - 1), AnsInv, StoredInv, Deliver
  PROVE  StoredInv'
<1> SUFFICES ASSUME is_receive' = 0, quiet', ~cut'
             PROVE  ReportKept' /\ TableKept'
  BY DEF StoredInv, InFlight
<1>1. /\ simx_receive_msg(wire[1].f) /\ wire[1].f \in Frame /\ Record(wire[1].whose = "own")
      /\ UNCHANGED <<cmd, quiet>> /\ is_receive = 0
  BY DeliverGets
<1>2. ~cut /\ quiet
  BY <1>1, OnlyOwnEnds
<1>3. InStep /\ EventPairs(wire) /\ ReportKept /\ TableKept
  BY <1>1, <1>2 DEF AnsInv, StoredInv, InFlight
<1>4. CASE Asked
  <2>1. Asked'
    BY <1>1, <1>3, <1>4, AskedDeliver
  <2> QED BY <2>1, FirstStored DEF Asked, Fresh
<1>5. CASE \E a, k, p : Answering(a, k, p)
  BY <1>1, <1>3, <1>5, StoredAnswering
<1>6. CASE \E a, k, p : Completing(a, k, p)
  <2>1. cmd \in PromptCmds
    BY <1>6, TextCommands DEF Completing
  <2>2. cmd' \notin RframeCmds /\ cmd' # "CIPSTATUS"
    BY <1>1, <2>1 DEF PromptCmds, WframeCmds, SdframeCmds, RframeCmds
  <2> QED BY <2>2 DEF ReportKept, TableKept
<1> QED BY <1>1, <1>2, <1>3, <1>4, <1>5, <1>6 DEF InStep, InFlight

-----------------------------------------------------------------------------
(* The other steps.                                                        *)

\* What the answer is made of and what has been stored stay.
LEMMA StoredSame ==
  ASSUME ReportKept, TableKept,
         UNCHANGED <<cmd, state, said, mux, modem_mux, reply, user_data, result, client, sms_text>>,
         \A t, n : Awaits(t, n) => Awaits(t, n)'
  PROVE  ReportKept' /\ TableKept'
<1>1. Documented(cmd, said)' = Documented(cmd, said)
  BY DEF Documented
<1>2. Kept(said)' = Kept(said)
  BY DEF Kept
<1>3. RowFits(0)' <=> RowFits(0)
  BY FitsSame
<1>4. ReportKept'
  BY <1>1, <1>2 DEF ReportKept
<1>5. TableKept'
  BY <1>1, <1>3 DEF TableKept
<1> QED BY <1>4, <1>5

LEMMA StoredUnchanged ==
  ASSUME StoredInv,
         UNCHANGED <<is_receive, quiet, cut, wire, cmd, state, said, mux, modem_mux, reply,
                     user_data, result, client, sms_text>>
  PROVE  StoredInv'
<1>1. \A t, n : Awaits(t, n) => Awaits(t, n)'
  BY DEF Awaits
<1> QED BY <1>1, StoredSame DEF StoredInv, InFlight

LEMMA StoredAnnounce ==
  ASSUME TypeInv, StoredInv, Announce
  PROVE  StoredInv'
<1>1. UNCHANGED <<is_receive, quiet, cut, cmd, state, said, mux, modem_mux, reply, user_data,
                  result, client, sms_text>>
  BY DEF Announce, vars, results, modem, history, modes
<1>2. PICK x \in Seq(Frame) : wire' = wire \o Stamp(x, "event")
  <2>1. PICK t \in Events :
          wire' = wire \o Stamp(<<Line("CRLF"),
                    IF t \in LinkTexts THEN Linked(t)
                    ELSE IF t = "+CMTI" THEN LinkLine(t, 1) ELSE Line(t)>>, "event")
    BY DEF Announce
  <2> QED BY <2>1, EventSeq
<1>3. Written(wire', wire, x, "event")
  BY <1>2, WrittenLines DEF TypeInv, LineTyped
<1>4. \A t, n : Awaits(t, n) => Awaits(t, n)'
  <2>1. \A i \in 1..Len(wire) : i \in 1..Len(wire') /\ wire'[i] = wire[i]
    BY <1>3 DEF Written
  <2> QED BY <2>1 DEF Awaits
<1> QED BY <1>1, <1>4, StoredSame DEF StoredInv, InFlight

\* The modem takes a command whose answer has not begun.
LEMMA StoredWork ==
  ASSUME TypeInv, AnsInv, Work
  PROVE  StoredInv'
<1> SUFFICES ASSUME is_receive' = 0, quiet', ~cut' PROVE ReportKept' /\ TableKept'
  BY DEF StoredInv, InFlight
<1>1. UNCHANGED <<is_receive, quiet, cut, cmd, state>> /\ pending # <<>>
  BY DEF Work, vars
<1>2. InStep
  BY <1>1 DEF AnsInv
<1>3. Asked
  BY <1>1, <1>2 DEF InStep, InFlight, Answering, Completing
<1>4. state = "RN" \/ state = AfterFirst("RN")
  BY <1>3 DEF Asked, Fresh
<1>5. AfterFirst("RN")' = AfterFirst("RN")
  BY <1>1 DEF AfterFirst
<1> QED BY <1>1, <1>4, <1>5, FirstStored

LEMMA StoredTimer ==
  ASSUME TypeInv, StoredInv, Timer
  PROVE  StoredInv'
<1> SUFFICES ASSUME is_receive' = 0, quiet', ~cut' PROVE ReportKept' /\ TableKept'
  BY DEF StoredInv, InFlight
<1>1. /\ UNCHANGED <<cmd, reply, user_data, mux, state, modem_mux, wire, quiet, said>>
      /\ UNCHANGED <<result, client, sms_text>> /\ is_receive = 0 /\ Record(FALSE)
  BY TimerKeepsCommand DEF Timer, modem, results, modes, Record
<1>2. ~cut
  BY <1>1 DEF Record
<1>3. \A t, n : Awaits(t, n) => Awaits(t, n)'
  BY <1>1 DEF Awaits
<1>4. ReportKept /\ TableKept
  BY <1>1, <1>2 DEF StoredInv, InFlight
<1> QED BY <1>1, <1>3, <1>4, StoredSame

LEMMA StoredSpoilt ==
  ASSUME TypeInv, AnsInv, DeliverSpoilt
  PROVE  StoredInv'
<1> SUFFICES ASSUME is_receive' = 0, quiet', ~cut' PROVE FALSE
  BY DEF StoredInv, InFlight
<1>1. /\ Dropped(Tail(wire), wire) /\ wire[1].f.text = "PROMPT" /\ cmd \notin PromptCmds
      /\ Record(FALSE) /\ quiet' = quiet
  BY SpoiltGets
<1>2. ~cut
  BY <1>1 DEF Record
<1>3. InStep /\ EventPairs(wire) /\ Len(wire) \in Nat /\ Len(wire) >= 1
  BY <1>1, <1>2 DEF AnsInv, Dropped
<1>4. ~quiet
  BY <1>1, <1>3, NoPromptDue
<1> QED BY <1>1, <1>4

LEMMA StoredNext ==
  ASSUME TypeInv, Numbers \subseteq 0..(ByteMod - 1), AnsInv, StoredInv, [SystemNext]_allVars
  PROVE  StoredInv'
<1>1. CASE StartScript \/ Return \/ UNCHANGED allVars
  <2>1. UNCHANGED <<is_receive, quiet, cut, wire, cmd, state, said, mux, modem_mux, reply,
                    user_data, result, client, sms_text>>
    BY <1>1 DEF StartScript, Return, allVars, vars, modes, modem, history, results
  <2> QED BY <2>1, StoredUnchanged
<1>2. ASSUME NEW r \in Replies, Call(r) PROVE StoredInv'
  <2>1. state' = "RN"
    BY <1>2, CallStarts
  <2> QED BY <2>1, FirstStored DEF StoredInv
<1> QED BY <1>1, <1>2, StoredWork, StoredAnnounce, StoredDeliver, StoredSpoilt, StoredTimer
        DEF SystemNext

-----------------------------------------------------------------------------
(* The theorem.                                                            *)

\* The client rows stored are those the caller's array has a place for.
LEMMA RowsFit ==
  ASSUME TypeInv, [SystemNext]_allVars, NEW n \in Link, client'[n] # client[n]
  PROVE  n < user_data[reply]
<1>1. client' # client
  OBVIOUS
<1>2. PICK f : Parse(f)
  <2>1. ~(StartScript \/ Return \/ Work \/ Announce \/ Timer \/ UNCHANGED allVars)
    BY <1>1 DEF StartScript, Return, Work, Announce, Timer, results, allVars
  <2>2. ~\E r \in Replies : Call(r)
    BY <1>1 DEF Call, results
  <2> QED BY <2>1, <2>2 DEF SystemNext, Deliver, DeliverSpoilt
<1>3. _simx_connection_status(f)
  BY <1>1, <1>2 DEF Parse, results, Number, _simx_signal_quality_report_resp, Address,
     _simx_sms_read_resp
<1>4. RowFits(f.link) /\ client' = [client EXCEPT ![f.link] = f.len]
  BY <1>1, <1>3 DEF _simx_connection_status
<1>5. client \in [Link -> ClientStates \cup {Unknown}]
  BY DEF TypeInv, ResultsTyped
<1>6. f.link = n
  BY <1>4, <1>5
<1> QED BY <1>4, <1>6 DEF RowFits

\* The line a query ends with OK on, and what it leaves.
LEMMA QueryEnds ==
  ASSUME TypeInv, ModeInv, Numbers \subseteq 0..(ByteMod - 1), AnsInv, StoredInv, ~doubt,
         [SystemNext]_allVars, Concluded, quiet, ~cut', status'[reply] = "OK", cmd \in Queries
  PROVE  /\ result'[cmd] = Documented(cmd, said)
         /\ cmd = "CMGR" => sms_text' = Kept(said)
         /\ cmd = "CIPSTATUS" /\ mux # 0 /\ said \in ClientStates =>
              \A n \in {0, 7} : n < user_data[reply] => client'[n] = said
<1>1. is_receive = 0 /\ is_receive' = 1 /\ quiet = TRUE
  <2>1. quiet \in BOOLEAN
    BY DEF TypeInv, LineTyped
  <2> QED BY <2>1 DEF Concluded
<1>2. Deliver
  <2>1. ASSUME DeliverSpoilt \/ Timer PROVE FALSE
    <3>1. Record(FALSE)
      BY <2>1 DEF DeliverSpoilt, Timer
    <3> QED BY <3>1 DEF Record
  <2> QED BY <2>1, WhoEnds
<1> DEFINE z == Tail(wire)
<1>3. /\ Dropped(z, wire) /\ wire[1].f \in Frame /\ simx_receive_msg(wire[1].f)
      /\ Record(wire[1].whose = "own") /\ Parse(wire[1].f)
  BY <1>2, DeliverGets, StoredGets
<1> HIDE DEF z
<1>4. ~cut /\ wire[1].whose = "own"
  BY <1>1, <1>3, OnlyOwnEnds
<1>5. InStep /\ EventPairs(wire) /\ ReportKept /\ TableKept
  BY <1>1, <1>4 DEF AnsInv, StoredInv, InFlight
<1>6. ~Asked
  <2>1. 1 \in 1..Len(wire)
    BY <1>3 DEF Dropped
  <2> QED BY <1>4, <2>1 DEF Asked, OnlyEvents
<1>7. ~\E a, k, p : Completing(a, k, p)
  <2>1. cmd \notin PromptCmds
    BY DEF Queries, PromptCmds, WframeCmds, SdframeCmds
  <2> QED BY <2>1, TextCommands DEF Completing
<1>8. PICK a, k, p : Answering(a, k, p)
  BY <1>1, <1>5, <1>6, <1>7 DEF InStep, InFlight
<1>9. /\ FirstAnswer(a, cmd, said) /\ Behind(wire, a, k, p) /\ Len(a) \in Nat /\ said \in Nat
      /\ said \in Numbers \cup {0} /\ said \in 0..(ByteMod - 1)
  BY <1>8, SaidNumber, NumberAssumption DEF Answering, FirstAnswer, TypeInv, LineTyped
<1>10. p = 0 /\ k \in Nat /\ k < Len(a) /\ wire[1] = [f |-> a[k + 1], whose |-> "own"]
  <2>1. Dropped(z, wire) /\ Behind(wire, a, k, p) /\ Len(a) \in Nat /\ wire[1].whose # "event"
    BY <1>3, <1>4, <1>9
  <2>2. wire[1] = [f |-> a[k + 1], whose |-> "own"] /\ Behind(z, a, k + 1, 0) /\ k \in Nat
        /\ k < Len(a)
    BY <2>1, DropOwn
  <2>3. p = 0
    <3>1. p \in Nat /\ k \in 0..Len(a) /\ Len(wire) >= 1
      BY <1>3, <2>1 DEF Behind, Dropped
    <3>2. ~(0 < p)
      <4>1. 1 \in 1..Len(wire)
        BY <1>3 DEF Dropped
      <4>2. IF p < 1 /\ 1 <= p + (Len(a) - k)
            THEN wire[1] = [f |-> a[1 - p + k], whose |-> "own"] ELSE wire[1].whose = "event"
        BY <2>1, <4>1 DEF Behind
      <4> QED BY <1>4, <3>1, <4>2
    <3> QED BY <3>1, <3>2
  <2> QED BY <2>2, <2>3
<1>11. k # 0
  <2> SUFFICES ASSUME k = 0 PROVE FALSE
    OBVIOUS
  <2>1. Answering(a, 0, p) /\ wire[1].whose # "event"
    BY <1>4, <1>8, Zenon
  <2>2. is_receive' = 0
    BY <1>1, <1>2, <1>5, <2>1, AnsweringFirst
  <2> QED BY <1>1, <2>2
<1>12. k \in 1..(Len(a) - 1) /\ k # Len(a)
  BY <1>9, <1>10, <1>11
<1>13. state = StateAfter(k, Len(a)) /\ (cmd = "CIPSTATUS" /\ mux = 0 => k <= 3)
  BY <1>8, <1>11, <1>12, Zenon DEF Answering
<1>14. wire[1].f = a[k + 1] /\ simx_receive_msg(a[k + 1]) /\ Parse(a[k + 1]) /\ a[k + 1] \in Frame
  BY <1>3, <1>10
<1>15. \A s : ~StaysIn(s)
  BY <1>1, EndsNotStays
<1>16. \A t, n : k + 1 = Len(a) /\ Awaits(t, n) => t = a[Len(a)].text /\ n = a[Len(a)].link
  <2>1. k + 1 = Len(a) => Behind(wire, a, Len(a) - 1, 0) /\ Len(a) >= 1
    <3>1. k + 1 = Len(a) => k = Len(a) - 1 /\ Len(a) >= 1
      BY <1>9, <1>10
    <3> QED BY <1>9, <1>10, <3>1
  <2> QED BY <1>9, <2>1, AwaitsLast
<1>17. ~IsRefusal(a)
  <2> SUFFICES ASSUME IsRefusal(a) PROVE FALSE
    OBVIOUS
  <2>1. Len(a) = 2 /\ a[2].text \in Refusals
    BY RefusalLine DEF IsRefusal
  <2>2. a[k + 1].text \in Refusals
    <3>1. k = 1
      BY <1>12, <2>1
    <3> QED BY <2>1, <3>1
  <2>3. status'[reply] \notin Success
    BY <1>1, <1>14, <2>2, NoFalseSuccess DEF Refusals, Success
  <2> QED BY <2>3 DEF Success
<1>21. user_data[reply] \in Nat
  <2>1. reply \in Replies
    BY <1>1 DEF TypeInv, IInv, InFlightIsServed, InFlight
  <2> QED BY <2>1 DEF TypeInv, IInv, TypeOK
<1>18. CASE IsReport(a, cmd, said) \/ IsSms(a, cmd, said)
  <2>1. cmd \in RframeCmds /\ cmd # "CIPSTATUS" /\ k + 1 = Len(a) /\ a[Len(a)] = Line("OK")
        /\ Len(a) \in {4, 5}
    <3>1. CASE IsReport(a, cmd, said)
      <4>1. Len(a) = 4
        BY <3>1 DEF IsReport
      <4>2. k = 3
        BY <1>1, <1>9, <1>12, <1>13, <1>14, <1>15, <3>1, <4>1, ReportReads
      <4> QED BY <3>1, <4>1, <4>2 DEF IsReport, RframeCmds
    <3>2. CASE IsSms(a, cmd, said)
      <4>1. Len(a) = 5
        BY <3>2 DEF IsSms
      <4>2. k = 4
        BY <1>1, <1>9, <1>12, <1>13, <1>14, <1>15, <3>2, <4>1, SmsReads
      <4> QED BY <3>2, <4>1, <4>2 DEF IsSms, RframeCmds
    <3> QED BY <1>18, <3>1, <3>2
  <2>2. state = "STATUS"
    <3>1. k # 1 /\ k = Len(a) - 1
      BY <1>12, <2>1
    <3> QED BY <1>13, <2>1, <3>1 DEF StateAfter
  <2>3. ~Awaits("TEXT", NoLink)
    <3>1. Line("OK").text = "OK"
      BY DEF Line
    <3> QED BY <1>16, <2>1, <3>1
  <2>4. result[cmd] = Documented(cmd, said) /\ (cmd = "CMGR" => sms_text = Kept(said))
    BY <1>5, <2>1, <2>2, <2>3 DEF ReportKept
  <2>5. UNCHANGED <<result, sms_text>>
    <3>1. ~Parsed(a[k + 1])
      BY <2>1, <2>2 DEF Parsed
    <3> QED BY <1>14, <3>1, NotStored
  <2> QED BY <2>1, <2>4, <2>5
<1>19. CASE IsAddress(a, cmd, said)
  <2>1. Len(a) = 2 /\ cmd = "CIFSR" /\ a[2] = Saying("IP", said)
    BY <1>19 DEF IsAddress, IpframeCmds
  <2>2. k = 1
    BY <1>12, <2>1
  <2>3. state = "MSG"
    BY <1>13, <2>1, <2>2 DEF StateAfter, AfterFirst, RframeCmds, DframeCmds, MframeCmds
  <2>4. result'[cmd] = said
    BY <1>1, <1>14, <2>1, <2>2, <2>3, AddressStored
  <2>5. Documented(cmd, said) = said
    BY <2>1, OtherTables, KnownNumbers
  <2> QED BY <2>1, <2>4, <2>5
<1>20. CASE IsTable(a, cmd, said)
  <2>1. /\ cmd = "CIPSTATUS" /\ Len(a) \in {5, 7} /\ (Len(a) = 7 <=> modem_mux # 0)
        /\ a[4] = Saying("STATE", said) /\ (Len(a) = 7 => a[7] = Row(7, said))
        /\ mux = modem_mux
    BY <1>20, ModesAgree DEF IsTable
  <2>2. (k = 3 /\ mux = 0) \/ k = 6
    <3>1. mux = 0 => k <= 3
      BY <1>13, <2>1
    <3> QED BY <1>1, <1>9, <1>12, <1>13, <1>14, <1>15, <1>20, <3>1, TableReads
  <2>3. state = "MSG"
    BY <1>13, <2>1, <2>2 DEF StateAfter, RframeCmds
  <2>4. /\ Saying("STATE", said).text = "STATE" /\ Saying("STATE", said).len = said
        /\ Row(7, said).text = "CLIENT" /\ Row(7, said).link = 7 /\ Row(7, said).len = said
    BY DEF Saying, Line, Row, LinkLine
  <2>5. CASE k = 3 /\ mux = 0
    <3>1. a[k + 1] = Saying("STATE", said)
      BY <2>1, <2>5
    <3>2. ~IsNotification(a[k + 1])
      BY <2>4, <3>1 DEF IsNotification, NotificationTexts
    <3>3. result'[cmd] = Documented(cmd, said)
      BY <1>1, <1>14, <2>1, <2>3, <2>4, <3>1, <3>2, TableStored
    <3> QED BY <2>1, <2>5, <3>3
  <2>6. CASE k = 6
    <3>1. Len(a) = 7
      <4>1. Len(a) # 5
        BY <1>12, <2>6
      <4> QED BY <2>1, <4>1
    <3>2. a[k + 1] = Row(7, said) /\ k + 1 = Len(a) /\ a[Len(a)] = Row(7, said)
      BY <2>1, <2>6, <3>1
    <3>3. ~IsNotification(a[k + 1])
      BY <2>4, <3>2 DEF IsNotification, NotificationTexts
    <3>4. /\ result'[cmd] = result[cmd]
          /\ client' = IF RowFits(7) /\ said \in ClientStates
                       THEN [client EXCEPT ![7] = said] ELSE client
      BY <1>1, <1>14, <2>1, <2>3, <2>4, <3>2, <3>3, TableStored
    <3>5. ~Awaits("STATE", NoLink) /\ ~Awaits("CLIENT", 0)
      <4>1. Awaits("STATE", NoLink) => "STATE" = "CLIENT"
        BY <1>16, <2>4, <3>2
      <4>2. Awaits("CLIENT", 0) => 0 = 7
        BY <1>16, <2>4, <3>2
      <4> QED BY <4>1, <4>2
    <3>6. result'[cmd] = Documented(cmd, said)
      BY <1>5, <2>1, <2>3, <3>4, <3>5 DEF TableKept
    <3>7. client \in [Link -> ClientStates \cup {Unknown}] /\ 0 \in Link /\ 7 \in Link
      BY DEF TypeInv, ResultsTyped, Link
    <3>8. ASSUME said \in ClientStates, 7 < user_data[reply]
          PROVE  client'[7] = said
      <4>1. RowFits(7)
        BY <1>21, <3>8 DEF RowFits
      <4> QED BY <3>4, <3>7, <3>8, <4>1
    <3>9. ASSUME said \in ClientStates, mux # 0, 0 < user_data[reply]
          PROVE  client'[0] = said
      <4>1. RowFits(0)
        BY <1>21, <3>9 DEF RowFits
      <4>2. client[0] = said
        BY <1>5, <2>1, <2>3, <3>5, <3>9, <4>1 DEF TableKept
      <4> QED BY <3>4, <3>7, <4>2
    <3> QED BY <2>1, <3>6, <3>8, <3>9
  <2> QED BY <2>2, <2>5, <2>6
<1> QED
  <2>1. ~IsVerdict(a, cmd) /\ cmd \notin PromptCmds
    BY DEF IsVerdict, Queries, DframeCmds, PromptCmds, WframeCmds, SdframeCmds
  <2> QED BY <1>9, <1>17, <1>18, <1>19, <1>20, <2>1, Zenon DEF FirstAnswer

\* While a query sent on a quiet line is under way its parsers have stored what of
\* the answer has come.
LEMMA AlwaysStored ==
  ASSUME Numbers \subseteq 0..(ByteMod - 1)
  PROVE  SystemSpec => []StoredInv
<1>1. SystemInit => StoredInv
  BY DEF SystemInit, Init, StoredInv, InFlight
<1>2. TypeInv /\ AnsInv /\ StoredInv /\ [SystemNext]_allVars => StoredInv'
  BY StoredNext
<1> QED BY <1>1, <1>2, AlwaysAns, PTL DEF SystemSpec

\* A query sent on a quiet line and answered OK has stored what the modem said in
\* the field its getter returns (gsm_status, signal_quality, con_state, the caller's
\* client array, and his sms if its line is shorter than the buffer); no row is
\* written behind the array.
\* The level of AT+CSQ is kept in a byte, so the numbers are taken to fit in one.
THEOREM ResultsStayAnswers ==
  ASSUME Numbers \subseteq 0..(ByteMod - 1)
  PROVE  SystemSpec => ResultsFollowAnswer
<1> DEFINE body ==
      /\ Concluded /\ quiet /\ ~cut' /\ ~doubt /\ status'[reply] = "OK" /\ cmd \in Queries =>
          /\ result'[cmd] = Documented(cmd, said)
          /\ cmd = "CMGR" /\ said + 2 < MsgLength => sms_text' = said
          /\ cmd = "CIPSTATUS" /\ mux # 0 /\ said \in ClientStates =>
               \A n \in {0, 7} : n < user_data[reply] => client'[n] = said
      /\ \A n \in Link : client'[n] # client[n] => n < user_data[reply]
<1>1. TypeInv /\ ModeInv /\ AnsInv /\ StoredInv /\ [SystemNext]_allVars => body
  <2> SUFFICES ASSUME TypeInv, ModeInv, AnsInv, StoredInv, [SystemNext]_allVars
               PROVE  body
    OBVIOUS
  <2>1. said + 2 < MsgLength => Kept(said) = said
    BY DEF Kept
  <2>2. ASSUME Concluded, quiet, ~cut', ~doubt, status'[reply] = "OK", cmd \in Queries
        PROVE  /\ result'[cmd] = Documented(cmd, said)
               /\ cmd = "CMGR" => sms_text' = Kept(said)
               /\ cmd = "CIPSTATUS" /\ mux # 0 /\ said \in ClientStates =>
                    \A n \in {0, 7} : n < user_data[reply] => client'[n] = said
    BY <2>2, QueryEnds
  <2>3. \A n \in Link : client'[n] # client[n] => n < user_data[reply]
    BY RowsFit
  <2> QED BY <2>1, <2>2, <2>3
<1>2. TypeInv /\ ModeInv /\ AnsInv /\ StoredInv /\ [SystemNext]_allVars => [body]_allVars
  BY <1>1
<1> QED BY <1>2, AlwaysAns, AlwaysStored, PTL DEF SystemSpec, ResultsFollowAnswer
=============================================================================
