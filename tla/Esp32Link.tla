------------------------------ MODULE Esp32Link ------------------------------
(***************************************************************************)
(* The firmware's connection (esp32/main): the link task logs in, starts   *)
(* the websocket client and looks after it once a second; the client's own *)
(* task handles its events; the WiFi driver comes and goes.  The tasks     *)
(* share the socket's flags, the two time stamps and one transmit buffer,  *)
(* without a lock.  Times are of the 32-bit millisecond clock, which wraps *)
(* every 49.7 days, in units the constants choose.                         *)
(*                                                                         *)
(* The pieces of a frame and what is in a frame are left out; so is the    *)
(* number in a greeting's stanza.                                          *)
(***************************************************************************)
EXTENDS Naturals

CONSTANTS
  Wrap,        \* values of the clock (2^32 in the code)
  Timeout,     \* IM_PONG_TIMEOUT_MS
  Period,      \* IM_HEARTBEAT_PERIOD_MS
  Delay,       \* longest sleep between two looks (one second)
  Late,        \* longest time from reading the clock to going to sleep (the sends)
  MaxBackoff   \* IM_BACKOFF_MAX_S

VARIABLES
  clock,       \* esp_timer_get_time() in milliseconds, modulo Wrap
  link,        \* the link task: where it is, its now, and the time since it read it or slept
  backoff,     \* its backoff_s
  hello,       \* its hello_sent
  sock,        \* the websocket client, and how far its CONNECTED event got
  stamp,       \* s_last_ping_ms and s_last_pong_ms
  wifi,        \* the driver: up, down with a retry to come, or down for good
  tx,          \* s_tx: whose frame it holds; and is an echo about to be sent
  since        \* true time since the stamps or the last PONG, and the last heartbeat (history)

vars == <<clock, link, backoff, hello, sock, stamp, wifi, tx, since>>

Clock == 0 .. Wrap - 1
Later(c) == IF c + 1 = Wrap THEN 0 ELSE c + 1
\* a - b on unsigned integers
Minus(a, b) == IF a >= b THEN a - b ELSE a + Wrap - b

Attempt == {"wifi", "login", "ticket", "start", "backoff"}
Awake == {"look", "hello", "sendHello", "beat", "sendPing", "judge", "stop"}
Session == {"asleep"} \cup Awake

\* im_ws_is_connected
Connected == sock \in {"flagged", "stamped"}

Init ==
  /\ clock = 0 /\ link = [at |-> "wifi", now |-> 0, spent |-> 0] /\ backoff = 1
  /\ hello = FALSE /\ sock = "none" /\ stamp = [ping |-> 0, pong |-> 0]
  /\ wifi = "down" /\ tx = [buf |-> "none", echo |-> FALSE]
  /\ since = [pong |-> 0, ping |-> 0]

-----------------------------------------------------------------------------
\* Time passes while a session lasts: a sleep, or what the task does when awake, takes
\* its time and no more.
Pass ==
  /\ link.at \in Session
  /\ link.spent < IF link.at = "asleep" THEN Delay ELSE Late
  /\ clock' = Later(clock) /\ link' = [link EXCEPT !.spent = @ + 1]
  /\ since' = IF sock = "stamped" THEN [pong |-> since.pong + 1, ping |-> since.ping + 1]
                                  ELSE since
  /\ UNCHANGED <<backoff, hello, sock, stamp, wifi, tx>>

-----------------------------------------------------------------------------
(* The link task.                                                          *)

Goto(l) == link' = [link EXCEPT !.at = l]
\* now is the loop's own, and is read anew in each of its rounds
At(l) == [at |-> l, now |-> 0, spent |-> 0]
rest == <<clock, sock, stamp, wifi, tx, since>>

\* im_wifi_wait_connected, however long
WifiWaited ==
  /\ link.at = "wifi" /\ wifi = "up"
  /\ clock' \in Clock
  /\ hello' = FALSE /\ Goto("login")
  /\ UNCHANGED <<backoff, sock, stamp, wifi, tx, since>>

\* the login, then the ticket: answered, or one more wait
Posted(l, next) ==
  /\ link.at = l
  /\ Goto(next) \/ Goto("backoff")
  /\ UNCHANGED <<backoff, hello, rest>>

\* im_ws_start: refused if a client is left; the session is live before it is connected
Start ==
  /\ link.at = "start"
  /\ \/ /\ sock = "none" /\ sock' = "closed"
        /\ backoff' = 1 /\ link' = At("asleep")
     \/ Goto("backoff") /\ UNCHANGED <<backoff, sock>>
  /\ UNCHANGED <<clock, hello, stamp, wifi, tx, since>>

\* im_backoff_sleep
Rest ==
  /\ link.at = "backoff"
  /\ Goto("wifi")
  /\ backoff' = IF 2 * backoff > MaxBackoff THEN MaxBackoff ELSE 2 * backoff
  /\ UNCHANGED <<hello, rest>>

\* the second is over: now is read once
Wake ==
  /\ link.at = "asleep"
  /\ link' = [at |-> "look", now |-> clock, spent |-> 0]
  /\ UNCHANGED <<backoff, hello, rest>>

Look ==
  /\ link.at = "look"
  /\ Goto(IF wifi = "up" /\ Connected THEN (IF hello THEN "beat" ELSE "hello") ELSE "stop")
  /\ UNCHANGED <<backoff, hello, rest>>

\* one greeting a session, built in s_tx
Hello ==
  /\ link.at = "hello"
  /\ hello' = TRUE /\ tx' = [tx EXCEPT !.buf = "hello"]
  /\ Goto("sendHello")
  /\ UNCHANGED <<clock, backoff, sock, stamp, wifi, since>>

\* what s_tx holds goes out, or not: that is not looked at
SendHello ==
  /\ link.at = "sendHello"
  /\ Goto("beat")
  /\ UNCHANGED <<backoff, hello, rest>>

\* Mutant: a stamp later than now is taken for a heartbeat that is not due.
Beat_ClockMayNotWrap ==
  /\ link.at = "beat"
  /\ IF Connected /\ link.now >= stamp.ping + Period
     THEN /\ stamp' = [stamp EXCEPT !.ping = link.now] /\ tx' = [tx EXCEPT !.buf = "ping"]
          /\ Goto("sendPing")
     ELSE Goto("judge") /\ UNCHANGED <<stamp, tx>>
  /\ UNCHANGED <<clock, backoff, hello, sock, wifi, since>>

\* im_ws_poll_heartbeat
Beat ==
  /\ link.at = "beat"
  /\ IF Connected /\ Minus(link.now, stamp.ping) >= Period
     THEN /\ stamp' = [stamp EXCEPT !.ping = link.now] /\ tx' = [tx EXCEPT !.buf = "ping"]
          /\ Goto("sendPing")
     ELSE Goto("judge") /\ UNCHANGED <<stamp, tx>>
  /\ UNCHANGED <<clock, backoff, hello, sock, wifi, since>>

SendPing ==
  /\ link.at = "sendPing"
  /\ \/ Connected /\ Goto("judge") /\ since' = [since EXCEPT !.ping = 0]
     \/ Goto("stop") /\ UNCHANGED since
  /\ UNCHANGED <<clock, backoff, hello, sock, stamp, wifi, tx>>

\* the PONG is late: the session ends; else another second
Judge ==
  /\ link.at = "judge"
  /\ link' = IF Minus(link.now, stamp.pong) > Timeout THEN At("stop") ELSE At("asleep")
  /\ UNCHANGED <<backoff, hello, rest>>

\* im_ws_stop waits for the client's task, and frees the client
Stop ==
  /\ link.at = "stop" /\ sock # "flagged" /\ ~tx.echo
  /\ sock' = "none" /\ link' = At("backoff")
  /\ UNCHANGED <<clock, backoff, hello, stamp, wifi, tx, since>>

-----------------------------------------------------------------------------
(* The websocket client's task, which handles one event at a time.         *)

\* CONNECTED sets s_connected first and the stamps afterwards
Opened ==
  /\ sock = "closed"
  /\ sock' = "flagged"
  /\ UNCHANGED <<clock, link, backoff, hello, stamp, wifi, tx, since>>

Stamped ==
  /\ sock = "flagged"
  /\ sock' = "stamped" /\ stamp' = [ping |-> 0, pong |-> clock]
  /\ since' = [pong |-> 0, ping |-> 0]
  /\ UNCHANGED <<clock, link, backoff, hello, wifi, tx>>

Closed ==
  /\ sock = "stamped" /\ ~tx.echo
  /\ sock' = "closed"
  /\ UNCHANGED <<clock, link, backoff, hello, stamp, wifi, tx, since>>

Pong ==
  /\ sock = "stamped" /\ ~tx.echo
  /\ stamp' = [stamp EXCEPT !.pong = clock] /\ since' = [since EXCEPT !.pong = 0]
  /\ UNCHANGED <<clock, link, backoff, hello, sock, wifi, tx>>

\* a private message is answered, from the same s_tx
Echo ==
  /\ sock = "stamped" /\ ~tx.echo
  /\ tx' = [tx EXCEPT !.buf = "echo", !.echo = TRUE]
  /\ UNCHANGED <<clock, link, backoff, hello, sock, stamp, wifi, since>>

SendEcho ==
  /\ tx.echo
  /\ tx' = [tx EXCEPT !.echo = FALSE]
  /\ UNCHANGED <<clock, link, backoff, hello, sock, stamp, wifi, since>>

-----------------------------------------------------------------------------
(* The WiFi driver.                                                        *)

\* STA_DISCONNECTED arms a timer that calls esp_wifi_connect, whose failure arms
\* nothing; GOT_IP
WifiMoves ==
  /\ \/ wifi = "up" /\ wifi' = "down"
     \/ wifi = "down" /\ wifi' \in {"up", "stuck"}
  /\ UNCHANGED <<clock, link, backoff, hello, sock, stamp, tx, since>>

-----------------------------------------------------------------------------
Link == \/ WifiWaited \/ Posted("login", "ticket") \/ Posted("ticket", "start") \/ Start \/ Rest
        \/ Wake \/ Look \/ Hello \/ SendHello \/ Beat \/ SendPing \/ Judge \/ Stop
Client == Opened \/ Stamped \/ Closed \/ Pong \/ Echo \/ SendEcho
Next == Pass \/ Link \/ Client \/ WifiMoves

Spec == Init /\ [][Next]_vars

-----------------------------------------------------------------------------
TypeOK ==
  /\ clock \in Clock
  /\ link \in [at : Attempt \cup Session, now : Clock, spent : Nat]
  /\ link.spent <= IF link.at = "asleep" THEN Delay ELSE Late
  /\ backoff \in 1 .. MaxBackoff /\ hello \in BOOLEAN
  /\ sock \in {"none", "closed", "flagged", "stamped"}
  /\ stamp \in [ping : Clock, pong : Clock]
  /\ wifi \in {"up", "down", "stuck"}
  /\ tx \in [buf : {"none", "hello", "ping", "echo"}, echo : BOOLEAN]
  /\ since \in [pong : Nat, ping : Nat]

\* A client exists only during a session, so im_ws_start is never refused because of one.
NoClientIsLeft == sock # "none" => link.at \in Session

\* '90 s pong timeout tears everything down': the task goes to sleep again only if there
\* was a PONG within the timeout, wherever the clock wraps.
SilenceIsNoticed ==
  sock = "stamped" /\ link.at = "asleep" => since.pong <= Timeout + Late + Delay

\* '30 s heartbeat': they go on, across the wrap and the stamp of zero.
HeartbeatGoesOn ==
  sock = "stamped" /\ link.at = "asleep" => since.ping < Period + 2 * (Late + Delay)

\* A session that is heard from is not left for silence.
LeftForSilence ==
  [][Judge /\ link'.at = "stop" /\ sock = "stamped" => since.pong > Timeout]_vars

\* s_tx belongs to the task that fills it until it is sent.
FramesAreOwn ==
  [][/\ SendHello => tx.buf = "hello"
     /\ SendPing => tx.buf = "ping"
     /\ SendEcho => tx.buf = "echo"]_vars

\* How long ago, at most, the last check of a stamp was; spent is how long the task has
\* been where it is.
Looked == CASE link.at = "asleep" -> Late + link.spent
            [] link.at \in {"look", "hello", "sendHello", "beat"} -> Late + Delay + link.spent
            [] OTHER -> link.spent

\* Inductive, while a session is stamped and not about to end: now and the PONG's stamp
\* are as old as they seem, and one of three things is true of the ping's.  A heartbeat
\* wrote it; or CONNECTED wrote zero, and no heartbeat was looked for since; or one was,
\* when the clock had just wrapped, or the firmware just started.
Beaten == LET age == Minus(clock, stamp.ping) IN
  IF link.at = "sendPing" THEN age = link.spent
  ELSE since.ping <= age /\ link.spent <= age /\ age < Period + Looked
Fresh == stamp.ping = 0 /\ since.ping <= Looked
Early == /\ stamp.ping = 0 /\ link.spent <= clock /\ clock < Period + Looked
         /\ since.ping <= clock + Late + Delay

IInv ==
  /\ TypeOK /\ NoClientIsLeft
  /\ link.at \in Awake \ {"stop"} => Minus(clock, link.now) = link.spent
  /\ sock = "stamped" /\ link.at # "stop" =>
       /\ Minus(clock, stamp.pong) = since.pong
       /\ since.pong <= Timeout + Late + link.spent + IF link.at = "asleep" THEN 0 ELSE Delay
       /\ Beaten \/ Fresh \/ Early
=============================================================================
