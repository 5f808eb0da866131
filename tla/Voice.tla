-------------------------------- MODULE Voice --------------------------------
(***************************************************************************)
(* VoiceRecordModal: each opening asks for the microphone and, when it is  *)
(* granted, starts a recorder with an interval that counts its seconds.    *)
(* The refs hold the last recorder, stream and interval; what they held    *)
(* before goes on.  How a recorder's sound is uploaded and sent is its     *)
(* onstop, which Send sets and which runs when the recorder stops.         *)
(*                                                                         *)
(* Seconds are not counted: a recorder reaches its minute at any moment.   *)
(* A stopped recorder ignores stop().                                      *)
(***************************************************************************)
EXTENDS Naturals, FiniteSets

CONSTANTS Recorders  \* openings of the modal, in order: 1..n (bound)

VARIABLES open,      \* the modal
          rec,       \* recorders: state, and whether onstop is set
          cur,       \* mediaRecorderRef, and with it the stream and interval refs
          timers,    \* recorders whose interval runs
          live,      \* recorders whose microphone stream runs
          held,      \* [stream, timer]: are the refs set
          uploading, \* isUploading
          cancelled, \* openings the user cancelled (history)
          sent       \* times each recorder's sound was uploaded and sent (history)

vars == <<open, rec, cur, timers, live, held, uploading, cancelled, sent>>

Slots == 1..Recorders
None == 0
New == {r \in Slots : rec[r].at = "new"}

CancelOffered == open /\ ~uploading
SendOffered == open /\ ~uploading

-----------------------------------------------------------------------------
Init ==
  /\ open = FALSE /\ cur = None /\ timers = {} /\ live = {} /\ uploading = FALSE
  /\ rec = [r \in Slots |-> [at |-> "new", hook |-> FALSE]]
  /\ held = [stream |-> FALSE, timer |-> FALSE]
  /\ cancelled = {} /\ sent = [r \in Slots |-> 0]

\* stop() of the current recorder, which runs its onstop if it has one
Stopped(rs) ==
  IF cur # None /\ rs[cur].at = "on"
  THEN [rs EXCEPT ![cur].at = IF rs[cur].hook THEN "upload" ELSE "off"]
  ELSE rs

\* cleanupAudio: it stops the current recorder and releases what the refs hold
Release ==
  /\ timers' = IF held.timer THEN timers \ {cur} ELSE timers
  /\ live' = IF held.stream THEN live \ {cur} ELSE live
  /\ held' = [stream |-> FALSE, timer |-> FALSE]
Cleanup == rec' = Stopped(rec) /\ Release

\* the effect of opening cleans up what was left, a late recorder too, and asks for the
\* microphone
Open ==
  /\ ~open /\ New # {}
  /\ open' = TRUE
  /\ rec' = [Stopped(rec) EXCEPT ![CHOOSE r \in New : \A s \in New : r <= s].at = "asking"]
  /\ Release
  /\ UNCHANGED <<cur, uploading, cancelled, sent>>

\* the recorder, its stream and its interval replace those of the refs, open or not
Granted(r) ==
  /\ rec[r].at = "asking"
  /\ rec' = [rec EXCEPT ![r].at = "on"]
  /\ cur' = r /\ timers' = timers \cup {r} /\ live' = live \cup {r}
  /\ held' = [stream |-> TRUE, timer |-> TRUE]
  /\ UNCHANGED <<open, uploading, cancelled, sent>>

\* an alert, and an open modal closes, whichever opening this was: its effect cleans up
Denied(r) ==
  /\ rec[r].at = "asking"
  /\ \/ open /\ rec' = [Stopped(rec) EXCEPT ![r].at = "off"] /\ Release
     \/ ~open /\ rec' = [rec EXCEPT ![r].at = "off"] /\ UNCHANGED <<timers, live, held>>
  /\ open' = FALSE
  /\ UNCHANGED <<cur, uploading, cancelled, sent>>

\* handleCancel
Cancel ==
  /\ CancelOffered
  /\ open' = FALSE
  /\ Cleanup
  /\ cancelled' = cancelled \cup {r \in Slots : rec[r].at \in {"asking", "on"}}
  /\ UNCHANGED <<cur, uploading, sent>>

\* handleStopAndSend; without a recorder it returns
StopAndSend ==
  /\ cur # None
  /\ uploading' = TRUE
  /\ rec' = Stopped([rec EXCEPT ![cur].hook = TRUE])
  /\ UNCHANGED <<open, cur, timers, live, held, cancelled, sent>>

SendButton == SendOffered /\ StopAndSend

\* the interval of any recorder sends the current one, and again every second
MinuteOver == timers # {} /\ StopAndSend

\* onstop: uploaded and sent, or an alert
Uploaded(r) ==
  /\ rec[r].at = "upload"
  /\ \E n \in {0, 1} : sent' = [sent EXCEPT ![r] = IF @ < 2 THEN @ + n ELSE @]
  /\ uploading' = FALSE /\ open' = FALSE
  /\ rec' = [Stopped(rec) EXCEPT ![r].at = "off"]
  /\ Release
  /\ UNCHANGED <<cur, cancelled>>

-----------------------------------------------------------------------------
Next == \/ Open \/ Cancel \/ SendButton \/ MinuteOver
        \/ \E r \in Slots : Granted(r) \/ Denied(r) \/ Uploaded(r)

Spec == Init /\ [][Next]_vars

-----------------------------------------------------------------------------
TypeOK ==
  /\ open \in BOOLEAN /\ cur \in Slots \cup {None} /\ timers \subseteq Slots /\ live \subseteq Slots
  /\ rec \in [Slots -> [at : {"new", "asking", "on", "upload", "off"}, hook : BOOLEAN]]
  /\ held \in [stream : BOOLEAN, timer : BOOLEAN] /\ uploading \in BOOLEAN
  /\ cancelled \subseteq Slots /\ sent \in [Slots -> 0..2]

\* No recording that was sent is sent again, though the button, the minute and its repeats
\* may all ask.
SentOnce == \A r \in Slots : sent'[r] # sent[r] => sent[r] = 0

\* The refs never lose the microphone of the last recorder while it records.
CurrentIsHeld == cur # None /\ rec[cur].at = "on" => held.stream /\ held.timer

\* 'cancel recording': what the user cancelled is never sent.
CancelledIsNeverSent == \A r \in cancelled : sent[r] = 0

\* The spinner, which disables both buttons, turns only while a sound is uploaded and sent.
SpinnerIsReal == uploading => \E r \in Slots : rec[r].at = "upload"

\* Inductive: a recorder whose sound was sent is over.
IInv == /\ TypeOK /\ CurrentIsHeld
        /\ \A r \in Slots : sent[r] # 0 => rec[r].at = "off"
=============================================================================
