-------------------------------- MODULE Desktop --------------------------------
(***************************************************************************)
(* The desktop shell (electron/main.cjs): each process serves the page and *)
(* proxies the API on a fixed local port, because the page's storage, and  *)
(* with it the login, belongs to the origin; when the port is taken it     *)
(* listens on a random one.  Node keeps the callback of a listen that      *)
(* failed: it runs, first, when the second listen succeeds.                *)
(***************************************************************************)
EXTENDS Naturals, FiniteSets

CONSTANTS Procs      \* processes of the application

VARIABLES owner,   \* who listens on the fixed port
          stage,   \* of each process: off, binding, falling back, serving
          port,    \* the port each process listens on
          window,  \* the port each window loaded
          got      \* what the last request of each page met: nothing, an answer, an error

vars == <<owner, stage, port, window, got>>

Fixed == "28080"
Random == "random"
None == "none"
Stranger == "stranger"   \* another program

Init ==
  /\ owner \in {None, Stranger}
  /\ stage = [p \in Procs |-> "off"] /\ port = [p \in Procs |-> None]
  /\ window = [p \in Procs |-> None] /\ got = [p \in Procs |-> None]

\* createWindow, at the start or when the application is activated without a window
Launch(p) ==
  /\ stage[p] = "off"
  /\ stage' = [stage EXCEPT ![p] = "binding"]
  /\ UNCHANGED <<owner, port, window, got>>

\* the first promise resolution counts, and loadURL follows
Resolve(p, at) == window' = [window EXCEPT ![p] = IF @ = None THEN at ELSE @]

Bound(p) ==
  /\ stage[p] = "binding" /\ owner = None
  /\ owner' = p /\ port' = [port EXCEPT ![p] = Fixed]
  /\ stage' = [stage EXCEPT ![p] = "serving"]
  /\ Resolve(p, Fixed)
  /\ UNCHANGED got

\* EADDRINUSE: listen again
InUse(p) ==
  /\ stage[p] = "binding" /\ owner # None
  /\ stage' = [stage EXCEPT ![p] = "fallback"]
  /\ UNCHANGED <<owner, port, window, got>>

\* both callbacks run, the one of the failed listen first
BoundElsewhere(p) ==
  /\ stage[p] = "fallback"
  /\ port' = [port EXCEPT ![p] = Random]
  /\ stage' = [stage EXCEPT ![p] = "serving"]
  /\ Resolve(p, Fixed)
  /\ UNCHANGED <<owner, got>>

\* the page asks the server of its origin, which proxies to the gateway or answers 502
Request(p) ==
  /\ window[p] # None
  /\ LET served == \/ window[p] = Random /\ port[p] = Random
                   \/ window[p] = Fixed /\ owner \in Procs IN
     \E r \in (IF served THEN {"answer", "502"} ELSE {"error"}) : got' = [got EXCEPT ![p] = r]
  /\ UNCHANGED <<owner, stage, port, window>>

\* the last window is closed: the server stops and, but on a Mac, the application ends
Close(p) ==
  /\ window[p] # None
  /\ stage' = [stage EXCEPT ![p] = "off"] /\ port' = [port EXCEPT ![p] = None]
  /\ window' = [window EXCEPT ![p] = None] /\ got' = [got EXCEPT ![p] = None]
  /\ owner' = IF owner = p THEN None ELSE owner

\* another program takes the port, or leaves it
StrangerMoves ==
  /\ owner \in {None, Stranger}
  /\ owner' = IF owner = None THEN Stranger ELSE None
  /\ UNCHANGED <<stage, port, window, got>>

-----------------------------------------------------------------------------
Next == \/ \E p \in Procs : \/ Launch(p) \/ Bound(p) \/ InUse(p) \/ BoundElsewhere(p)
                            \/ Request(p) \/ Close(p)
        \/ StrangerMoves

Spec == Init /\ [][Next]_vars

-----------------------------------------------------------------------------
TypeOK ==
  /\ owner \in Procs \cup {None, Stranger}
  /\ stage \in [Procs -> {"off", "binding", "fallback", "serving"}]
  /\ port \in [Procs -> {None, Fixed, Random}] /\ window \in [Procs -> {None, Fixed, Random}]
  /\ got \in [Procs -> {None, "answer", "502", "error"}]

\* A window is loaded only when the server of its process listens, and the fixed port is
\* never served twice, in whatever order the processes start and end.
WindowHasServer ==
  /\ \A p \in Procs : window[p] # None => port[p] # None
  /\ \A p \in Procs : port[p] = Fixed <=> owner = p

\* 'the port is taken, a free one is assigned': a window loads the page of the server of
\* its own process.
WindowLoadsOwnServer == \A p \in Procs : window[p] # None => window[p] = port[p]

\* Inductive: a process that is not serving yet, or no more, has no port.
IInv == TypeOK /\ WindowHasServer /\ \A p \in Procs : stage[p] # "serving" => port[p] = None
=============================================================================
