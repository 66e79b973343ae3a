----------------------------- MODULE QuotaReset -----------------------------
(***************************************************************************)
(* pylib/zai_reset.py: a timer's pass, and passes started by hand, redeem a *)
(* reset card for every z.ai connection whose weekly quota is spent.  What  *)
(* has been redeemed is in a state file; a request may fail, or be carried  *)
(* out and its answer lost, and a pass may die anywhere.                    *)
(***************************************************************************)
EXTENDS Naturals, FiniteSets

CONSTANTS
  Passes,
  Connections,  \* the active z.ai connections
  Untold,       \* those whose usage does not tell when the window ends
  MaxWindows,   \* bound: weekly windows
  MaxPasses     \* bound: passes

ASSUME QuotaAssumption ==
  Untold \subseteq Connections /\ MaxWindows \in Nat \ {0} /\ MaxPasses \in Nat

NoWindow == 0
NoConnection == "none"

VARIABLES
  window,     \* external: the weekly window of each connection, and
  spent,      \* whether its quota is spent
  honoured,   \* external: idempotency keys that were carried out
  stateFile,  \* window recorded as redeemed, of each connection
  pass,       \* each pass: [pc, todo, conn, window, state as it read it]
  passes,
  redeemed    \* history: of each connection and window, the cards redeemed in
              \* it by a pass that had read that window

quotaVars == <<window, spent, honoured, stateFile, pass, passes, redeemed>>

Windows == 1 .. MaxWindows
NoPass == [pc |-> "idle", todo |-> {}, conn |-> NoConnection, window |-> NoWindow,
           state |-> [c \in Connections |-> NoWindow]]

-----------------------------------------------------------------------------
(* A pass.                                                                 *)

\* The first thing it does is log in and list; a state it cannot read is empty.
StartPass(p) ==
  /\ pass[p].pc = "idle" /\ passes < MaxPasses
  /\ passes' = passes + 1
  /\ pass' = [pass EXCEPT ![p] = [NoPass EXCEPT !.pc = "next", !.todo = Connections,
                                                !.state = stateFile]]
  /\ UNCHANGED <<window, spent, honoured, stateFile, redeemed>>

ToNext(p) == pass' = [pass EXCEPT ![p].pc = "next"]

\* What the usage tells of the window, and whether a card is due in it.
Told(c) == IF c \in Untold THEN NoWindow ELSE window[c]

Due(p, c) == spent[c] /\ (Told(c) = NoWindow \/ pass[p].state[c] # Told(c))

\* _check_connection reads the usage: what it tells of the window is all the
\* pass knows of it from here on.
ReadUsage(p) ==
  /\ pass[p].pc = "next"
  /\ \E c \in pass[p].todo, answered \in BOOLEAN :
       pass' = [pass EXCEPT ![p].todo = @ \ {c}, ![p].conn = c, ![p].window = Told(c),
                            ![p].pc = IF answered /\ Due(p, c) THEN "post"
                                                              ELSE "next"]
  /\ UNCHANGED <<window, spent, honoured, stateFile, passes, redeemed>>

\* No card is left, the pass is a dry one, or the listing of cards fails.
NoCardLeft(p) == /\ pass[p].pc = "post"
                 /\ ToNext(p)
                 /\ UNCHANGED <<window, spent, honoured, stateFile, passes, redeemed>>

\* Mutant: every pass has a key of its own.
KeyOfPass(p) == <<pass[p].conn, p, passes>>

\* The idempotency key.
ResetKey(p) == <<pass[p].conn, "window", pass[p].window>>

\* POST glm-reset-card: OmniRoute carries a key out once (external); the answer
\* may be lost, and what has failed is not recorded.
Redeem(p) ==
  /\ pass[p].pc = "post"
  /\ LET c == pass[p].conn
         w == window[c]
         new == ResetKey(p) \notin honoured
     IN  /\ honoured' = honoured \cup {ResetKey(p)}
         /\ spent' = [spent EXCEPT ![c] = @ /\ ~new]
         /\ redeemed' = IF new /\ pass[p].window = w
                        THEN [redeemed EXCEPT ![c][w] = @ + 1] ELSE redeemed
         /\ \E answered \in BOOLEAN :
              pass' = [pass EXCEPT ![p].pc = IF answered THEN "write" ELSE "next"]
  /\ UNCHANGED <<window, stateFile, passes>>

\* _write_state: the pass's own copy replaces the file, or an error ends the
\* pass.
WriteState(p) ==
  /\ pass[p].pc = "write"
  /\ LET new == [pass[p].state EXCEPT ![pass[p].conn] = pass[p].window]
     IN  \/ /\ stateFile' = new
            /\ pass' = [pass EXCEPT ![p].pc = "next", ![p].state = new]
         \/ /\ pass' = [pass EXCEPT ![p] = NoPass]
            /\ UNCHANGED stateFile
  /\ UNCHANGED <<window, spent, honoured, passes, redeemed>>

\* The pass is through, or dies.
EndPass(p) == /\ pass[p].pc # "idle"
              /\ pass' = [pass EXCEPT ![p] = NoPass]
              /\ UNCHANGED <<window, spent, honoured, stateFile, passes, redeemed>>

-----------------------------------------------------------------------------
(* The provider (external).                                                *)

Spend(c) == /\ ~spent[c]
            /\ spent' = [spent EXCEPT ![c] = TRUE]
            /\ UNCHANGED <<window, honoured, stateFile, pass, passes, redeemed>>

Roll(c) == /\ window[c] < MaxWindows
           /\ window' = [window EXCEPT ![c] = @ + 1]
           /\ spent' = [spent EXCEPT ![c] = FALSE]
           /\ UNCHANGED <<honoured, stateFile, pass, passes, redeemed>>

-----------------------------------------------------------------------------
QuotaInit ==
  /\ window = [c \in Connections |-> 1] /\ spent = [c \in Connections |-> FALSE]
  /\ honoured = {} /\ stateFile = [c \in Connections |-> NoWindow]
  /\ pass = [p \in Passes |-> NoPass] /\ passes = 0
  /\ redeemed = [c \in Connections |-> [w \in Windows |-> 0]]

QuotaNext == \/ \E p \in Passes : \/ StartPass(p) \/ ReadUsage(p) \/ NoCardLeft(p)
                                  \/ Redeem(p) \/ WriteState(p) \/ EndPass(p)
             \/ \E c \in Connections : Spend(c) \/ Roll(c)

QuotaSpec == QuotaInit /\ [][QuotaNext]_quotaVars

\* A card is spent at most once per weekly window, whatever fails, is lost or is
\* written by another pass: but for a window that ends between a pass's reading
\* and its POST.  (_check_connection, "a retry after a timeout cannot spend a
\* second card for the same window")
OneCardPerWindow ==
  \A c \in Connections, w \in Windows : redeemed[c][w] <= 1
=============================================================================
