----------------------------- MODULE MCClient ------------------------------
(***************************************************************************)
(* The parts of a client for TLC: its access token, its configuration file *)
(* and its terminal, the writer of its uploads with a limit that is not of *)
(* whole blocks, and what it makes of a sparse image.  They share nothing, *)
(* so their behaviours are those of each: only one of them leaves its      *)
(* initial state.                                                          *)
(***************************************************************************)
EXTENDS OidcClient, BatchWriter, TerminalUi, SparseImage, ClientConfig, TLC

CONSTANTS c1, c2

TwoCallers == {c1, c2}
SomeLengths == {1, 2, 4}
SomeSeeks == {[from |-> "start", by |-> 1], [from |-> "current", by |-> 2]}

C(type, blocks) == [type |-> type, blocks |-> blocks]

\* Every type of chunk first, between others and last, and holes side by side.
SomeImages == {
  <<C("raw", 1), C("dontcare", 1), C("fill", 1), C("raw", 2)>>,
  <<C("dontcare", 1), C("raw", 1), C("dontcare", 1), C("crc", 0)>>,
  <<C("raw", 1), C("crc", 0), C("fill", 2)>>,
  <<C("fill", 1), C("dontcare", 1), C("dontcare", 1), C("raw", 1), C("fill", 1)>>}

\* Every key alone; ^a and a command in one chunk, behind a key or before one; and
\* a command that follows another.
SomeChunks ==
  {<< >>} \cup {<<key>> : key \in Keys}
    \cup {<<"escape", "reset">>, <<"escape", "quit">>, <<"other", "escape">>, <<"escape", "other">>,
          <<"escape", "on", "escape">>, <<"on", "scroll">>}

\* Servers of which some are as long as others, and one is not.
SomeSizes == <<2, 2, 3, 2>>

uploadsVars == <<batchWriterVars, sparseVars>>
sessionVars == <<vars, terminalVars, configVars>>

UploadsInit == WriterInit /\ SparseInit
SessionInit == Init /\ TerminalInit /\ ConfigInit
ClientInit == UploadsInit /\ SessionInit

OneImage == image = CHOOSE i \in SomeImages : TRUE
Nothing == OneImage /\ cut = 0 /\ ~ discard

ClientNext ==
  \/ /\ SessionInit /\ UNCHANGED sessionVars
     /\ \/ SparseInit /\ OneImage /\ cut = 0 /\ WriterNext /\ UNCHANGED sparseVars
        \/ WriterInit /\ ~ discard /\ SparseNext /\ UNCHANGED batchWriterVars
  \/ /\ UploadsInit /\ Nothing /\ UNCHANGED uploadsVars
     /\ \/ TerminalInit /\ ConfigInit /\ Next /\ UNCHANGED <<terminalVars, configVars>>
        \/ Init /\ ConfigInit /\ TerminalNext /\ UNCHANGED <<vars, configVars>>
        \/ Init /\ TerminalInit /\ ConfigNext /\ UNCHANGED <<vars, terminalVars>>

ClientSpec ==
  ClientInit /\ [][ClientNext]_<<uploadsVars, sessionVars>> /\ Fairness /\ TerminalFairness

\* Nobody waits for ever for the token, or in the terminal.
NobodyIsStuck == EveryoneGoesOn /\ TerminalGoesOn
=============================================================================
