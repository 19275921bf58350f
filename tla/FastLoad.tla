------------------------------ MODULE FastLoad ------------------------------
(***************************************************************************)
(* The fast loaders together: how the drive finds out which one it is asked *)
(* to run (DriveCode), and what the handlers do: send a file (FileLoad),    *)
(* receive one (FileSave), serve sectors (SectorLoad), and how they put     *)
(* each byte on the lines (LineCode).  run_loader calls one handler and     *)
(* waits for it, so that no two of them are active at a time: part says     *)
(* which one a behaviour is about.                                          *)
(***************************************************************************)
EXTENDS FileLoad, FileSave, SectorLoad, DriveCode, LineCode

VARIABLE part

vars == <<part, loadvars, savevars, sectorvars, codevars, linevars>>

Init ==
    /\ part \in {"code", "load", "save", "sector", "line"}
    /\ LoadInit /\ SaveInit /\ SectorInit /\ CodeInit /\ LineInit

Next ==
    /\ UNCHANGED part
    /\ \/ part = "code"   /\ CodeNext   /\ UNCHANGED <<loadvars, savevars, sectorvars, linevars>>
       \/ part = "load"   /\ LoadNext   /\ UNCHANGED <<codevars, savevars, sectorvars, linevars>>
       \/ part = "save"   /\ SaveNext   /\ UNCHANGED <<codevars, loadvars, sectorvars, linevars>>
       \/ part = "sector" /\ SectorNext /\ UNCHANGED <<codevars, loadvars, savevars, linevars>>
       \/ part = "line"   /\ LineNext   /\ UNCHANGED <<codevars, loadvars, savevars, sectorvars>>

Spec == Init /\ [][Next]_vars /\ LoadFairness /\ SaveFairness /\ SectorFairness /\ LineFairness

\* ATN ends a loader where it looks at ATN and the lines let it, a transfer with
\* a computer that goes on ends by itself, and so does the byte routine below it.
\* The places where the code does hang are named in the parts: GijoeStuck,
\* EndMarkLost, SearchStuck, and SeesAtn for the servers.
LoadersEnd == AtnEndsLoader /\ Finishes /\ SaveEnds /\ ServerLeaves /\ ReturnsOnAtn /\ TransferEnds
=============================================================================
