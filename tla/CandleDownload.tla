--------------------------- MODULE CandleDownload ---------------------------
(***************************************************************************)
(* The download command: fetch_candles, then ImmutableJsonlStore.write_    *)
(* batch puts its candles, oldest first, into a file of its own.  The file *)
(* is named by the time, so a name may come again; what is written reaches *)
(* the disk in pieces, and the process may stop at any of them.  The same  *)
(* command may be given again.                                             *)
(***************************************************************************)
EXTENDS KlinePagination, Functions

CONSTANTS
  Names,          \* the file names the times of the writes make
  None,
  MaxDownloads    \* bound on the times the command is given

ASSUME DownloadAssumption == MaxDownloads \in Nat \ {0} /\ None \notin Names

VARIABLES
  files,      \* what is on the disk: [stored, torn] by name
  stage,      \* fetch, write or ended
  name,       \* the file that is being written, or None
  downloads   \* times the command was given

disk == <<files, name>>
allVars == <<vars, files, stage, name, downloads>>

\* stored are the candles of the whole lines, torn says a part of a line follows.
Contents == [stored : SUBSET Starts, torn : BOOLEAN]

TypeOKDownload ==
  /\ TypeOK
  /\ DOMAIN files \subseteq Names /\ Range(files) \subseteq Contents
  /\ stage \in {"fetch", "write", "ended"}
  /\ IF stage = "write" THEN name \in DOMAIN files /\ outcome = "ok" ELSE name = None
  /\ downloads \in 1..MaxDownloads

InitDownload ==
  /\ Init
  /\ files = <<>> /\ name = None
  /\ stage = "fetch" /\ downloads = 1

-----------------------------------------------------------------------------

\* Whatever fetch_candles raises ends the command.
Fetch ==
  /\ stage = "fetch" /\ Next
  /\ stage' = IF outcome' = "error" THEN "ended" ELSE "fetch"
  /\ UNCHANGED <<disk, downloads>>

\* Mutant: the file is opened for writing, whether or not it is there.
Opens(n) == TRUE

\* Mode "x".
OpensNew(n) == n \notin DOMAIN files

CreateFile ==
  /\ stage = "fetch" /\ outcome = "ok"
  /\ \E n \in Names :
       IF OpensNew(n)
       THEN /\ files' = [m \in DOMAIN files \union {n} |->
                           IF m = n THEN [stored |-> {}, torn |-> FALSE] ELSE files[m]]
            /\ stage' = "write" /\ name' = n
       ELSE stage' = "ended" /\ UNCHANGED disk
  /\ UNCHANGED <<vars, downloads>>

\* Mutant: the lines are in the order the pages came in.
AnyLines(stored) == {lines \in SUBSET byStart : stored \subseteq lines}

\* The first lines of the batch that may be on the disk next.
Longer(stored) ==
  {lines \in SUBSET byStart :
     /\ stored \subseteq lines
     /\ \A t \in lines, u \in byStart : u < t => u \in lines}

\* A piece of the batch reaches the disk; the last one ends the command.
WritePiece ==
  /\ stage = "write"
  /\ \E lines \in Longer(files[name].stored), torn \in BOOLEAN :
       /\ lines = byStart => ~torn
       /\ lines = files[name].stored => torn /\ ~files[name].torn
       /\ files' = [files EXCEPT ![name] = [stored |-> lines, torn |-> torn]]
       /\ stage' = IF lines = byStart THEN "ended" ELSE "write"
       /\ name' = IF lines = byStart THEN None ELSE name
  /\ UNCHANGED <<vars, downloads>>

\* The process ends, or a write fails, between two pieces.
Interrupted ==
  /\ stage = "write"
  /\ stage' = "ended" /\ name' = None
  /\ UNCHANGED <<vars, files, downloads>>

\* The command is given again, with the same range; by then the exchange may
\* have further candles.
Again ==
  /\ stage = "ended" /\ downloads < MaxDownloads
  /\ downloads' = downloads + 1
  /\ \E now \in serverTime..Horizon :
       /\ serverTime' = now
       /\ \E more \in SUBSET {t \in Starts : serverTime < t /\ t <= now} :
            listed' = listed \union more
  /\ stage' = "fetch" /\ outcome' = "fetching"
  /\ cursorEnd' = endMs - 1 /\ byStart' = {}
  /\ UNCHANGED <<startMs, endMs, honest, disk>>

NextDownload == Fetch \/ CreateFile \/ WritePiece \/ Interrupted \/ Again

SpecDownload == InitDownload /\ [][NextDownload]_allVars

FairSpecDownload ==
  SpecDownload /\ WF_allVars(Fetch) /\ WF_allVars(CreateFile) /\ WF_allVars(WritePiece)

-----------------------------------------------------------------------------
(* Correctness                                                             *)

\* A file, once its writing ended for whatever reason, stays as it is: a name
\* that comes again does not cost what an earlier download has stored.
StoreImmutable ==
  [][\A n \in DOMAIN files :
       n \in DOMAIN files' /\ (n # name => files'[n] = files[n])]_files

\* What a reader finds in any file, cut short or not, is a run of candles
\* without a gap, all confirmed and in the requested range: its whole lines
\* can be used even where the last one is torn.
StoredUsable ==
  \A n \in DOMAIN files :
    LET stored == files[n].stored
    IN  stored # {} =>
          /\ \A t \in stored : startMs <= t /\ t < endMs /\ t + Interval - 1 < serverTime
          /\ Cardinality(stored) = 1 + (Max(stored) - Min(stored)) \div Interval

\* Every command given comes to an end, with its candles stored or not.
DownloadEnds == stage # "ended" ~> stage = "ended"
=============================================================================
