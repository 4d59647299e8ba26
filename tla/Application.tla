---------------------------- MODULE Application ----------------------------
(***************************************************************************)
(* Setting the application up (Start), its media (Media), and what happens *)
(* around its decorated methods (Logging).  They share no state, and a     *)
(* behaviour is of one of these parts.                                     *)
(***************************************************************************)
EXTENDS Logging, Integers, Sequences

CONSTANTS
  Initializers,
  Uploads, OriginalName, Type, Compressors, Deletes, LastMoment

VARIABLES
  part,
  pc, initialized, jobs, answers, handlers, missing, connected, refused, together, destroyed,
  provider, now, local, call, cloud, ids, assets, remove, removed, stuck

startupVars ==
  <<pc, initialized, jobs, answers, handlers, missing, connected, refused, together,
    destroyed>>
mediaVars == <<provider, now, local, call, cloud, ids, assets, remove, removed, stuck>>

Start == INSTANCE Startup WITH Callers <- Initializers, overlapped <- together
Media == INSTANCE MediaManager WITH MaxTime <- LastMoment

ASSUME MediaAssumption == Media!ConstantsAssumption

-----------------------------------------------------------------------------

ApplicationInit ==
  /\ part \in {"startup", "media", "logging"}
  /\ Start!Init /\ Media!Init /\ LoggingInit
  /\ part # "startup" => missing = {}
  /\ part # "media" => provider = "fs"
  /\ part # "logging" => kind = "calls"

ApplicationNext ==
  /\ part' = part
  /\ \/ part = "startup" /\ Start!Next /\ UNCHANGED <<mediaVars, loggingVars>>
     \/ part = "media" /\ Media!Next /\ UNCHANGED <<startupVars, loggingVars>>
     \/ part = "logging" /\ LoggingNext /\ UNCHANGED <<startupVars, mediaVars>>

\* Nobody has to set anything up.  What is asked of the disk, of compressors and of
\* providers is answered, and nothing is in behaviours of another part.
ApplicationSpec ==
  /\ ApplicationInit /\ [][ApplicationNext]_<<part, startupVars, mediaVars, loggingVars>>
  /\ Media!Fairness /\ Fs!Fairness

-----------------------------------------------------------------------------

\* Startup: an Init that returned leaves everything set up but redis, no job is
\* registered twice but the backup by two connects at once, and Init may be called
\* again.
StartupIsSound == Start!StartupIsSound

\* Media: assets nobody deleted are served what was uploaded, and no file stays
\* behind but what a compressor made before the last and what could not be removed.
AssetsAreKept == Media!AssetsAreKept

\* Media: every upload that began returns or throws.
UploadsEnd == Media!UploadsEnd

-----------------------------------------------------------------------------
(* Values for the constants                                                *)

SameName == [u \in Uploads |-> "photo"]

\* Two compressors take part in one upload, and one in the other.
JpegAndWebp ==
  LET first == CHOOSE u \in Uploads : TRUE
  IN  [u \in Uploads |-> IF u = first THEN "jpeg" ELSE "webp"]

ThreeCompressors ==
  <<[supports |-> "jpeg", to |-> "webp"], [supports |-> "gif", to |-> "webp"],
    [supports |-> "webp", to |-> "small"]>>

=============================================================================
