-------------------------- MODULE YamlConfigLoader --------------------------
(***************************************************************************)
(* What YamlConfigLoader::load makes of a configuration file.  main() goes *)
(* on with the cameras that it has put into the configuration.             *)
(*                                                                         *)
(* A document is a record:                                                 *)
(*   sections   which of the sections it has                               *)
(*   kind       of the node active_cameras: a sequence or scalar, or other *)
(*   names      the names it lists, in order                               *)
(*   cameras    by the name of a camera it describes: the description is   *)
(*              complete, lacks a section or key that load looks for, or   *)
(*              has a value that cannot be converted                       *)
(*   mapped     the names for which there are mappings                     *)
(*   server     the parameters of the server: complete, or bad             *)
(***************************************************************************)
EXTENDS Naturals, Sequences, FiniteSets, SequencesExt

CONSTANTS
    Names,      \* the names of cameras
    MaxNames    \* bound on the length of the list of active cameras

\* A file has finitely many.
ASSUME NamesAssumption == IsFiniteSet(Names)
ASSUME MaxNamesAssumption == MaxNames \in Nat

Sections == {"config", "server", "cameras", "active_cameras"}

\* Configuration::addActiveCamera for each of the names.  Another kind of node
\* is reported as an error, and load goes on without cameras.
ActiveCameras(document) ==
    IF document.kind = "other" THEN {} ELSE ToSet(document.names)

\* size() of the node active_cameras; that of a scalar is 0.
NodeSize(document) ==
    IF document.kind = "scalar" THEN 0 ELSE Len(document.names)

Result(outcome, cameras) == [outcome |-> outcome, cameras |-> cameras]

\* Mutant: a camera that is not complete is skipped.
SkipCamera(document, result, c) ==
    IF c \in DOMAIN document.cameras /\ document.cameras[c] = "complete"
    THEN Result("loaded", result.cameras \union {c})
    ELSE result

\* One pass of the loop over the active cameras: the camera's parameters are
\* added, or load returns false, or throws.
ReadCamera(document, result, c) ==
    IF result.outcome # "loaded" THEN result
    ELSE IF c \notin DOMAIN document.cameras
            \/ document.cameras[c] = "incomplete"
         THEN Result("refused", result.cameras)
    ELSE IF document.cameras[c] = "bad" THEN Result("threw", result.cameras)
    ELSE Result("loaded", result.cameras \union {c})

\* The active cameras, in the order of the set.
InOrder(document) == SetToSeq(ActiveCameras(document))

\* The loop over them.
ReadCameras(document) ==
    LET Read[n \in 0 .. Cardinality(ActiveCameras(document))] ==
            IF n = 0 THEN Result("loaded", {})
            ELSE ReadCamera(document, Read[n - 1], InOrder(document)[n])
    IN  Read[Cardinality(ActiveCameras(document))]

\* The server's parameters, after the cameras were read.
ReadServer(document, cameras) ==
    LET active == ActiveCameras(document)
    IN  IF document.server = "bad" THEN Result("threw", cameras)
        ELSE IF \/ document.mapped = {}
                \/ Cardinality(document.mapped) < Cardinality(active)
                \/ ~(active \subseteq document.mapped)
             THEN Result("refused", cameras)
        ELSE Result("loaded", cameras)

\* YamlConfigLoader::load
Load(document) ==
    LET read == ReadCameras(document)
    IN  IF \/ document.sections # Sections
           \/ NodeSize(document) > Cardinality(DOMAIN document.cameras)
        THEN Result("refused", {})
        ELSE IF read.outcome # "loaded" THEN read
        ELSE ReadServer(document, read.cameras)

-----------------------------------------------------------------------------
\* All documents whose list of names is at most that long.
Documents ==
    [sections : {Sections} \union {Sections \ {s} : s \in Sections},
     kind     : {"scalar", "sequence", "other"},
     names    : SeqOf(Names, MaxNames),
     cameras  : UNION {[described -> {"complete", "incomplete", "bad"}] :
                           described \in SUBSET Names},
     mapped   : SUBSET Names,
     server   : {"complete", "bad"}]

\* A document that has all that main() needs for the cameras it names.
Sound(document) ==
    LET named == ToSet(document.names)
    IN  /\ document.sections = Sections
        /\ document.server = "complete"
        /\ document.mapped # {}
        /\ named \subseteq document.mapped
        /\ \A c \in named :
               c \in DOMAIN document.cameras /\ document.cameras[c] = "complete"

\* With a list of names, each once, load succeeds exactly with a sound document:
\* the checks of sizes refuse none that the loops accept.  Then there are
\* parameters for exactly the cameras named; and when it fails, which a build
\* without assertions does not notice, for none but complete ones.
LoadsWhatIsNamed(document) ==
    LET result == Load(document)
        named  == ToSet(document.names)
        listed == \/ document.kind = "scalar" /\ Len(document.names) = 1
                  \/ document.kind = "sequence" /\ IsInjective(document.names)
    IN  /\ listed => (result.outcome = "loaded" <=> Sound(document))
        /\ listed /\ result.outcome = "loaded" => result.cameras = named
        /\ \A c \in result.cameras :
               c \in named /\ document.cameras[c] = "complete"
=============================================================================
