------------------------------ MODULE PathRules ------------------------------
(***************************************************************************)
(* How the proxy reads a path: which subscription it names (route.go) and  *)
(* whether it is a probe to be refused (block.go).  Both split the path    *)
(* and strip CUSTOM_SUB_PREFIX with the same two functions.                *)
(*                                                                         *)
(* A path is the sequence of what stands between its slashes, percent-     *)
(* decoded; Empty stands between two that follow each other.  A segment is *)
(* an atom, and the sets below say what the rules see in its spelling,     *)
(* letter case being folded where the code folds it.                       *)
(***************************************************************************)
EXTENDS Filtering

CONSTANTS
    Segment,
    Empty,
    Dot, DotDot,        \* "." and ".."
    Dotted,             \* begin with a dot
    WithDot,            \* contain one
    JsonFile,           \* whose extension is .json
    ScannerFile,        \* whose extension is one of scannerExtensions
    ScannerName,        \* spellings of scannerNames
    WellKnown,          \* spellings of .well-known
    AssetsDir,          \* spellings of assets
    Reserved,           \* spellings of reservedSegments
    TooLong,            \* longer than 128 bytes
    ClientType          \* spellings of the client types that are known

ASSUME SegmentsAssumption ==
    /\ Empty \notin Segment
    /\ {Dot, DotDot} \subseteq Dotted /\ Dot # DotDot
    /\ Dotted \subseteq WithDot /\ WithDot \subseteq Segment
    /\ JsonFile \subseteq WithDot /\ ScannerFile \subseteq WithDot
    /\ {Dot, DotDot} \cap (JsonFile \cup ScannerFile \cup WellKnown) = {}
    /\ JsonFile \cap ScannerFile = {}
    /\ ScannerName \subseteq Segment \ WithDot
    /\ WellKnown \subseteq Dotted
    /\ AssetsDir \subseteq Reserved /\ Reserved \subseteq Segment \ WithDot
    /\ Reserved \cap ScannerName = {}
    /\ TooLong \subseteq Segment
    /\ ClientType \subseteq Segment \ WithDot

Path == Seq(Segment \cup {Empty})

-----------------------------------------------------------------------------
(* Shared by router and blocker                                            *)

\* splitPath; of the prefix, stripPrefix skips the empty segments too.
SplitPath(path) == Kept(path, Segment)

\* How many leading segments of the prefix the path has.
Shared(segments, prefix) ==
    CHOOSE k \in 0..Len(prefix) :
        /\ k <= Len(segments)
        /\ \A i \in 1..k : segments[i] = prefix[i]
        /\ k = Len(prefix) \/ k = Len(segments)
               \/ segments[k + 1] # prefix[k + 1]

\* stripPrefix: what is left when the first segment differs, and whether none
\* did; a path that has only a part of the prefix loses that part.
Rest(segments, prefix) ==
    SubSeq(segments, Shared(segments, prefix) + 1, Len(segments))

HasPrefix(segments, prefix) == Shared(segments, prefix) = Len(prefix)

-----------------------------------------------------------------------------
(* The router                                                              *)

NoRoute == [sub |-> Empty, type |-> Empty]

PlausibleShortUUID(s) ==
    s \notin WithDot /\ s \notin TooLong /\ s \notin Reserved

\* ParseRoute: one segment, or two, after the prefix; a second one that is no
\* client type is dropped.
ParseRoute(path, prefix) ==
    LET segments == SplitPath(path)
        rest == Rest(segments, prefix)
    IN  IF /\ HasPrefix(segments, prefix)
           /\ Len(rest) \in {1, 2}
           /\ PlausibleShortUUID(rest[1])
        THEN [sub |-> rest[1],
              type |-> IF Len(rest) = 2 /\ rest[2] \in ClientType
                       THEN rest[2] ELSE Empty]
        ELSE NoRoute

-----------------------------------------------------------------------------
(* The blocker                                                             *)

\* The two dotted names that are let through: .well-known where it comes first,
\* and a JSON file directly in assets.
Exempt(named, i) ==
    \/ i = 1 /\ named[i] \in WellKnown
    \/ i = 2 /\ i = Len(named) /\ named[1] \in AssetsDir
             /\ named[i] \in JsonFile

\* MUTANT only the last segment is weighed by its extension.
HasScannerFileLast(segments) ==
    segments # <<>> /\ segments[Len(segments)] \in ScannerFile

\* An extension is weighed in every segment, the prefix's included.
HasScannerFile(segments) ==
    \E i \in DOMAIN segments : segments[i] \in ScannerFile

HasScannerName(named) == named # <<>> /\ named[1] \in ScannerName

HasDotted(named) ==
    \E i \in DOMAIN named :
        /\ named[i] \in Dotted
        /\ named[i] \in {Dot, DotDot} \/ ~Exempt(named, i)

\* MUTANT names are weighed before the prefix is removed.
RefusesUnstripped(path, prefix) ==
    LET segments == SplitPath(path)
    IN  \/ HasScannerFile(segments)
        \/ HasScannerName(segments)
        \/ HasDotted(segments)

\* Blocked, the part that is built in.
Refuses(path, prefix) ==
    LET segments == SplitPath(path)
        named == Rest(segments, prefix)
    IN  \/ HasScannerFile(segments)
        \/ HasScannerName(named)
        \/ HasDotted(named)

\* Blocked: custom patterns, each the set of paths it matches, see the whole
\* path; block.enabled turns off both.
Blocked(blocker, path) ==
    /\ blocker.enabled
    /\ \/ \E pattern \in blocker.patterns : path \in pattern
       \/ Refuses(path, blocker.prefix)

=============================================================================
