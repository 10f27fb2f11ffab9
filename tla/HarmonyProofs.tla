---------------------------- MODULE HarmonyProofs ----------------------------
(***************************************************************************)
(* What the parts of the Harmony port promise, for any files, hosts, jobs  *)
(* and bounds, and that the port as a whole promises all of it.            *)
(***************************************************************************)
EXTENDS Harmony, HarmonyContextProofs

(***************************************************************************)
(* The download: nothing foreign is installed, and no block counts twice.  *)
(***************************************************************************)
Serves == {"opened", "persisting", "streaming", "finishing"}
AllFrom(a, e) == \A i \in DOMAIN a : a[i] = e

(* What the request under way is about, and what is received for it.       *)
RequestFits ==
    /\ at \in TransferPhase => request.url \in Url
    /\ at = "clearing" => archive = <<>> /\ request.offset = 0
    /\ at \notin Serves \cup {"answered"} => wire = <<>>
    /\ AllFrom(wire, request.serving)
    /\ at \in Serves => request.answer \in {"range", "whole"}
    /\ request.answer = "range" => request.encoded = FALSE
    /\ request.answer \in {"range", "whole"} =>
          /\ request.serving \in 1 .. server
          /\ request.ifRange <= request.serving /\ sidecar.validator <= request.serving
    /\ request.ifRange <= server /\ sidecar.validator <= server

(* What the partial file is made of: nothing but blocks of an entity, and  *)
(* of the one its validator names if that is still served, unless a range  *)
(* was asked for without one.                                              *)
ArchiveFits ==
    /\ \A i \in DOMAIN archive : archive[i] # Junk
    /\ blind = FALSE => OneEntity(archive)
    /\ blind = FALSE /\ sidecar.validator = server => AllFrom(archive, server)
    /\ blind = FALSE /\ at = "requested" /\ request.offset > 0 =>
          request.ifRange = sidecar.validator /\ request.ifRange # NoEntity
    /\ blind = FALSE /\ at = "answered" /\ request.answer = "range" =>
          AllFrom(archive, request.serving)
    /\ blind = FALSE /\ at \in Serves => AllFrom(archive, request.serving)
    /\ at \in {"patching", "copying"} => Whole(archive)

MadeWell(d) == Whole(d.from) /\ (blind = FALSE => OneEntity(d.from))

DirectoriesFit ==
    /\ at \in {"rebuilt", "consuming", "consumed", "sealed", "replacing"} => MadeWell(staging)
    /\ version.kind = "version" => at = "idle" /\ MadeWell(version)

(* What is counted is what is on disk, where a sidecar vouches for it.     *)
CountFits ==
    clean = TRUE /\ torn = FALSE =>
        /\ received = Len(archive)
        /\ at = "consuming" => archive = <<>>
        /\ at \in Serves => request.encoded = FALSE
        /\ at = "streaming" \/ (archive # <<>> /\ at \notin {"persisting", "finishing"}) =>
              sidecar # NoSidecar

DownloadInv == DownloadTypeOK /\ RequestFits /\ ArchiveFits /\ DirectoriesFit /\ CountFits

(* Archives are the sequences of blocks that are not longer than the whole.*)
Block == Entity \cup {Junk}

(* Functions on a prefix of the naturals are sequences.                    *)
LEMMA BlocksOfLength ==
    ASSUME NEW S, NEW a
    PROVE  (\E k \in 0 .. Length : a \in [1 .. k -> S]) <=> a \in Seq(S) /\ Len(a) <= Length
<1>1. ASSUME NEW k \in 0 .. Length, a \in [1 .. k -> S]
      PROVE  a \in Seq(S) /\ Len(a) <= Length
  <2>1. k \in Nat /\ k <= Length
    BY LengthAssumption
  <2>2. a \in Seq(S)
    BY <1>1, <2>1
  <2>3. Len(a) = k
    BY <1>1, <2>1, <2>2
  <2>. QED BY <2>1, <2>2, <2>3
<1>2. ASSUME a \in Seq(S), Len(a) <= Length
      PROVE  \E k \in 0 .. Length : a \in [1 .. k -> S]
  <2>1. Len(a) \in 0 .. Length
    BY <1>2, LengthAssumption
  <2>2. a \in [1 .. Len(a) -> S]
    BY <1>2, LenProperties
  <2>. QED BY <2>1, <2>2
<1>. QED BY <1>1, <1>2

(* What an archive is made of.                                             *)
LEMMA ArchiveHas ==
    ASSUME NEW a \in Archive PROVE a \in Seq(Block) /\ Len(a) \in 0 .. Length
<1>1. \E k \in 0 .. Length : a \in [1 .. k -> Block]
  BY DEF Archive, Blocks, Block
<1>2. a \in Seq(Block) /\ Len(a) <= Length
  BY <1>1, BlocksOfLength
<1>. QED BY <1>2, LengthAssumption

(* What is made so is an archive.                                          *)
LEMMA IsArchive ==
    ASSUME NEW a \in Seq(Block), Len(a) <= Length PROVE a \in Archive
<1>1. \E k \in 0 .. Length : a \in [1 .. k -> Block]
  BY BlocksOfLength
<1>. QED BY <1>1 DEF Archive, Blocks, Block

(* Blocks are numbers.                                                     *)
LEMMA BlockIs == Block = 0 .. MaxEntity
BY DownloadBounds DEF Block, Entity, Junk

(* Nothing received is an archive.                                         *)
LEMMA EmptyArchive ==
    /\ <<>> \in Archive /\ Len(<<>>) = 0
    /\ OneEntity(<<>>) /\ \A e : AllFrom(<<>>, e)
    /\ \A i \in DOMAIN <<>> : <<>>[i] # Junk
<1>1. <<>> \in Seq(Block) /\ Len(<<>>) = 0 /\ DOMAIN <<>> = {}
  OBVIOUS
<1>2. <<>> \in Archive
  <2>1. 0 <= Length BY LengthAssumption
  <2>. QED BY <1>1, <2>1, IsArchive
<1>. QED BY <1>1, <1>2 DEF OneEntity, AllFrom

(* One block more.                                                         *)
LEMMA BlockAppended ==
    ASSUME NEW a \in Archive, NEW e \in Block, Len(a) < Length
    PROVE  /\ Append(a, e) \in Archive /\ Len(Append(a, e)) = Len(a) + 1
           /\ Append(a, e) # <<>>
           /\ AllFrom(a, e) => AllFrom(Append(a, e), e)
           /\ e # Junk /\ (\A i \in DOMAIN a : a[i] # Junk)
                => \A i \in DOMAIN Append(a, e) : Append(a, e)[i] # Junk
<1>1. a \in Seq(Block)
  BY ArchiveHas
<1>2. /\ Append(a, e) \in Seq(Block) /\ Len(Append(a, e)) = Len(a) + 1
      /\ DOMAIN a = 1 .. Len(a) /\ DOMAIN Append(a, e) = 1 .. (Len(a) + 1)
      /\ \A i \in 1 .. Len(a) : Append(a, e)[i] = a[i]
      /\ Append(a, e)[Len(a) + 1] = e
      /\ Len(a) \in Nat
  BY <1>1
<1>3. Append(a, e) \in Archive
  <2>1. Len(a) + 1 <= Length BY <1>2, LengthAssumption
  <2>. QED BY <1>2, <2>1, IsArchive
<1>4. Append(a, e) # <<>>
  BY <1>2
<1>. QED BY <1>2, <1>3, <1>4 DEF AllFrom

(* The first block taken.                                                  *)
LEMMA BlockTaken ==
    ASSUME NEW a \in Archive, a # <<>>
    PROVE  /\ Tail(a) \in Archive /\ Head(a) \in Block
           /\ \A e : AllFrom(a, e) => AllFrom(Tail(a), e) /\ Head(a) = e
<1>1. a \in Seq(Block)
  BY ArchiveHas
<1>2. /\ Len(a) \in Nat \ {0} /\ DOMAIN a = 1 .. Len(a) /\ Head(a) = a[1]
      /\ Tail(a) \in Seq(Block) /\ Len(Tail(a)) = Len(a) - 1
      /\ DOMAIN Tail(a) = 1 .. (Len(a) - 1)
      /\ \A i \in 1 .. (Len(a) - 1) : Tail(a)[i] = a[i + 1]
      /\ a[1] \in Block
  BY <1>1
<1>3. Tail(a) \in Archive
  <2>1. Len(a) <= Length BY ArchiveHas, LengthAssumption
  <2>2. Len(Tail(a)) <= Length BY <1>2, <2>1, LengthAssumption
  <2>. QED BY <1>2, <2>2, IsArchive
<1>. QED BY <1>2, <1>3 DEF AllFrom

(* Every entity is a block.                                                *)
LEMMA EntityBlocks ==
    ASSUME NEW a, NEW e, AllFrom(a, e)
    PROVE  OneEntity(a) /\ (e # Junk => \A i \in DOMAIN a : a[i] # Junk)
BY DEF AllFrom, OneEntity

(* The fields of a request.                                                *)
LEMMA RequestFields ==
    ASSUME NEW r \in Request
    PROVE  /\ r.url \in Url \cup {"none"} /\ r.offset \in 0 .. Length
           /\ r.ifRange \in 0 .. MaxEntity /\ r.retry \in BOOLEAN /\ r.answer \in Answer
           /\ r.serving \in 0 .. MaxEntity /\ r.total \in 0 .. Length /\ r.encoded \in BOOLEAN
BY DownloadBounds DEF Request, Entity, NoEntity

(* The fields of no request.                                               *)
LEMMA NoRequestFields ==
    /\ NoRequest \in Request /\ NoRequest.answer = "none" /\ NoRequest.serving = 0
    /\ NoRequest.ifRange = 0 /\ NoRequest.offset = 0 /\ NoRequest.encoded = FALSE
BY DownloadBounds, LengthAssumption DEF NoRequest, Request, Answer, Entity, NoEntity, NoTotal

(* The fields of a request that is sent.                                   *)
LEMMA AsksFields ==
    ASSUME NEW url \in Url, NEW retry \in BOOLEAN
    PROVE  LET r == Asks(url, retry)
           IN /\ r \in Request /\ r.url = url /\ r.answer = "none" /\ r.serving = 0
              /\ r.ifRange = 0 /\ r.offset = 0 /\ r.encoded = FALSE
<1>. DEFINE r == Asks(url, retry)
<1>1. r = [NoRequest EXCEPT !.url = url, !.retry = retry]
  BY DEF Asks
<1>. HIDE DEF r
<1>2. /\ r \in Request /\ r.url = url /\ r.answer = NoRequest.answer
      /\ r.serving = NoRequest.serving /\ r.ifRange = NoRequest.ifRange
      /\ r.offset = NoRequest.offset /\ r.encoded = NoRequest.encoded
  BY <1>1, NoRequestFields DEF Request
<1>. QED BY <1>2, NoRequestFields DEF r

(* The fields of a request that resumes.                                   *)
LEMMA ResumesFields ==
    ASSUME NEW url \in Url, Len(archive) \in 0 .. Length, sidecar.validator \in Block,
           request' = [Asks(url, FALSE) EXCEPT !.offset = Len(archive),
                                               !.ifRange = sidecar.validator]
    PROVE  /\ request' \in Request /\ request'.url = url /\ request'.answer = "none"
           /\ request'.serving = 0 /\ request'.ifRange = sidecar.validator
           /\ request'.offset = Len(archive) /\ request'.encoded = FALSE
<1>. DEFINE r == Asks(url, FALSE)
<1>1. r \in Request /\ r.url = url /\ r.answer = "none" /\ r.serving = 0 /\ r.encoded = FALSE
  BY AsksFields
<1>2. sidecar.validator \in Entity \cup {NoEntity}
  BY DEF Block, Junk, NoEntity
<1>3. request' = [r EXCEPT !.offset = Len(archive), !.ifRange = sidecar.validator]
  OBVIOUS
<1>. HIDE DEF r
<1>. QED BY <1>1, <1>2, <1>3 DEF Request

(* What the server's answer makes of the request.                          *)
LEMMA AnsweredFields ==
    ASSUME request \in Request, server \in Entity,
           NEW answer \in Answer \ {"none"}, NEW total \in {NoTotal, Length},
           NEW encoded \in BOOLEAN, Answers(answer, total, encoded)
    PROVE  /\ request' \in Request /\ request'.url = request.url /\ request'.answer = answer
           /\ request'.ifRange = request.ifRange /\ request'.encoded = encoded
           /\ request'.serving = IF answer \in {"range", "whole"} THEN server ELSE Junk
<1>. DEFINE served == IF answer \in {"range", "whole"} THEN server ELSE Junk
            whole == IF encoded \/ answer \in {"stale", "error"} THEN NoTotal ELSE total
            from == IF answer = "whole" THEN 0 ELSE request.offset
<1>1. request' = [request EXCEPT !.answer = answer, !.encoded = encoded, !.serving = served,
                                 !.total = whole, !.offset = from]
  BY DEF Answers
<1>2. /\ served \in Entity \cup {NoEntity} /\ whole \in 0 .. Length /\ from \in 0 .. Length
  BY LengthAssumption DEF Junk, NoEntity, NoTotal, Request
<1>3. answer \in Answer /\ encoded \in BOOLEAN
  OBVIOUS
<1>. HIDE DEF served, whole, from
<1>4. request' = [url |-> request.url, offset |-> from, ifRange |-> request.ifRange,
                  retry |-> request.retry, answer |-> answer, serving |-> served,
                  total |-> whole, encoded |-> encoded]
  BY <1>1 DEF Request
<1>5. request' \in Request /\ request'.url = request.url /\ request'.answer = answer
      /\ request'.ifRange = request.ifRange /\ request'.encoded = encoded
      /\ request'.serving = served
  BY <1>2, <1>3, <1>4 DEF Request
<1>. QED BY <1>5 DEF served

(* The fields of a sidecar.                                                *)
LEMMA SidecarFields ==
    ASSUME NEW s \in Sidecar
    PROVE  s.validator \in 0 .. MaxEntity /\ s.total \in 0 .. Length
BY DownloadBounds, LengthAssumption DEF Sidecar, NoSidecar, NoTotal, NoEntity, Entity

(* The fields of no sidecar.                                               *)
LEMMA NoSidecarFields == NoSidecar \in Sidecar /\ NoSidecar.validator = 0
BY DEF Sidecar, NoSidecar, NoEntity

(* The fields of the sidecar of an answer.                                 *)
LEMMA SidecarForFields ==
    ASSUME request \in Request, request.url \in Url, NEW headers \in BOOLEAN,
           NEW total \in 0 .. Length
    PROVE  /\ SidecarFor(headers, total) \in Sidecar /\ SidecarFor(headers, total) # NoSidecar
           /\ SidecarFor(headers, total).validator \in {request.serving, request.ifRange}
<1>1. request.serving \in Entity \cup {NoEntity} /\ request.ifRange \in Entity \cup {NoEntity}
  BY DEF Request
<1>2. SidecarFor(headers, total).url = request.url /\ NoSidecar.url = "none"
  BY DEF SidecarFor, NoSidecar
<1>. QED BY <1>1, <1>2, UrlAssumption DEF SidecarFor, Sidecar

(* What is not there, or is torn, is a directory.                          *)
LEMMA DirectoryKinds ==
    /\ Absent \in Directory /\ Absent.kind # "version"
    /\ Incomplete \in Directory /\ Incomplete.kind # "version"
    /\ \A a \in Archive : MadeOf(a) \in Directory /\ MadeOf(a).from = a
BY DEF Directory, Absent, Incomplete, MadeOf

(* The invariant holds before the first download.                          *)
LEMMA DownloadInitInv == DownloadInit => DownloadInv
<1>. SUFFICES ASSUME DownloadInit PROVE DownloadInv
  OBVIOUS
<1>1. DownloadTypeOK
  <2>1. 1 \in Entity /\ 0 \in 0 .. MaxRuns /\ 0 \in Nat
    BY DownloadBounds DEF Entity
  <2>. QED
    BY <2>1, EmptyArchive, NoRequestFields, NoSidecarFields, DirectoryKinds
       DEF DownloadInit, DownloadTypeOK, Phase
<1>2. RequestFits
  BY EmptyArchive, NoRequestFields, NoSidecarFields
     DEF DownloadInit, RequestFits, Serves, TransferPhase
<1>3. ArchiveFits
  BY EmptyArchive DEF DownloadInit, ArchiveFits, Serves
<1>4. DirectoriesFit
  BY DirectoryKinds DEF DownloadInit, DirectoriesFit
<1>5. CountFits
  BY EmptyArchive DEF DownloadInit, CountFits, Serves
<1>. QED BY <1>1, <1>2, <1>3, <1>4, <1>5 DEF DownloadInv
(* What the typed state gives each step.                                   *)
LEMMA DownloadFacts ==
    ASSUME DownloadInv
    PROVE  /\ server \in 1 .. MaxEntity /\ server \in Entity /\ server # Junk
           /\ archive \in Archive /\ wire \in Archive
           /\ Len(archive) \in 0 .. Length /\ Len(wire) \in 0 .. Length
           /\ sidecar \in Sidecar /\ sidecar.validator \in 0 .. MaxEntity
           /\ sidecar.validator \in Block
           /\ request \in Request /\ request.serving \in 0 .. MaxEntity
           /\ request.serving \in Block
           /\ request.ifRange \in 0 .. MaxEntity /\ request.offset \in 0 .. Length
           /\ received \in Nat /\ runs \in 0 .. MaxRuns
<1>. USE DEF DownloadInv, DownloadTypeOK
<1>1. server \in 1 .. MaxEntity /\ server # Junk
  BY DownloadBounds DEF Entity, Junk
<1>2. archive \in Archive /\ wire \in Archive
  OBVIOUS
<1>3. Len(archive) \in 0 .. Length /\ Len(wire) \in 0 .. Length
  BY <1>2, ArchiveHas
<1>4. sidecar.validator \in 0 .. MaxEntity
  BY SidecarFields
<1>5. /\ request.serving \in 0 .. MaxEntity /\ request.ifRange \in 0 .. MaxEntity
      /\ request.offset \in 0 .. Length
  BY RequestFields
<1>. QED BY <1>1, <1>2, <1>3, <1>4, <1>5, BlockIs

(* An archive of no blocks.                                                *)
LEMMA EmptyIsEmpty == \A a \in Archive : Len(a) = 0 <=> a = <<>>
<1>. SUFFICES ASSUME NEW a \in Archive PROVE Len(a) = 0 <=> a = <<>>
  OBVIOUS
<1>1. a \in Seq(Block) BY ArchiveHas
<1>. QED BY <1>1

(* A task starts: the partial is complete, resumed, or thrown away.        *)
LEMMA StartsKeepsInv ==
    ASSUME DownloadInv, NEW url \in Url, StartsDownload(url) PROVE DownloadInv'
<1>. USE DEF RequestFits, ArchiveFits, DirectoriesFit, CountFits, Serves
<1>f. /\ server \in 1 .. MaxEntity
      /\ archive \in Archive /\ Len(archive) \in 0 .. Length
      /\ sidecar \in Sidecar /\ sidecar.validator \in 0 .. MaxEntity
      /\ sidecar.validator \in Block
      /\ request \in Request
  BY DownloadFacts
<1>i. DownloadTypeOK /\ RequestFits /\ ArchiveFits /\ DirectoriesFit /\ CountFits
  BY DEF DownloadInv
<1>s. /\ at = "idle" /\ version.kind # "version" /\ version' = version
      /\ UNCHANGED <<server, sidecar, staging, wire, ended, received, torn>>
      /\ runs' \in 0 .. MaxRuns
  <2>1. runs + 1 \in 0 .. MaxRuns
    BY DownloadFacts, DownloadBounds DEF StartsDownload
  <2>. QED BY <2>1, DirectoryKinds DEF StartsDownload
<1>w. wire = <<>> /\ AllFrom(<<>>, 0)
  BY <1>i, <1>s, EmptyArchive
<1>1. CASE /\ AlreadyComplete(url) /\ at' = "downloaded"
           /\ UNCHANGED <<archive, request, clean, blind>>
  <2>1. DownloadTypeOK'
    BY <1>1, <1>i, <1>s DEF DownloadTypeOK, Phase, InstallPhase
  <2>2. RequestFits' /\ ArchiveFits' /\ DirectoriesFit' /\ CountFits'
    BY <1>1, <1>i, <1>s, <1>w DEF TransferPhase
  <2>. QED BY <2>1, <2>2 DEF DownloadInv
<1>2. CASE /\ Resumes(url) /\ at' = "requested"
           /\ request' = [Asks(url, FALSE) EXCEPT !.offset = Len(archive),
                                                  !.ifRange = sidecar.validator]
           /\ blind' = (blind \/ sidecar.validator = NoEntity)
           /\ UNCHANGED <<archive, clean>>
  <2>1. /\ request' \in Request /\ request'.url = url /\ request'.answer = "none"
        /\ request'.serving = 0 /\ request'.ifRange = sidecar.validator
        /\ request'.offset = Len(archive) /\ request'.encoded = FALSE
    BY <1>2, <1>f, ResumesFields
  <2>2. /\ blind' \in BOOLEAN
        /\ blind' = FALSE => blind = FALSE /\ sidecar.validator # NoEntity
    BY <1>2, <1>i DEF DownloadTypeOK
  <2>3. DownloadTypeOK'
    BY <1>2, <1>i, <1>s, <2>1, <2>2 DEF DownloadTypeOK, Phase, TransferPhase
  <2>4. RequestFits'
    BY <1>2, <1>f, <1>i, <1>s, <1>w, <2>1
  <2>5. ArchiveFits'
    BY <1>2, <1>f, <1>i, <1>s, <2>1, <2>2
  <2>6. DirectoriesFit' /\ CountFits'
    BY <1>2, <1>i, <1>s
  <2>. QED BY <2>3, <2>4, <2>5, <2>6 DEF DownloadInv
<1>3. CASE /\ at' = "clearing" /\ request' = Asks(url, FALSE)
           /\ archive' = <<>> /\ blind' = FALSE
           /\ clean' = (clean /\ (archive = <<>> \/ sidecar = NoSidecar))
  <2>1. /\ request' \in Request /\ request'.url = url /\ request'.answer = "none"
        /\ request'.serving = 0 /\ request'.ifRange = 0 /\ request'.offset = 0
    BY <1>3, AsksFields
  <2>2. /\ clean' \in BOOLEAN
        /\ clean' = TRUE => clean = TRUE /\ (archive = <<>> \/ sidecar = NoSidecar)
    BY <1>3, <1>i DEF DownloadTypeOK
  <2>3. DownloadTypeOK'
    BY <1>3, <1>i, <1>s, <2>1, <2>2, EmptyArchive DEF DownloadTypeOK, Phase, TransferPhase
  <2>4. RequestFits'
    <3>1. at' = "clearing" /\ archive' = <<>>
      BY <1>3
    <3>2. sidecar.validator <= server
      BY <1>i
    <3>. QED BY <3>1, <3>2, <1>f, <1>s, <1>w, <2>1
  <2>6. ArchiveFits' /\ DirectoriesFit'
    BY <1>3, <1>s, EmptyArchive
  <2>5. CountFits'
    BY <1>3, <1>i, <1>s, <2>2, EmptyArchive
  <2>. QED BY <2>3, <2>4, <2>5, <2>6 DEF DownloadInv
<1>. QED BY <1>1, <1>2, <1>3 DEF StartsDownload

(* The server and the network: an answer, a chunk, the end, a new archive. *)
LEMMA NetworkKeepsInv == ASSUME DownloadInv, NetworkSteps PROVE DownloadInv'
<1>. USE DEF RequestFits, ArchiveFits, DirectoriesFit, CountFits, Serves
<1>f. /\ server \in 1 .. MaxEntity /\ server # Junk
      /\ archive \in Archive /\ wire \in Archive
      /\ Len(archive) \in 0 .. Length /\ Len(wire) \in 0 .. Length
      /\ sidecar \in Sidecar /\ sidecar.validator \in 0 .. MaxEntity
      /\ request \in Request /\ request.serving \in 0 .. MaxEntity
      /\ request.serving \in Block /\ request.ifRange \in 0 .. MaxEntity
      /\ request.offset \in 0 .. Length
  BY DownloadFacts
<1>i. DownloadTypeOK /\ RequestFits /\ ArchiveFits /\ DirectoriesFit /\ CountFits
  BY DEF DownloadInv
<1>1. ASSUME NEW answer \in Answer \ {"none"}, NEW total \in {NoTotal, Length},
             NEW encoded \in BOOLEAN, Answers(answer, total, encoded)
      PROVE  DownloadInv'
  <2>1. /\ at = "requested" /\ at' = "answered" /\ wire = <<>>
        /\ answer = "range" => request.offset > 0 /\ request.ifRange \in {NoEntity, server}
        /\ UNCHANGED <<server, archive, sidecar, staging, version, wire, ended, runs,
                       received, clean, torn, blind>>
    BY <1>1, <1>i DEF Answers, NetworkUnchanged, files, history
  <2>2. /\ request' \in Request /\ request'.url = request.url /\ request'.answer = answer
        /\ request'.ifRange = request.ifRange /\ (answer = "range" => request'.encoded = FALSE)
        /\ request'.serving = IF answer \in {"range", "whole"} THEN server ELSE Junk
    <3>1. answer = "range" => encoded = FALSE
      BY <1>1 DEF Answers
    <3>. QED BY <1>1, <1>f, <1>i, <3>1, AnsweredFields DEF DownloadTypeOK
  <2>3. DownloadTypeOK'
    BY <1>i, <2>1, <2>2 DEF DownloadTypeOK, Phase, TransferPhase
  <2>4. RequestFits'
    <3>1. AllFrom(wire', request'.serving)
      BY <2>1, EmptyArchive
    <3>. QED BY <1>f, <1>i, <2>1, <2>2, <3>1 DEF TransferPhase
  <2>5. ArchiveFits'
    BY <1>f, <1>i, <2>1, <2>2
  <2>6. DirectoriesFit' /\ CountFits'
    BY <1>i, <2>1 DEF MadeWell
  <2>. QED BY <2>3, <2>4, <2>5, <2>6 DEF DownloadInv
<1>2. CASE DataComes
  <2>1. /\ at \in {"answered", "opened", "streaming"} /\ wire' = Append(wire, request.serving)
        /\ UNCHANGED <<at, request, ended, server, archive, sidecar, staging, version, runs,
                       received, clean, torn, blind>>
    BY <1>2 DEF DataComes, NetworkUnchanged, files, history
  <2>2. Len(wire) < Length
    <3>. DEFINE held == IF request.answer = "whole" /\ at = "answered" THEN 0 ELSE Len(archive)
    <3>1. held \in Nat
      BY <1>f
    <3>2. Length - Len(wire) - held > 0
      BY <1>2 DEF DataComes, Left
    <3>. HIDE DEF held
    <3>. QED BY <1>f, <3>1, <3>2, LengthAssumption
  <2>3. wire' \in Archive /\ AllFrom(wire', request.serving)
    BY <1>f, <1>i, <2>1, <2>2, BlockAppended
  <2>4. DownloadTypeOK'
    BY <1>i, <2>1, <2>3 DEF DownloadTypeOK
  <2>5. RequestFits' /\ ArchiveFits' /\ DirectoriesFit' /\ CountFits'
    BY <1>i, <2>1, <2>3 DEF MadeWell
  <2>. QED BY <2>4, <2>5 DEF DownloadInv
<1>3. CASE DataEnds
  <2>1. /\ ended' = TRUE
        /\ UNCHANGED <<at, request, wire, server, archive, sidecar, staging, version, runs,
                       received, clean, torn, blind>>
    BY <1>3 DEF DataEnds, NetworkUnchanged, files, history
  <2>4. DownloadTypeOK'
    BY <1>i, <2>1 DEF DownloadTypeOK
  <2>5. RequestFits' /\ ArchiveFits' /\ DirectoriesFit' /\ CountFits'
    BY <1>i, <2>1 DEF MadeWell
  <2>. QED BY <2>4, <2>5 DEF DownloadInv
<1>4. CASE ServerReplaces
  <2>1. /\ server' = server + 1 /\ server < MaxEntity /\ clean' = FALSE
        /\ UNCHANGED <<at, request, wire, ended, archive, sidecar, staging, version, runs,
                       received, torn, blind>>
    BY <1>4 DEF ServerReplaces, files, transfer
  <2>2. server' \in Entity
    BY <1>f, <2>1, DownloadBounds DEF Entity
  <2>3. DownloadTypeOK'
    BY <1>i, <2>1, <2>2 DEF DownloadTypeOK
  <2>4. RequestFits' /\ ArchiveFits'
    BY <1>f, <1>i, <2>1
  <2>5. DirectoriesFit' /\ CountFits'
    BY <1>i, <2>1 DEF MadeWell
  <2>. QED BY <2>3, <2>4, <2>5 DEF DownloadInv
<1>. QED BY <1>1, <1>2, <1>3, <1>4 DEF NetworkSteps

(* The transfer, up to the sidecar of the stream.                          *)
LEMMA OpeningKeepsInv ==
    ASSUME DownloadInv, SidecarCleared \/ Restarts \/ RestartFails \/ Opens \/ UnlinksSidecar \/ TransferFails
    PROVE  DownloadInv'
<1>. USE DEF RequestFits, ArchiveFits, DirectoriesFit, CountFits, Serves
<1>f. /\ server \in 1 .. MaxEntity /\ server # Junk
      /\ archive \in Archive /\ wire \in Archive
      /\ Len(archive) \in 0 .. Length /\ Len(wire) \in 0 .. Length
      /\ sidecar \in Sidecar /\ sidecar.validator \in 0 .. MaxEntity
      /\ request \in Request /\ request.serving \in 0 .. MaxEntity
      /\ request.serving \in Block /\ request.ifRange \in 0 .. MaxEntity
      /\ request.offset \in 0 .. Length
  BY DownloadFacts
<1>i. DownloadTypeOK /\ RequestFits /\ ArchiveFits /\ DirectoriesFit /\ CountFits
  BY DEF DownloadInv
<1>1. CASE SidecarCleared
  <2>1. /\ at = "clearing" /\ at' = "requested" /\ sidecar' \in {NoSidecar, sidecar}
        /\ UNCHANGED <<server, archive, staging, version, request, wire, ended, runs,
                       received, clean, torn, blind>>
    BY <1>1 DEF SidecarCleared, SidecarGoes, transfer, history
  <2>2. DownloadTypeOK'
    BY <1>i, <2>1, NoSidecarFields DEF DownloadTypeOK, Phase, TransferPhase
  <2>3. RequestFits' /\ ArchiveFits' /\ DirectoriesFit' /\ CountFits'
    BY <1>f, <1>i, <2>1, NoSidecarFields DEF TransferPhase
  <2>. QED BY <2>2, <2>3 DEF DownloadInv
<1>2. CASE Restarts
  <2>1. /\ at = "answered" /\ at' = "clearing" /\ archive' = <<>> /\ wire' = <<>>
        /\ ended' = FALSE /\ clean' = FALSE /\ request' = Asks(request.url, TRUE)
        /\ sidecar' \in {NoSidecar, sidecar}
        /\ UNCHANGED <<server, staging, version, runs, received, torn, blind>>
    BY <1>2 DEF Restarts, SidecarGoes
  <2>2. /\ request' \in Request /\ request'.url = request.url /\ request'.answer = "none"
        /\ request'.serving = 0 /\ request'.ifRange = 0 /\ request'.offset = 0
        /\ request.url \in Url
    BY <1>i, <2>1, AsksFields DEF TransferPhase
  <2>3. DownloadTypeOK'
    BY <1>i, <2>1, <2>2, EmptyArchive, NoSidecarFields DEF DownloadTypeOK, Phase, TransferPhase
  <2>4. RequestFits'
    <3>1. sidecar'.validator <= server' /\ server' = server /\ AllFrom(wire', 0)
      BY <1>f, <1>i, <2>1, EmptyArchive, NoSidecarFields
    <3>2. at' = "clearing" /\ archive' = <<>> /\ wire' = <<>> /\ 0 <= server
      BY <1>f, <2>1
    <3>. QED BY <2>2, <3>1, <3>2
  <2>5. ArchiveFits' /\ DirectoriesFit' /\ CountFits'
    BY <1>i, <2>1, EmptyArchive
  <2>. QED BY <2>3, <2>4, <2>5 DEF DownloadInv
<1>3. CASE Opens
  <2>1. /\ at = "answered" /\ at' = "opened" /\ request.answer \in {"range", "whole"}
        /\ UNCHANGED <<server, sidecar, staging, version, request, wire, ended, runs,
                       received, torn>>
    BY <1>3 DEF Opens, transfer
  <2>2. \/ request.answer = "range" /\ UNCHANGED <<archive, clean, blind>>
        \/ /\ archive' = <<>> /\ blind' = FALSE
           /\ clean' \in BOOLEAN
           /\ clean' = TRUE => clean = TRUE /\ archive = <<>> /\ request.encoded = FALSE
    BY <1>3, <1>f, RequestFields DEF Opens
  <2>3. request.answer = "range" /\ clean = TRUE /\ torn = FALSE => request.encoded = FALSE
    BY <1>i
  <2>4. DownloadTypeOK'
    BY <1>i, <2>1, <2>2, EmptyArchive DEF DownloadTypeOK, Phase, TransferPhase
  <2>5. RequestFits' /\ DirectoriesFit'
    BY <1>f, <1>i, <2>1, <2>2 DEF TransferPhase
  <2>6. ArchiveFits'
    BY <1>f, <1>i, <2>1, <2>2, EmptyArchive
  <2>7. CountFits'
    BY <1>f, <1>i, <2>1, <2>2, <2>3, EmptyArchive
  <2>. QED BY <2>4, <2>5, <2>6, <2>7 DEF DownloadInv
<1>4. CASE UnlinksSidecar
  <2>1. /\ sidecar' \in {NoSidecar, sidecar}
        /\ \/ at = "opened" /\ at' = "persisting"
           \/ at = "opened" /\ request.encoded /\ at' = "streaming"
           \/ at = "streaming" /\ wire = <<>> /\ at' = "finishing"
        /\ UNCHANGED <<server, archive, staging, version, request, wire, ended, runs,
                       received, clean, torn, blind>>
    BY <1>4 DEF UnlinksSidecar, SidecarGoes, transfer, history
  <2>2. at' \in {"streaming", "persisting", "finishing"} /\ at \in {"opened", "streaming"}
    BY <2>1
  <2>3. DownloadTypeOK'
    BY <1>i, <2>1, <2>2, NoSidecarFields DEF DownloadTypeOK, Phase, TransferPhase
  <2>4. RequestFits' /\ DirectoriesFit'
    BY <1>f, <1>i, <2>1, <2>2, NoSidecarFields DEF TransferPhase
  <2>5. ArchiveFits'
    BY <1>f, <1>i, <2>1, <2>2, NoSidecarFields
  <2>6. CountFits'
    BY <1>f, <1>i, <2>1, <2>2
  <2>. QED BY <2>3, <2>4, <2>5, <2>6 DEF DownloadInv
<1>5. CASE TransferFails \/ RestartFails
  <2>1. /\ at \in TransferPhase \ {"persisting", "finishing"} /\ at' = "idle"
        /\ staging' = Absent /\ request' = NoRequest /\ wire' = <<>> /\ ended' = FALSE
        /\ \/ sidecar' = sidecar /\ clean' = clean
           \/ sidecar' \in {NoSidecar, sidecar} /\ clean' = FALSE
        /\ UNCHANGED <<server, archive, version, runs, received, torn, blind>>
    BY <1>5 DEF TransferFails, RestartFails, SidecarGoes, Fails, NoTransfer, history, TransferPhase
  <2>2. DownloadTypeOK'
    BY <1>i, <2>1, NoRequestFields, NoSidecarFields, DirectoryKinds, EmptyArchive DEF DownloadTypeOK, Phase
  <2>3. RequestFits'
    BY <1>f, <1>i, <2>1, NoRequestFields, NoSidecarFields, EmptyArchive DEF TransferPhase
  <2>4. ArchiveFits' /\ CountFits'
    BY <1>f, <1>i, <2>1, NoSidecarFields
  <2>5. DirectoriesFit'
    BY <1>i, <2>1 DEF TransferPhase, MadeWell
  <2>. QED BY <2>2, <2>3, <2>4, <2>5 DEF DownloadInv
<1>. QED BY <1>1, <1>2, <1>3, <1>4, <1>5

(* The validator a sidecar gets is that of what is served, or an older one *)
(* that no later range is granted for.                                     *)
LEMMA NamesWhatIsThere ==
    ASSUME DownloadInv, at \in Serves, request.url \in Url, NEW headers \in BOOLEAN,
           NEW total \in 0 .. Length
    PROVE  /\ SidecarFor(headers, total) \in Sidecar /\ SidecarFor(headers, total) # NoSidecar
           /\ SidecarFor(headers, total).validator <= request.serving
           /\ SidecarFor(headers, total).validator <= server
           /\ blind = FALSE /\ SidecarFor(headers, total).validator = server
                => AllFrom(archive, server)
<1>f. /\ server \in 1 .. MaxEntity /\ server # Junk
      /\ archive \in Archive /\ wire \in Archive
      /\ Len(archive) \in 0 .. Length /\ Len(wire) \in 0 .. Length
      /\ sidecar \in Sidecar /\ sidecar.validator \in 0 .. MaxEntity
      /\ request \in Request /\ request.serving \in 0 .. MaxEntity
      /\ request.serving \in Block /\ request.ifRange \in 0 .. MaxEntity
      /\ request.offset \in 0 .. Length
  BY DownloadFacts
<1>i. DownloadTypeOK /\ RequestFits /\ ArchiveFits /\ DirectoriesFit /\ CountFits
  BY DEF DownloadInv
<1>1. /\ request.serving \in 1 .. server /\ request.ifRange <= request.serving
      /\ blind = FALSE => AllFrom(archive, request.serving)
  BY <1>i DEF RequestFits, ArchiveFits
<1>2. /\ SidecarFor(headers, total) \in Sidecar /\ SidecarFor(headers, total) # NoSidecar
      /\ SidecarFor(headers, total).validator \in {request.serving, request.ifRange}
  BY <1>f, SidecarForFields
<1>. QED BY <1>f, <1>1, <1>2

(* The stream keeps the invariant.                                         *)
LEMMA StreamKeepsInv ==
    ASSUME DownloadInv,
           Writes \/ \E headers \in BOOLEAN : WritesSidecar(headers) \/ StreamEnds(headers)
    PROVE  DownloadInv'
<1>. USE DEF RequestFits, ArchiveFits, DirectoriesFit, CountFits, Serves
<1>f. /\ server \in 1 .. MaxEntity /\ server # Junk
      /\ archive \in Archive /\ wire \in Archive
      /\ Len(archive) \in 0 .. Length /\ Len(wire) \in 0 .. Length
      /\ sidecar \in Sidecar /\ sidecar.validator \in 0 .. MaxEntity
      /\ request \in Request /\ request.serving \in 0 .. MaxEntity
      /\ request.serving \in Block /\ request.ifRange \in 0 .. MaxEntity
      /\ request.offset \in 0 .. Length
  BY DownloadFacts
<1>i. DownloadTypeOK /\ RequestFits /\ ArchiveFits /\ DirectoriesFit /\ CountFits
  BY DEF DownloadInv
<1>1. CASE Writes
  <2>1. /\ at = "streaming" /\ wire # <<>> /\ Len(archive) < Length
        /\ archive' = Append(archive, Head(wire)) /\ wire' = Tail(wire)
        /\ received' = received + 1
        /\ UNCHANGED <<server, sidecar, staging, version, at, request, ended, runs, clean,
                       torn, blind>>
    BY <1>1 DEF Writes, Authorized
  <2>2. /\ Head(wire) = request.serving /\ wire' \in Archive
        /\ AllFrom(wire', request.serving) /\ request.serving # Junk
    BY <1>f, <1>i, <2>1, BlockTaken DEF Junk
  <2>3. /\ archive' \in Archive /\ Len(archive') = Len(archive) + 1 /\ archive' # <<>>
        /\ AllFrom(archive, request.serving) => AllFrom(archive', request.serving)
        /\ \A i \in DOMAIN archive' : archive'[i] # Junk
    BY <1>f, <1>i, <2>1, <2>2, BlockAppended
  <2>4. AllFrom(archive', request.serving) => OneEntity(archive')
    BY EntityBlocks
  <2>5. DownloadTypeOK'
    <3>1. received' \in Nat
      BY <2>1, DownloadFacts
    <3>. QED BY <1>i, <2>1, <2>2, <2>3, <3>1 DEF DownloadTypeOK
  <2>6. RequestFits' /\ DirectoriesFit'
    BY <1>i, <2>1, <2>2
  <2>7. ArchiveFits'
    <3>1. sidecar.validator = server => request.serving = server
      BY <1>f, <1>i, <2>1
    <3>. QED BY <1>i, <2>1, <2>3, <2>4, <3>1
  <2>8. CountFits'
    BY <1>f, <1>i, <2>1, <2>3
  <2>. QED BY <2>5, <2>6, <2>7, <2>8 DEF DownloadInv
<1>2. ASSUME NEW headers \in BOOLEAN, WritesSidecar(headers) PROVE DownloadInv'
  <2>1. /\ at = "persisting" /\ at' = "streaming"
        /\ \/ sidecar' = SidecarFor(headers, request.total) /\ clean' = clean
           \/ sidecar' = sidecar /\ clean' = FALSE
        /\ UNCHANGED <<server, archive, staging, version, request, wire, ended, runs,
                       received, torn, blind>>
    BY <1>2 DEF WritesSidecar, Written, Persists, transfer
  <2>2. request.total \in 0 .. Length /\ request.url \in Url
    BY <1>f, <1>i, <2>1, RequestFields DEF TransferPhase
  <2>3. /\ sidecar' \in Sidecar /\ sidecar'.validator <= request.serving
        /\ sidecar'.validator <= server
        /\ blind = FALSE /\ sidecar'.validator = server => AllFrom(archive, server)
        /\ clean' = TRUE => clean = TRUE /\ sidecar' # NoSidecar
    <3>1. CASE sidecar' = SidecarFor(headers, request.total) /\ clean' = clean
      BY <1>f, <2>1, <2>2, <3>1, NamesWhatIsThere
    <3>2. CASE sidecar' = sidecar /\ clean' = FALSE
      BY <1>f, <1>i, <2>1, <3>2
    <3>. QED BY <2>1, <3>1, <3>2
  <2>4. DownloadTypeOK'
    BY <1>i, <2>1, <2>3 DEF DownloadTypeOK, Phase, TransferPhase
  <2>5. RequestFits' /\ DirectoriesFit'
    BY <1>i, <2>1, <2>3 DEF TransferPhase
  <2>6. ArchiveFits' /\ CountFits'
    BY <1>i, <2>1, <2>3
  <2>. QED BY <2>4, <2>5, <2>6 DEF DownloadInv
<1>3. ASSUME NEW headers \in BOOLEAN, StreamEnds(headers) PROVE DownloadInv'
  <2>1. /\ at = "finishing" /\ at' = "downloaded"
        /\ \/ sidecar' = SidecarFor(headers, Len(archive)) /\ clean' = clean
           \/ sidecar' = sidecar /\ clean' = FALSE
        /\ request' = NoRequest /\ wire' = <<>> /\ ended' = FALSE
        /\ UNCHANGED <<server, archive, staging, version, runs, received, torn, blind>>
    BY <1>3 DEF StreamEnds, Written, NoTransfer
  <2>2. request.url \in Url
    BY <1>i, <2>1 DEF TransferPhase
  <2>3. /\ sidecar' \in Sidecar /\ sidecar'.validator <= server
        /\ blind = FALSE /\ sidecar'.validator = server => AllFrom(archive, server)
        /\ clean' = TRUE => clean = TRUE /\ sidecar' # NoSidecar
    <3>1. CASE sidecar' = SidecarFor(headers, Len(archive)) /\ clean' = clean
      BY <1>f, <2>1, <2>2, <3>1, NamesWhatIsThere
    <3>2. CASE sidecar' = sidecar /\ clean' = FALSE
      BY <1>f, <1>i, <2>1, <3>2
    <3>. QED BY <2>1, <3>1, <3>2
  <2>4. DownloadTypeOK'
    BY <1>i, <2>1, <2>3, NoRequestFields, EmptyArchive DEF DownloadTypeOK, Phase, InstallPhase
  <2>5. RequestFits'
    BY <1>f, <2>1, <2>3, NoRequestFields, EmptyArchive DEF TransferPhase
  <2>6. DirectoriesFit' /\ ArchiveFits' /\ CountFits'
    BY <1>i, <2>1, <2>3
  <2>. QED BY <2>4, <2>5, <2>6 DEF DownloadInv
<1>. QED BY <1>1, <1>2, <1>3

(* What an install step leaves alone keeps the invariant.                  *)
LEMMA RestKeepsInv ==
    ASSUME DownloadInv, UNCHANGED <<server, runs>>, at' \in {"idle", "poisoned"} \cup InstallPhase,
           /\ wire' = <<>> /\ ended' \in BOOLEAN /\ request' \in {request, NoRequest}
           /\ archive' \in {archive, <<>>} /\ sidecar' \in {NoSidecar, sidecar} /\ blind' = blind
           /\ staging' \in Directory /\ version' \in Directory
           /\ received' \in Nat /\ clean' \in BOOLEAN /\ torn' \in BOOLEAN,
           wire = <<>> \/ request' = NoRequest,
           at' \in {"patching", "copying"} => Whole(archive')
    PROVE  DownloadTypeOK' /\ RequestFits' /\ ArchiveFits'
<1>. USE DEF RequestFits, ArchiveFits, DirectoriesFit, CountFits, Serves
<1>f. /\ server \in 1 .. MaxEntity /\ server # Junk
      /\ archive \in Archive /\ wire \in Archive
      /\ Len(archive) \in 0 .. Length /\ Len(wire) \in 0 .. Length
      /\ sidecar \in Sidecar /\ sidecar.validator \in 0 .. MaxEntity
      /\ request \in Request /\ request.serving \in 0 .. MaxEntity
      /\ request.serving \in Block /\ request.ifRange \in 0 .. MaxEntity
      /\ request.offset \in 0 .. Length
  BY DownloadFacts
<1>i. DownloadTypeOK /\ RequestFits /\ ArchiveFits /\ DirectoriesFit /\ CountFits
  BY DEF DownloadInv
<1>s. sidecar' \in Sidecar /\ sidecar'.validator \in {sidecar.validator, 0}
  BY <1>f, NoSidecarFields
<1>a. /\ at' \notin TransferPhase /\ at' \notin Serves
      /\ at' \notin {"clearing", "answered", "requested"}
  BY DEF TransferPhase, InstallPhase
<1>1. DownloadTypeOK'
  <2>1. archive' \in Archive /\ <<>> \in Archive
    BY <1>f, EmptyArchive
  <2>2. blind' \in BOOLEAN /\ at' \in Phase /\ request' \in Request
    BY <1>f, <1>i, NoRequestFields DEF DownloadTypeOK, Phase
  <2>. QED BY <1>i, <1>s, <2>1, <2>2 DEF DownloadTypeOK
<1>2. RequestFits'
  <2>1. AllFrom(wire', request'.serving)
    BY EmptyArchive
  <2>2. /\ request'.answer \in {"range", "whole"} =>
            /\ request'.serving \in 1 .. server
            /\ request'.ifRange <= request'.serving /\ sidecar'.validator <= request'.serving
        /\ request'.ifRange <= server
        /\ request'.answer = "range" => request'.encoded = FALSE
    BY <1>f, <1>i, <1>s, NoRequestFields
  <2>3. sidecar'.validator <= server
    BY <1>f, <1>i, <1>s
  <2>. QED BY <1>a, <2>1, <2>2, <2>3
<1>3. ArchiveFits'
  <2>1. CASE archive' = archive
    BY <1>a, <1>f, <1>i, <2>1, NoSidecarFields
  <2>2. CASE archive' = <<>>
    BY <1>a, <2>2, EmptyArchive
  <2>. QED BY <2>1, <2>2
<1>. QED BY <1>1, <1>2, <1>3

(* The archive is gone, and what was counted for it, or it resists.        *)
LEMMA ArchiveGoesTypes ==
    ASSUME DownloadInv, ArchiveGoes
    PROVE  /\ received' \in Nat /\ clean' \in BOOLEAN /\ torn' \in BOOLEAN
           /\ archive' \in {archive, <<>>}
<1>t. torn \in BOOLEAN /\ received \in Nat
  BY DEF DownloadInv, DownloadTypeOK
<1>1. CASE archive' = <<>> /\ received' = 0 /\ clean' = TRUE /\ torn' = FALSE
  <2>1. received' \in Nat
    BY <1>1
  <2>. QED BY <1>1, <2>1, Zenon
<1>2. CASE clean' = FALSE /\ UNCHANGED <<archive, received, torn>>
  BY <1>t, <1>2, Zenon
<1>. QED BY <1>1, <1>2 DEF ArchiveGoes

(* The install, and what a failure of it leaves.                           *)
LEMMA InstallKeepsInv == ASSUME DownloadInv, InstallSteps PROVE DownloadInv'
<1>. USE DEF RequestFits, ArchiveFits, DirectoriesFit, CountFits, Serves
<1>f. /\ server \in 1 .. MaxEntity /\ server # Junk
      /\ archive \in Archive /\ wire \in Archive
      /\ Len(archive) \in 0 .. Length /\ Len(wire) \in 0 .. Length
      /\ sidecar \in Sidecar /\ sidecar.validator \in 0 .. MaxEntity
      /\ request \in Request /\ request.serving \in 0 .. MaxEntity
      /\ request.serving \in Block /\ request.ifRange \in 0 .. MaxEntity
      /\ request.offset \in 0 .. Length
  BY DownloadFacts
<1>i. DownloadTypeOK /\ RequestFits /\ ArchiveFits /\ DirectoriesFit /\ CountFits
  BY DEF DownloadInv
<1>t. /\ clean \in BOOLEAN /\ torn \in BOOLEAN /\ ended \in BOOLEAN /\ received \in Nat
      /\ staging \in Directory /\ version \in Directory
  BY <1>i DEF DownloadTypeOK
<1>. USE DEF InstallUnchanged, transfer, history, InstallPhase
<1>1. CASE Extracts
  <2>1. /\ at = "downloaded" /\ at' \in {"rebuilt", "patching"} /\ Whole(archive)
        /\ staging' \in {Incomplete, MadeOf(archive)}
        /\ at' = "rebuilt" => staging' = MadeOf(archive)
        /\ UNCHANGED <<archive, sidecar, version, server, request, wire, ended, runs, received,
                       clean, torn, blind>>
    BY <1>1 DEF Extracts
  <2>2. wire = <<>> /\ staging' \in Directory /\ MadeOf(archive).from = archive
    BY <1>f, <1>i, <2>1, DirectoryKinds
  <2>3. DownloadTypeOK' /\ RequestFits' /\ ArchiveFits'
    BY <1>t, <2>1, <2>2, RestKeepsInv
  <2>4. DirectoriesFit' /\ CountFits'
    BY <1>i, <2>1, <2>2 DEF MadeWell
  <2>. QED BY <2>3, <2>4 DEF DownloadInv
<1>2. CASE Patches \/ CopiesResources
  <2>1. /\ at \in {"patching", "copying"} /\ at' \in {"rebuilt", "copying"}
        /\ staging' \in {staging, MadeOf(archive)}
        /\ at' = "rebuilt" => staging' = MadeOf(archive)
        /\ UNCHANGED <<archive, sidecar, version, server, request, wire, ended, runs, received,
                       clean, torn, blind>>
    BY <1>2 DEF Patches, CopiesResources
  <2>2. wire = <<>> /\ staging' \in Directory /\ MadeOf(archive).from = archive /\ Whole(archive)
    BY <1>f, <1>i, <1>t, <2>1, DirectoryKinds
  <2>3. DownloadTypeOK' /\ RequestFits' /\ ArchiveFits'
    BY <1>t, <2>1, <2>2, RestKeepsInv
  <2>4. DirectoriesFit' /\ CountFits'
    BY <1>i, <2>1, <2>2 DEF MadeWell
  <2>. QED BY <2>3, <2>4 DEF DownloadInv
<1>3. CASE Consumes
  <2>1. /\ at = "rebuilt" /\ at' = "consuming"
        /\ \/ archive' = <<>> /\ received' = 0 /\ clean' = TRUE /\ torn' = FALSE
           \/ clean' = FALSE /\ UNCHANGED <<archive, received, torn>>
        /\ UNCHANGED <<sidecar, staging, version, server, request, wire, ended, runs, blind>>
    BY <1>3 DEF Consumes, ArchiveGoes
  <2>2. wire = <<>>
    BY <1>i, <2>1
  <2>5. /\ received' \in Nat /\ clean' \in BOOLEAN /\ torn' \in BOOLEAN
        /\ archive' \in {archive, <<>>}
    BY <1>3, ArchiveGoesTypes DEF Consumes
  <2>6. /\ at' \in {"idle", "poisoned"} \cup InstallPhase /\ at' \notin {"patching", "copying"}
        /\ wire' = <<>> /\ ended' \in BOOLEAN /\ staging' \in Directory /\ version' \in Directory
    BY <1>t, <2>1, <2>2
  <2>3. DownloadTypeOK' /\ RequestFits' /\ ArchiveFits'
    BY <2>1, <2>2, <2>5, <2>6, RestKeepsInv
  <2>4. DirectoriesFit' /\ CountFits'
    BY <1>i, <2>1, EmptyArchive DEF MadeWell
  <2>. QED BY <2>3, <2>4 DEF DownloadInv
<1>4. CASE DropsSidecar \/ Seals
  <2>1. /\ \/ at = "consuming" /\ at' = "consumed" /\ sidecar' \in {NoSidecar, sidecar}
           \/ at = "consumed" /\ at' = "sealed" /\ sidecar' = sidecar
        /\ UNCHANGED <<archive, staging, version, server, request, wire, ended, runs, received,
                       clean, torn, blind>>
    BY <1>4 DEF DropsSidecar, SidecarGoes, Seals, files
  <2>2. wire = <<>>
    BY <1>i, <2>1
  <2>3. DownloadTypeOK' /\ RequestFits' /\ ArchiveFits'
    BY <1>t, <2>1, <2>2, RestKeepsInv
  <2>4. DirectoriesFit' /\ CountFits'
    BY <1>i, <2>1, <2>2 DEF MadeWell
  <2>. QED BY <2>3, <2>4 DEF DownloadInv
<1>5. CASE RemovesOld \/ Promotes
  <2>1. /\ \/ at = "sealed" /\ at' = "replacing" /\ version' = Absent /\ staging' = staging
           \/ at = "replacing" /\ at' = "idle" /\ version' = staging /\ staging' = Absent
        /\ UNCHANGED <<archive, sidecar, server, request, wire, ended, runs, received,
                       clean, torn, blind>>
    BY <1>5 DEF RemovesOld, Promotes
  <2>2. wire = <<>> /\ staging' \in Directory /\ version' \in Directory
    BY <1>i, <1>t, <2>1, DirectoryKinds
  <2>3. DownloadTypeOK' /\ RequestFits' /\ ArchiveFits'
    BY <1>t, <2>1, <2>2, RestKeepsInv
  <2>4. DirectoriesFit' /\ CountFits'
    BY <1>i, <2>1, DirectoryKinds DEF MadeWell
  <2>. QED BY <2>3, <2>4 DEF DownloadInv
<1>6. CASE InstallFails
  <2>1. /\ at \in InstallPhase /\ at' = "poisoned" /\ staging' \in {staging, Incomplete}
        /\ UNCHANGED <<archive, sidecar, version, server, request, wire, ended, runs, received,
                       clean, torn, blind>>
    BY <1>6 DEF InstallFails
  <2>2. wire = <<>> /\ staging' \in Directory
    BY <1>i, <1>t, <2>1, DirectoryKinds
  <2>3. DownloadTypeOK' /\ RequestFits' /\ ArchiveFits'
    BY <1>t, <2>1, <2>2, RestKeepsInv
  <2>4. DirectoriesFit' /\ CountFits'
    BY <1>i, <2>1 DEF MadeWell
  <2>. QED BY <2>3, <2>4 DEF DownloadInv
<1>7. CASE CleansUp
  <2>1. /\ at = "poisoned" /\ at' = "idle"
        /\ \/ /\ ArchiveGoes /\ staging' = Absent /\ sidecar' \in {NoSidecar, sidecar} /\ blind' = blind
              /\ \/ archive' = <<>> /\ received' = 0 /\ clean' = TRUE /\ torn' = FALSE
                 \/ clean' = FALSE /\ UNCHANGED <<archive, received, torn>>
           \/ UNCHANGED <<archive, sidecar, staging, received, clean, torn, blind>>
        /\ UNCHANGED <<version, server, request, wire, ended, runs>>
    BY <1>7 DEF CleansUp, ThrowsOut, ArchiveGoes, SidecarGoes
  <2>2. wire = <<>> /\ staging' \in Directory /\ version.kind # "version"
    BY <1>i, <1>t, <2>1, DirectoryKinds
  <2>3. DownloadTypeOK' /\ RequestFits' /\ ArchiveFits'
    <3>1. CASE UNCHANGED <<archive, sidecar, staging, received, clean, torn, blind>>
      BY <1>t, <2>1, <2>2, <3>1, RestKeepsInv
    <3>2. CASE /\ ArchiveGoes /\ staging' = Absent /\ sidecar' \in {NoSidecar, sidecar}
               /\ blind' = blind
      <4>1. /\ received' \in Nat /\ clean' \in BOOLEAN /\ torn' \in BOOLEAN
            /\ archive' \in {archive, <<>>}
        BY <3>2, ArchiveGoesTypes
      <4>2. wire' = <<>> /\ ended' \in BOOLEAN /\ version' \in Directory
        BY <1>t, <2>1, <2>2
      <4>. QED BY <2>1, <2>2, <3>2, <4>1, <4>2, RestKeepsInv
    <3>. QED BY <2>1, <3>1, <3>2
  <2>4. DirectoriesFit' /\ CountFits'
    BY <1>i, <2>1, <2>2, EmptyArchive
  <2>. QED BY <2>3, <2>4 DEF DownloadInv
<1>. QED BY <1>1, <1>2, <1>3, <1>4, <1>5, <1>6, <1>7 DEF InstallSteps

(* The process dies: the partial and its sidecar are what they were.       *)
LEMMA DeathKeepsInv == ASSUME DownloadInv, DownloadDies PROVE DownloadInv'
<1>. USE DEF RequestFits, ArchiveFits, DirectoriesFit, CountFits, Serves
<1>i. DownloadTypeOK /\ RequestFits /\ ArchiveFits /\ DirectoriesFit /\ CountFits
  BY DEF DownloadInv
<1>t. /\ clean \in BOOLEAN /\ torn \in BOOLEAN /\ received \in Nat
      /\ staging \in Directory /\ version \in Directory
  BY <1>i DEF DownloadTypeOK
<1>1. /\ at # "idle" /\ at' = "idle" /\ request' = NoRequest /\ wire' = <<>> /\ ended' = FALSE
      /\ staging' \in {staging, Absent, Incomplete}
      /\ UNCHANGED <<server, archive, sidecar, version, runs, received, clean, blind>>
  BY DEF DownloadDies, NoTransfer
<1>2. /\ torn' \in BOOLEAN
      /\ torn' = FALSE => torn = FALSE /\ at \notin {"persisting", "finishing"}
  BY <1>t DEF DownloadDies
<1>3. staging' \in Directory /\ version.kind # "version"
  BY <1>i, <1>t, <1>1, DirectoryKinds
<1>4. DownloadTypeOK' /\ RequestFits' /\ ArchiveFits'
  BY <1>t, <1>1, <1>2, <1>3, RestKeepsInv
<1>5. DirectoriesFit' /\ CountFits'
  BY <1>i, <1>1, <1>2, <1>3
<1>. QED BY <1>4, <1>5 DEF DownloadInv

(* Every step keeps the invariant.                                         *)
LEMMA DownloadStepInv == DownloadInv /\ [DownloadNext]_downloadVars => DownloadInv'
<1>. SUFFICES ASSUME DownloadInv, [DownloadNext]_downloadVars PROVE DownloadInv'
  OBVIOUS
<1>1. CASE UNCHANGED downloadVars
  BY <1>1 DEF downloadVars, files, transfer, history, DownloadInv, DownloadTypeOK, RequestFits,
              ArchiveFits, DirectoriesFit, CountFits, MadeWell
<1>2. CASE TransferSteps
  BY <1>2, OpeningKeepsInv, StreamKeepsInv DEF TransferSteps
<1>. QED
  BY <1>1, <1>2, StartsKeepsInv, NetworkKeepsInv, InstallKeepsInv, DeathKeepsInv
     DEF DownloadNext

(* The invariant has the properties in it.                                 *)
LEMMA InvIsSound ==
    DownloadInv => DownloadTypeOK /\ NothingForeignIsInstalled /\ BlocksCountOnce
<1>. SUFFICES ASSUME DownloadInv
              PROVE  DownloadTypeOK /\ NothingForeignIsInstalled /\ BlocksCountOnce
  OBVIOUS
<1>1. DownloadTypeOK /\ ArchiveFits /\ DirectoriesFit /\ CountFits
  BY DEF DownloadInv
<1>2. blind \in BOOLEAN /\ clean \in BOOLEAN /\ torn \in BOOLEAN
  BY <1>1 DEF DownloadTypeOK
<1>3. NothingForeignIsInstalled
  BY <1>1, <1>2 DEF ArchiveFits, DirectoriesFit, MadeWell, NothingForeignIsInstalled
<1>4. BlocksCountOnce
  <2>1. Len(archive) <= Length
    BY DownloadFacts, LengthAssumption
  <2>. QED BY <1>1, <1>2, <2>1 DEF CountFits, BlocksCountOnce
<1>. QED BY <1>1, <1>3, <1>4

(* Every variable of the download keeps its type.                          *)
THEOREM DownloadTypeCorrect == DownloadSpec => []DownloadTypeOK
BY DownloadInitInv, DownloadStepInv, InvIsSound, PTL DEF DownloadSpec

(* No body of an error reaches the partial, and a version is one whole     *)
(* archive, for archives of any length and any orders, resumes and deaths. *)
THEOREM OneArchiveIsInstalled == DownloadSpec => []NothingForeignIsInstalled
BY DownloadInitInv, DownloadStepInv, InvIsSound, PTL DEF DownloadSpec

(* While one archive is served and ranges are honoured, no block is        *)
(* written twice, however often the process dies or a transfer fails.      *)
THEOREM BlocksAreWrittenOnce == DownloadSpec => []BlocksCountOnce
BY DownloadInitInv, DownloadStepInv, InvIsSound, PTL DEF DownloadSpec

(***************************************************************************)
(* The coordinator: what a host is told is what is in force.               *)
(***************************************************************************)
RoundType == [at : RoundPhase, setting : MaybeSetting, resets : Nat, settings : Nat,
              attempt : 0 .. MaxAttempts, activates : BOOLEAN, result : Outcome]
HostType == [at : {"idle", "waiting", "told"}, setting : MaybeSetting,
             timed : BOOLEAN, told : Outcome \cup {"timeout"}]
WorldTypes ==
    /\ setting \in MaybeSetting /\ jsSetting \in MaybeSetting
    /\ resets \in 0 .. MaxWorldChanges /\ settings \in 0 .. MaxWorldChanges
    /\ crumb \in [memory : BOOLEAN, disk : BOOLEAN]
    /\ scheduled \in {"no", "soon", "later", "fired"}
    /\ selected \in [memory : Chosen, disk : Chosen]
    /\ changes \in 0 .. MaxWorldChanges /\ processes \in 0 .. MaxProcesses

(* Each change of the world is counted, and the process that forgets its   *)
(* generations does not forget that.                                       *)
GenerationsAreCounted == resets <= changes /\ settings <= changes

(* A round never knows a later generation than the process does, and what  *)
(* it activated is selected, first in memory and then on disk, for as long *)
(* as no reset came since it sampled its generation.                       *)
SampledBefore == round.at \notin {"none", "deferred"} => round.resets <= resets
InForceInMemory ==
    round.at = "flushing" /\ round.activates = TRUE /\ round.resets = resets
        => selected.memory = "round"
InForce ==
    round.at \in {"clearing", "settled"} /\ round.result = "activated"
        /\ round.resets = resets
        => selected.memory = "round" /\ selected.disk = "round"

CoordinatorInv ==
    /\ WorldTypes /\ round \in RoundType /\ host \in [Host -> HostType]
    /\ GenerationsAreCounted /\ SampledBefore /\ InForceInMemory /\ InForce

(* The invariant has the type invariant in it.                             *)
LEMMA InvGivesTypes == CoordinatorInv => CoordinatorTypeOK
BY DEF CoordinatorInv, CoordinatorTypeOK, RoundType, HostType, WorldTypes

(* Where a round and a host start.                                         *)
LEMMA Nobody == NoRound \in RoundType /\ NoHost \in HostType /\ NoRound.at = "none"
                /\ NoHost.told = "none"
BY CoordinatorBounds
   DEF NoRound, NoHost, RoundType, HostType, RoundPhase, MaybeSetting, Outcome

(* The invariant holds when the app is started.                            *)
LEMMA CoordinatorInitInv == CoordinatorInit => CoordinatorInv
<1>. SUFFICES ASSUME CoordinatorInit PROVE CoordinatorInv
  OBVIOUS
<1>. QED
  BY Nobody, CoordinatorBounds
     DEF CoordinatorInit, CoordinatorInv, WorldTypes, GenerationsAreCounted, SampledBefore,
         InForceInMemory, InForce, MaybeSetting, Chosen

(* What an assignment of fields does to the record of the round, and of a  *)
(* host.                                                                   *)
LEMMA RoundMoves ==
    ASSUME NEW r \in RoundType, NEW p \in RoundPhase
    PROVE  LET q == [r EXCEPT !.at = p]
           IN /\ q \in RoundType /\ q.at = p /\ q.resets = r.resets
              /\ q.activates = r.activates /\ q.result = r.result
BY DEF RoundType

(* A round that finishes.                                                  *)
LEMMA RoundFinishes ==
    ASSUME NEW r \in RoundType, NEW o \in Outcome, Finishes(r, o)
    PROVE  /\ round' \in RoundType /\ round'.at = "clearing" /\ round'.result = o
           /\ round'.resets = r.resets
           /\ crumb \in [memory : BOOLEAN, disk : BOOLEAN]
                => crumb' \in [memory : BOOLEAN, disk : BOOLEAN]
<1>1. "clearing" \in RoundPhase
  BY DEF RoundPhase
<1>. QED BY <1>1 DEF RoundType, Finishes

(* A round that commits.                                                   *)
LEMMA RoundCommits ==
    ASSUME NEW r \in RoundType, NEW b \in BOOLEAN,
           round' = [r EXCEPT !.at = "committing", !.activates = b]
    PROVE  round' \in RoundType /\ round'.at = "committing" /\ round'.resets = r.resets
<1>1. "committing" \in RoundPhase
  BY DEF RoundPhase
<1>. QED BY <1>1 DEF RoundType

(* A round that fetches.                                                   *)
LEMMA RoundFetches ==
    ASSUME NEW r \in RoundType, NEW n \in 0 .. MaxAttempts,
           \/ round' = [r EXCEPT !.at = "fetching", !.attempt = n]
           \/ r.at = "fetching" /\ round' = [r EXCEPT !.attempt = n]
    PROVE  round' \in RoundType /\ round'.at = "fetching" /\ round'.resets = r.resets
<1>1. "fetching" \in RoundPhase
  BY DEF RoundPhase
<1>. QED BY <1>1 DEF RoundType

(* A round that samples the generations.                                   *)
LEMMA RoundSamples ==
    ASSUME round \in RoundType, setting \in MaybeSetting, resets \in Nat, settings \in Nat,
           RoundBegins
    PROVE  /\ round' \in RoundType /\ round'.resets = resets
           /\ \/ round'.at = "settled" /\ round'.result = "skipped" /\ crumb' = crumb
              \/ round'.at = "marking" /\ crumb' = [crumb EXCEPT !.memory = TRUE]
<1>. DEFINE sampled == [round EXCEPT !.setting = setting, !.resets = resets,
                                     !.settings = settings]
<1>1. sampled \in RoundType /\ sampled.resets = resets
  BY DEF RoundType
<1>. HIDE DEF sampled
<1>2. \/ round' = [sampled EXCEPT !.at = "settled", !.result = "skipped"] /\ crumb' = crumb
      \/ round' = [sampled EXCEPT !.at = "marking"] /\ crumb' = [crumb EXCEPT !.memory = TRUE]
  BY DEF RoundBegins, sampled
<1>3. "settled" \in RoundPhase /\ "marking" \in RoundPhase /\ "skipped" \in Outcome
  BY DEF RoundPhase, Outcome
<1>. QED BY <1>1, <1>2, <1>3 DEF RoundType

(* A host is told an outcome.                                              *)
LEMMA HostIsTold ==
    ASSUME NEW o \in Outcome \cup {"timeout"}
    PROVE  LET q == [NoHost EXCEPT !.at = "told", !.told = o]
           IN q \in HostType /\ q.told = o
BY DEF NoHost, HostType, MaybeSetting

(* A host asks.                                                            *)
LEMMA HostAsked ==
    ASSUME NEW h \in Host, NEW timed \in BOOLEAN, HostAsks(h, timed),
           host \in [Host -> HostType], setting \in MaybeSetting
    PROVE  /\ host' \in [Host -> HostType]
           /\ \A g \in Host : host'[g] = host[g] \/ host'[g].told \in {"none", "skipped"}
<1>1. /\ [NoHost EXCEPT !.at = "told", !.told = "skipped"] \in HostType
      /\ [NoHost EXCEPT !.at = "told", !.told = "skipped"].told = "skipped"
  BY DEF NoHost, HostType, MaybeSetting, Outcome
<1>2. /\ [NoHost EXCEPT !.at = "waiting", !.setting = setting, !.timed = timed] \in HostType
      /\ [NoHost EXCEPT !.at = "waiting", !.setting = setting, !.timed = timed].told = "none"
  BY DEF NoHost, HostType, MaybeSetting, Outcome
<1>3. PICK q \in HostType : host' = [host EXCEPT ![h] = q] /\ q.told \in {"none", "skipped"}
  BY <1>1, <1>2 DEF HostAsks
<1>. QED BY <1>3

(* What a step of the round does to the invariant.                         *)
LEMMA RoundStep ==
    ASSUME CoordinatorInv, RoundAnswers \/ RoundTask
    PROVE  CoordinatorInv'
<1>. USE CoordinatorBounds DEF CoordinatorInv, WorldTypes, GenerationsAreCounted,
        SampledBefore, InForceInMemory, InForce, RoundOnly, world, processVars
<1>t. /\ "marking" \in RoundPhase /\ "collecting" \in RoundPhase /\ "asking" \in RoundPhase
      /\ "fetching" \in RoundPhase /\ "committing" \in RoundPhase /\ "flushing" \in RoundPhase
      /\ "clearing" \in RoundPhase /\ "settled" \in RoundPhase
      /\ {"failed", "noUpdate", "skipped", "cancelled", "activated", "downloaded"} \subseteq Outcome
  BY DEF RoundPhase, Outcome
<1>f. ASSUME NEW o \in Outcome, Finishes(round, o),
             UNCHANGED <<setting, resets, settings, selected, changes, processVars, host>>,
             o # "activated", round.at \notin {"none", "deferred"}
      PROVE  CoordinatorInv'
  <2>1. /\ round' \in RoundType /\ round'.at = "clearing" /\ round'.result # "activated"
        /\ round'.resets = round.resets /\ crumb' \in [memory : BOOLEAN, disk : BOOLEAN]
    BY <1>f, RoundFinishes
  <2>. QED BY <1>f, <2>1
<1>1. CASE RoundBegins
  <2>1. UNCHANGED <<setting, resets, settings, selected, changes, processVars, host>>
    BY <1>1 DEF RoundBegins
  <2>2. resets \in Nat /\ settings \in Nat
    OBVIOUS
  <2>3. /\ round' \in RoundType /\ round'.resets = resets
        /\ crumb' \in [memory : BOOLEAN, disk : BOOLEAN]
        /\ \/ round'.at = "settled" /\ round'.result = "skipped"
           \/ round'.at = "marking"
    <3>1. round \in RoundType /\ setting \in MaybeSetting OBVIOUS
    <3>. QED BY <1>1, <2>2, <3>1, RoundSamples
  <2>. QED BY <2>1, <2>2, <2>3
<1>2. CASE EnvComes BY <1>t, <1>2, RoundMoves DEF EnvComes
<1>3. CASE Unanswered BY <1>t, <1>3, <1>f DEF Unanswered
<1>4. CASE Answered
  <2>1. CASE Finishes(round, "noUpdate") BY <1>t, <1>4, <1>f, <2>1 DEF Answered
  <2>2. CASE round' = [round EXCEPT !.at = "fetching", !.attempt = 1] /\ UNCHANGED crumb
    <3>1. 1 \in 0 .. MaxAttempts
      OBVIOUS
    <3>2. round' \in RoundType /\ round'.at = "fetching" /\ round'.resets = round.resets
      BY <2>2, <3>1, RoundFetches
    <3>. QED BY <1>4, <2>2, <3>2 DEF Answered
  <2>3. ASSUME NEW b \in BOOLEAN, UNCHANGED crumb,
               round' = [round EXCEPT !.at = "committing", !.activates = b]
        PROVE  CoordinatorInv'
    BY <1>4, <2>3, RoundCommits DEF Answered
  <2>. QED BY <1>4, <2>1, <2>2, <2>3 DEF Answered
<1>5. CASE FetchExpires \/ FetchFails
  <2>1. CASE Finishes(round, "failed")
    BY <1>t, <1>f, <1>5, <2>1 DEF FetchExpires, FetchFails, FetchLost
  <2>2. CASE round' = [round EXCEPT !.attempt = @ + 1] /\ round.attempt < MaxAttempts
             /\ UNCHANGED crumb
    <3>1. round.attempt + 1 \in 0 .. MaxAttempts
      BY <2>2 DEF RoundType
    <3>2. round' = [round EXCEPT !.attempt = round.attempt + 1]
      BY <2>2
    <3>. QED BY <1>5, <2>2, <3>1, <3>2, RoundFetches DEF FetchExpires, FetchFails, FetchLost
  <2>. QED BY <1>5, <2>1, <2>2 DEF FetchExpires, FetchFails, FetchLost
<1>6. CASE CommitRefused BY <1>t, <1>f, <1>6 DEF CommitRefused
<1>7. CASE Commits BY <1>t, <1>7, RoundMoves DEF Commits, RoundOutdated, Chosen
<1>8. ASSUME NEW ok \in BOOLEAN, Marked(ok) PROVE CoordinatorInv'
  BY <1>t, <1>8, RoundMoves DEF Marked
<1>9. ASSUME NEW ok \in BOOLEAN, CommitFlushed(ok) PROVE CoordinatorInv'
  <2>. DEFINE o == IF ~ok THEN "failed"
                   ELSE IF round.activates THEN "activated" ELSE "downloaded"
  <2>1. o \in Outcome /\ (o = "activated" => ok /\ round.activates = TRUE)
    BY <1>t DEF RoundType
  <2>2. Finishes(round, o)
    BY <1>9 DEF CommitFlushed
  <2>. HIDE DEF o
  <2>3. /\ selected' \in [memory : Chosen, disk : Chosen]
        /\ selected'.memory = selected.memory
        /\ ok => selected'.disk = selected.memory
    BY <1>9 DEF CommitFlushed
  <2>. QED BY <1>9, <2>1, <2>2, <2>3, RoundFinishes DEF CommitFlushed
<1>10. ASSUME NEW ok \in BOOLEAN, MarkCleared(ok) PROVE CoordinatorInv'
  BY <1>t, <1>10, RoundMoves DEF MarkCleared
<1>11. CASE Fetched
  <2>1. PICK b \in BOOLEAN : round' = [round EXCEPT !.at = "committing", !.activates = b]
    BY <1>11 DEF Fetched
  <2>. QED BY <1>11, <2>1, RoundCommits DEF Fetched
<1>. QED
  BY <1>1, <1>2, <1>3, <1>4, <1>5, <1>6, <1>7, <1>8, <1>9, <1>10, <1>11
     DEF RoundAnswers, RoundTask

(* The hosts and the timer read the world, and start the round at most.    *)
LEMMA StartKeepsInv ==
    ASSUME CoordinatorInv, UNCHANGED <<world, crumb, jsSetting, processes>>,
           scheduled' \in {"no", "soon", "later", "fired"},
           host' \in [Host -> HostType], StartsOrJoins \/ UNCHANGED round
    PROVE  CoordinatorInv'
<1>1. "deferred" \in RoundPhase
  BY DEF RoundPhase
<1>2. /\ round' \in RoundType /\ round'.resets = round.resets
      /\ round' = round \/ round'.at = "deferred"
  BY <1>1 DEF StartsOrJoins, CoordinatorInv, RoundType
<1>. QED
  BY <1>2
     DEF  CoordinatorInv, WorldTypes, GenerationsAreCounted, SampledBefore,
         InForceInMemory, InForce, world

(* What hosts do keeps the invariant.                                      *)
LEMMA HostStep ==
    ASSUME CoordinatorInv, NEW h \in Host,
           \/ \E timed \in BOOLEAN : HostAsks(h, timed)
           \/ HostExpires(h) \/ HostReturns(h) \/ HostForgets(h)
    PROVE  CoordinatorInv'
<1>. USE DEF processVars
<1>t. /\ host \in [Host -> HostType] /\ setting \in MaybeSetting /\ round.result \in Outcome
      /\ scheduled \in {"no", "soon", "later", "fired"}
      /\ {"skipped", "cancelled"} \subseteq Outcome
  BY DEF CoordinatorInv, WorldTypes, RoundType, Outcome
<1>1. ASSUME NEW timed \in BOOLEAN, HostAsks(h, timed) PROVE CoordinatorInv'
  BY <1>t, <1>1, StartKeepsInv, HostAsked DEF HostAsks
<1>2. CASE HostExpires(h)
  BY <1>t, <1>2, StartKeepsInv, HostIsTold DEF HostExpires, Tells
<1>3. CASE HostReturns(h)
  BY <1>t, <1>3, StartKeepsInv, HostIsTold DEF HostReturns, Tells
<1>4. CASE HostForgets(h)
  BY <1>t, <1>4, StartKeepsInv, Nobody DEF HostForgets
<1>. QED BY <1>1, <1>2, <1>3, <1>4

(* What the rest of the app does keeps the invariant.                      *)
LEMMA WorldStep ==
    ASSUME CoordinatorInv,
           \/ SchedulesRound \/ DelayEnds \/ WorldResets \/ CoordinatorDies
           \/ \E c \in Setting : SettingChanges(c) \/ JsCompletes(c)
    PROVE  CoordinatorInv'
<1>. USE CoordinatorBounds DEF CoordinatorInv, WorldTypes, GenerationsAreCounted,
        SampledBefore, InForceInMemory, InForce, world, processVars, MaybeSetting, Chosen
<1>1. CASE SchedulesRound BY <1>1 DEF SchedulesRound
<1>2. CASE DelayEnds BY <1>2, StartKeepsInv DEF DelayEnds
<1>4. CASE CoordinatorDies BY <1>4, Nobody DEF CoordinatorDies
<1>c. Change => changes' \in 0 .. MaxWorldChanges /\ changes' = changes + 1
                /\ resets + 1 \in 0 .. MaxWorldChanges /\ settings + 1 \in 0 .. MaxWorldChanges
  BY DEF Change
<1>n. round.resets \in Nat BY DEF RoundType
<1>5. ASSUME NEW c \in Setting, SettingChanges(c) PROVE CoordinatorInv'
  BY <1>5, <1>c, <1>n DEF SettingChanges
<1>3. CASE WorldResets BY <1>3, <1>c, <1>n DEF WorldResets
<1>6. ASSUME NEW c \in Setting, JsCompletes(c) PROVE CoordinatorInv'
  BY <1>6 DEF JsCompletes
<1>. QED BY <1>1, <1>2, <1>3, <1>4, <1>5, <1>6

(* Every step keeps the invariant.                                         *)
LEMMA CoordinatorStepInv == CoordinatorInv /\ [CoordinatorNext]_coordinatorVars => CoordinatorInv'
<1>1. CASE UNCHANGED coordinatorVars
  BY <1>1 DEF coordinatorVars, CoordinatorInv, WorldTypes, GenerationsAreCounted,
              SampledBefore, InForceInMemory, InForce
<1>. QED
  BY <1>1, RoundStep, HostStep, WorldStep DEF CoordinatorNext

(* Only HostReturns tells a host what became of the round.                 *)
LEMMA OnlyReturnTells ==
    ASSUME CoordinatorInv, [CoordinatorNext]_coordinatorVars, NEW h \in Host,
           host[h].told # "activated", host'[h].told = "activated"
    PROVE  HostReturns(h)
<1>t. /\ host \in [Host -> HostType] /\ "skipped" \in Outcome /\ setting \in MaybeSetting
  BY DEF CoordinatorInv, WorldTypes, Outcome
<1>1. host'[h] # host[h]
  OBVIOUS
<1>2. PICK g \in Host : \/ \E timed \in BOOLEAN : HostAsks(g, timed)
                        \/ HostExpires(g) \/ HostReturns(g) \/ HostForgets(g)
  BY <1>1, Nobody
     DEF CoordinatorNext, coordinatorVars, RoundAnswers, RoundTask, RoundBegins, EnvComes,
         Unanswered, Answered, FetchExpires, FetchFails, FetchLost, CommitRefused, Commits,
         CommitFlushed, MarkCleared, Marked, Fetched, RoundOnly, SchedulesRound, DelayEnds,
         WorldResets, CoordinatorDies, SettingChanges, JsCompletes, world, processVars
<1>3. \A timed \in BOOLEAN : ~HostAsks(g, timed)
  BY <1>t, <1>1, HostAsked
<1>4. ~HostExpires(g) /\ ~HostForgets(g)
  BY <1>t, <1>1, HostIsTold, Nobody DEF HostExpires, HostForgets, Tells
<1>. QED BY <1>t, <1>1, <1>2, <1>3, <1>4 DEF HostReturns, Tells

(* Every variable of the coordinator keeps its type.                       *)
THEOREM CoordinatorTypeCorrect == CoordinatorSpec => []CoordinatorTypeOK
BY InvGivesTypes, CoordinatorInitInv, CoordinatorStepInv, PTL DEF CoordinatorSpec

(* A host that is told the round activated a version is told what is on    *)
(* disk, whatever resets and configurations came in between.               *)
THEOREM ToldStaysInForce == CoordinatorSpec => ToldIsInForce
<1>1. CoordinatorInv /\ [CoordinatorNext]_coordinatorVars
      => [\A h \in Host : host[h].told # "activated" /\ host'[h].told = "activated"
            => selected = [memory |-> "round", disk |-> "round"]]_coordinatorVars
  <2>. SUFFICES ASSUME CoordinatorInv, [CoordinatorNext]_coordinatorVars, NEW h \in Host,
                       host[h].told # "activated", host'[h].told = "activated"
                PROVE  selected = [memory |-> "round", disk |-> "round"]
    OBVIOUS
  <2>1. HostReturns(h) BY OnlyReturnTells
  <2>2. round.at = "settled" /\ round.resets = resets /\ round.result = "activated"
    <3>. DEFINE o == IF Cancelled(h) THEN "cancelled" ELSE round.result
    <3>1. o \in Outcome
      BY DEF CoordinatorInv, RoundType, Outcome
    <3>2. host'[h] = [NoHost EXCEPT !.at = "told", !.told = o]
      BY <2>1 DEF HostReturns, Tells, CoordinatorInv
    <3>3. o = "activated"
      BY <3>1, <3>2, HostIsTold
    <3>. QED BY <2>1, <3>3 DEF HostReturns, Cancelled
  <2>. QED BY <2>2 DEF CoordinatorInv, WorldTypes, InForce
<1>. QED BY <1>1, CoordinatorInitInv, CoordinatorStepInv, PTL DEF CoordinatorSpec, ToldIsInForce

(***************************************************************************)
(* The handles: a descriptor stays open while it is read.  The chain of    *)
(* promises behind withRawFd is a queue, and only its head holds the file. *)
(***************************************************************************)
Busy(j) == job[j] # "idle"

(* The chain of each file, as places in a queue: a job waits for the one   *)
(* in the place before its own, and rawFdChains knows the last one.        *)
InLine(place, length) ==
    /\ \A j \in Job : Busy(j) => place[j] < length[FileOf[j]]
    /\ \A j, k \in Job :
          Busy(j) /\ Busy(k) /\ FileOf[j] = FileOf[k] /\ place[j] = place[k] => j = k
    /\ \A j \in Job : Busy(j) /\ place[j] = 0 => before[j] = NoJob
    /\ \A j \in Job : Busy(j) /\ place[j] # 0 =>
          /\ job[j] = "waiting"
          /\ before[j] \in Job /\ Busy(before[j])
          /\ FileOf[before[j]] = FileOf[j] /\ place[before[j]] = place[j] - 1
    /\ \A f \in File : length[f] = 0 => tail[f] = NoJob
    /\ \A f \in File : length[f] # 0 =>
          /\ tail[f] \in Job /\ Busy(tail[f])
          /\ FileOf[tail[f]] = f /\ place[tail[f]] = length[f] - 1

IsQueue == \E place \in [Job -> Nat], length \in [File -> Nat] : InLine(place, length)

ReadersHaveIt == \A j \in Job : job[j] = "using" => FileOf[j] \in open

DigestIsOurs == told.timed = TRUE => told.of # "other"
EventsArrive == newest \in instances => receiver = newest

HandlesInv == HandlesTypeOK /\ IsQueue /\ ReadersHaveIt /\ DigestIsOurs /\ EventsArrive

(* Nobody reads a raw file at first.                                       *)
LEMMA HandlesInitInv == HandlesInit => HandlesInv
<1>. SUFFICES ASSUME HandlesInit PROVE HandlesInv
  OBVIOUS
<1>1. HandlesTypeOK
  <2>1. NoDigest \in StoredDigest BY DEF NoDigest, StoredDigest
  <2>2. DigestOf("other", TRUE) \in StoredDigest /\ DigestOf("other", FALSE) \in StoredDigest
    BY DEF DigestOf, StoredDigest
  <2>3. NothingTold \in ToldDigest BY DEF NothingTold, ToldDigest
  <2>4. digest \in StoredDigest /\ told \in ToldDigest /\ key \in BOOLEAN
    BY <2>1, <2>2, <2>3 DEF HandlesInit
  <2>5. newest \in 0 .. MaxInstances /\ receiver \in 0 .. MaxInstances /\ arrivals \in 0 .. MaxArrivals
    BY HandleBounds DEF HandlesInit
  <2>6. job \in [Job -> {"idle", "waiting", "opening", "using", "closing"}]
    BY DEF HandlesInit
  <2>7. before \in [Job -> Job \cup {NoJob}] /\ tail \in [File -> Job \cup {NoJob}]
    BY DEF HandlesInit
  <2>8. open \subseteq File /\ instances \subseteq 1 .. MaxInstances
    BY DEF HandlesInit
  <2>. QED BY <2>4, <2>5, <2>6, <2>7, <2>8 DEF HandlesTypeOK
<1>2. IsQueue
  <2>1. InLine([j \in Job |-> 0], [f \in File |-> 0])
    BY DEF HandlesInit, InLine, Busy
  <2>. QED BY <2>1 DEF IsQueue
<1>3. DigestIsOurs BY DEF HandlesInit, NothingTold, DigestIsOurs
<1>4. ReadersHaveIt /\ EventsArrive BY DEF HandlesInit, ReadersHaveIt, EventsArrive
<1>. QED BY <1>1, <1>2, <1>3, <1>4 DEF HandlesInv

(* Whoever is past the wait is at the head, and alone there.               *)
LEMMA HeadIsAlone ==
    ASSUME HandlesInv, NEW j \in Job, NEW k \in Job,
           job[j] \in {"opening", "using", "closing"},
           job[k] \in {"opening", "using", "closing"}, FileOf[j] = FileOf[k]
    PROVE  j = k
<1>1. PICK place \in [Job -> Nat], length \in [File -> Nat] : InLine(place, length)
  BY DEF HandlesInv, IsQueue
<1>2. place[j] = 0 /\ place[k] = 0
  BY <1>1 DEF InLine, Busy
<1>. QED BY <1>1, <1>2 DEF InLine, Busy

(* A job takes the place behind the last one.                              *)
LEMMA ArrivesQueues ==
    ASSUME HandlesInv, NEW j \in Job, Arrives(j)
    PROVE  IsQueue'
<1>. DEFINE f == FileOf[j]
<1>1. PICK place \in [Job -> Nat], length \in [File -> Nat] : InLine(place, length)
  BY DEF HandlesInv, IsQueue
<1>. DEFINE newPlace == [place EXCEPT ![j] = length[f]]
            newLength == [length EXCEPT ![f] = @ + 1]
<1>2. f \in File /\ \A k \in Job : FileOf[k] \in File
  BY JobAssumption
<1>3. /\ newPlace \in [Job -> Nat] /\ newLength \in [File -> Nat]
      /\ newPlace[j] = length[f] /\ newLength[f] = length[f] + 1
      /\ \A k \in Job : k # j => newPlace[k] = place[k]
      /\ \A g \in File : g # f => newLength[g] = length[g]
  BY <1>2
<1>4. /\ ~Busy(j) /\ Busy(j)'
      /\ \A k \in Job : k # j => job'[k] = job[k] /\ before'[k] = before[k]
      /\ job'[j] = "waiting" /\ before'[j] = tail[f]
      /\ tail'[f] = j /\ \A g \in File : g # f => tail'[g] = tail[g]
  BY <1>2 DEF Arrives, HandlesInv, HandlesTypeOK, Busy
<1>. HIDE DEF newPlace, newLength
<1>5. \A k \in Job : k # j => (Busy(k)' <=> Busy(k))
  BY <1>4 DEF Busy
<1>6. InLine(newPlace, newLength)'
  BY <1>1, <1>2, <1>3, <1>4, <1>5, JobAssumption DEF InLine, Busy
<1>. QED BY <1>3, <1>6 DEF IsQueue

(* The head leaves, and every other one moves up.                          *)
LEMMA LeavesQueue ==
    ASSUME HandlesInv, NEW j \in Job, Leaves(j), job[j] \in {"opening", "closing"}
    PROVE  IsQueue'
<1>. DEFINE f == FileOf[j]
<1>1. PICK place \in [Job -> Nat], length \in [File -> Nat] : InLine(place, length)
  BY DEF HandlesInv, IsQueue
<1>2. f \in File /\ \A k \in Job : FileOf[k] \in File
  BY JobAssumption
<1>3. Busy(j) /\ place[j] = 0 /\ length[f] # 0
  BY <1>1, <1>2 DEF InLine, Busy
<1>. DEFINE newPlace == [k \in Job |-> IF FileOf[k] = f /\ place[k] # 0 THEN place[k] - 1 ELSE place[k]]
            newLength == [length EXCEPT ![f] = @ - 1]
<1>4. /\ newPlace \in [Job -> Nat] /\ newLength \in [File -> Nat]
      /\ newLength[f] = length[f] - 1
      /\ \A k \in Job : newPlace[k] = IF FileOf[k] = f /\ place[k] # 0 THEN place[k] - 1 ELSE place[k]
      /\ \A g \in File : g # f => newLength[g] = length[g]
  BY <1>2, <1>3
<1>5. /\ job'[j] = "idle" /\ \A k \in Job : k # j => job'[k] = job[k]
      /\ \A k \in Job : before'[k] = IF k = j \/ before[k] = j THEN NoJob ELSE before[k]
      /\ tail'[f] = IF tail[f] = j THEN NoJob ELSE tail[f]
      /\ \A g \in File : g # f => tail'[g] = tail[g]
  BY <1>2 DEF Leaves, LeavesChain, HandlesInv, HandlesTypeOK
<1>. HIDE DEF newPlace, newLength
<1>6. ~Busy(j)' /\ \A k \in Job : k # j => (Busy(k)' <=> Busy(k))
  BY <1>5 DEF Busy
<1>7. \A k \in Job : k # j /\ Busy(k) /\ FileOf[k] = f =>
         /\ place[k] # 0 /\ place[k] \in Nat
         /\ newPlace[k] = place[k] - 1
         /\ before[k] = j <=> place[k] = 1
  BY <1>1, <1>3, <1>4 DEF InLine
<1>8. tail[f] = j <=> length[f] = 1
  BY <1>1, <1>2, <1>3 DEF InLine
<1>9. \A k \in Job : FileOf[k] # f /\ Busy(k) => before[k] # j /\ newPlace[k] = place[k]
  BY <1>1, <1>4, JobAssumption DEF InLine
<1>10. InLine(newPlace, newLength)'
  <2>. USE <1>1, <1>2, <1>3, <1>4, <1>5, <1>6, <1>7, <1>8, <1>9, JobAssumption
  <2>1. \A k \in Job : Busy(k)' => newPlace[k] < newLength[FileOf[k]]
    BY DEF InLine
  <2>2. \A k, l \in Job :
          Busy(k)' /\ Busy(l)' /\ FileOf[k] = FileOf[l] /\ newPlace[k] = newPlace[l] => k = l
    BY DEF InLine
  <2>3. \A k \in Job : Busy(k)' /\ newPlace[k] = 0 => before'[k] = NoJob
    BY DEF InLine
  <2>4. \A k \in Job : Busy(k)' /\ newPlace[k] # 0 =>
          /\ job'[k] = "waiting"
          /\ before'[k] \in Job /\ job'[before'[k]] # "idle"
          /\ FileOf[before'[k]] = FileOf[k] /\ newPlace[before'[k]] = newPlace[k] - 1
    <3>. SUFFICES ASSUME NEW k \in Job, Busy(k)', newPlace[k] # 0
         PROVE  /\ job'[k] = "waiting"
                /\ before'[k] \in Job /\ job'[before'[k]] # "idle"
                /\ FileOf[before'[k]] = FileOf[k] /\ newPlace[before'[k]] = newPlace[k] - 1
      OBVIOUS
    <3>1. k # j /\ Busy(k) /\ place[k] # 0
      BY DEF InLine
    <3>2. /\ job[k] = "waiting" /\ before[k] \in Job /\ Busy(before[k])
          /\ FileOf[before[k]] = FileOf[k] /\ place[before[k]] = place[k] - 1
      BY <3>1 DEF InLine
    <3>3. before[k] # j
      <4>1. CASE FileOf[k] = f
        BY <3>1, <4>1
      <4>2. CASE FileOf[k] # f
        BY <3>1, <4>2
      <4>. QED BY <4>1, <4>2
    <3>4. before'[k] = before[k] /\ job'[k] = job[k] /\ job'[before[k]] # "idle"
      BY <3>1, <3>2, <3>3 DEF Busy
    <3>5. newPlace[before[k]] = newPlace[k] - 1
      <4>1. CASE FileOf[k] = f
        BY <3>1, <3>2, <3>3, <4>1
      <4>2. CASE FileOf[k] # f
        BY <3>1, <3>2, <4>2
      <4>. QED BY <4>1, <4>2
    <3>. QED BY <3>2, <3>4, <3>5
  <2>5. \A g \in File : newLength[g] = 0 => tail'[g] = NoJob
    BY DEF InLine
  <2>6. \A g \in File : newLength[g] # 0 =>
          /\ tail'[g] \in Job /\ job'[tail'[g]] # "idle"
          /\ FileOf[tail'[g]] = g /\ newPlace[tail'[g]] = newLength[g] - 1
    <3>. SUFFICES ASSUME NEW g \in File, newLength[g] # 0
         PROVE  /\ tail'[g] \in Job /\ job'[tail'[g]] # "idle"
                /\ FileOf[tail'[g]] = g /\ newPlace[tail'[g]] = newLength[g] - 1
      OBVIOUS
    <3>1. length[g] # 0
      BY DEF InLine
    <3>2. /\ tail[g] \in Job /\ Busy(tail[g])
          /\ FileOf[tail[g]] = g /\ place[tail[g]] = length[g] - 1
      BY <3>1 DEF InLine
    <3>3. CASE g = f
      <4>1. length[g] \in Nat /\ newLength[g] = length[g] - 1 /\ tail[g] # j
        BY <3>3
      <4>2. tail'[g] = tail[g] /\ job'[tail[g]] # "idle"
        BY <3>2, <3>3, <4>1 DEF Busy
      <4>3. newPlace[tail[g]] = place[tail[g]] - 1
        BY <3>2, <3>3, <4>1 DEF Busy
      <4>. QED BY <3>2, <4>1, <4>2, <4>3
    <3>4. CASE g # f
      <4>1. tail'[g] = tail[g] /\ tail[g] # j /\ newLength[g] = length[g]
        BY <3>2, <3>4
      <4>2. newPlace[tail[g]] = place[tail[g]] /\ job'[tail[g]] # "idle"
        BY <3>2, <3>4, <4>1 DEF Busy
      <4>. QED BY <3>2, <4>1, <4>2
    <3>. QED BY <3>3, <3>4
  <2>. QED BY <2>1, <2>2, <2>3, <2>4, <2>5, <2>6 DEF InLine, Busy
<1>. QED BY <1>4, <1>10 DEF IsQueue

(* A step of a job within its turn changes nothing about the queue.        *)
LEMMA TurnKeepsQueue ==
    ASSUME HandlesInv, NEW j \in Job, NEW s \in {"opening", "using", "closing"},
           Busy(j), before[j] = NoJob, job' = [job EXCEPT ![j] = s], UNCHANGED <<before, tail>>
    PROVE  IsQueue'
<1>1. PICK place \in [Job -> Nat], length \in [File -> Nat] : InLine(place, length)
  BY DEF HandlesInv, IsQueue
<1>2. \A k \in Job : Busy(k)' <=> Busy(k)
  BY DEF Busy, HandlesInv, HandlesTypeOK
<1>3. place[j] = 0
  BY <1>1, JobAssumption DEF InLine
<1>4. \A k \in Job : k # j => job'[k] = job[k]
  BY DEF HandlesInv, HandlesTypeOK
<1>5. InLine(place, length)'
  BY <1>1, <1>2, <1>3, <1>4 DEF InLine
<1>. QED BY <1>1, <1>5 DEF IsQueue

(* Whoever is past the wait waits for nobody.                              *)
LEMMA HeadWaitsForNone ==
    ASSUME HandlesInv, NEW j \in Job, job[j] \in {"opening", "using", "closing"}
    PROVE  Busy(j) /\ before[j] = NoJob
<1>1. PICK place \in [Job -> Nat], length \in [File -> Nat] : InLine(place, length)
  BY DEF HandlesInv, IsQueue
<1>. QED BY <1>1 DEF InLine, Busy

(* Types, for what a job does and for what it leaves behind.               *)
LEMMA LeavesTypes ==
    ASSUME HandlesInv, NEW j \in Job, Leaves(j)
    PROVE  /\ job' \in [Job -> {"idle", "waiting", "opening", "using", "closing"}]
           /\ before' \in [Job -> Job \cup {NoJob}]
           /\ tail' \in [File -> Job \cup {NoJob}]
           /\ arrivals' = arrivals
           /\ \A k \in Job : k # j => job'[k] = job[k]
           /\ job'[j] = "idle"
<1>1. FileOf[j] \in File
  BY JobAssumption
<1>. QED BY <1>1 DEF Leaves, LeavesChain, HandlesInv, HandlesTypeOK

(* The fields after a job takes its place in the queue of its file.        *)
LEMMA ArrivesTypes ==
    ASSUME HandlesInv, NEW j \in Job, Arrives(j)
    PROVE  /\ job' \in [Job -> {"idle", "waiting", "opening", "using", "closing"}]
           /\ before' \in [Job -> Job \cup {NoJob}]
           /\ tail' \in [File -> Job \cup {NoJob}]
           /\ arrivals' \in 0 .. MaxArrivals /\ open' = open
           /\ ReadersHaveIt'
<1>1. FileOf[j] \in File
  BY JobAssumption
<1>2. arrivals' \in 0 .. MaxArrivals
  BY HandleBounds DEF Arrives, HandlesInv, HandlesTypeOK
<1>. QED BY <1>1, <1>2 DEF Arrives, HandlesInv, HandlesTypeOK, ReadersHaveIt

(* What the digest leaves behind is of this binary.                        *)
LEMMA DigestsTypes ==
    ASSUME HandlesInv, NEW j \in Job, NEW ok \in BOOLEAN, Digests(j, ok)
    PROVE  /\ digest' \in StoredDigest /\ told' \in ToldDigest /\ key' \in BOOLEAN
           /\ DigestIsOurs'
<1>t. digest \in StoredDigest /\ told \in ToldDigest /\ key \in BOOLEAN /\ DigestIsOurs
  BY DEF HandlesInv, HandlesTypeOK
<1>1. CASE j # Digest
  BY <1>1, <1>t DEF Digests, digests, DigestIsOurs
<1>2. CASE j = Digest
  <2>1. /\ DigestOf("this", key) \in StoredDigest /\ DigestOf("this", key) \in ToldDigest
        /\ NothingTold \in ToldDigest
        /\ DigestOf("this", key).of # "other" /\ NothingTold.of # "other"
    BY <1>t DEF DigestOf, NothingTold, StoredDigest, ToldDigest
  <2>2. /\ digest' \in {DigestOf("this", key), digest} /\ key' = key
        /\ told' \in {DigestOf("this", key), NothingTold}
    BY <1>2 DEF Digests
  <2>. QED BY <1>t, <2>1, <2>2 DEF DigestIsOurs
<1>. QED BY <1>1, <1>2

(* Each reading, opening and closing, and each instance that comes or      *)
(* goes, keeps the queues.                                                 *)
LEMMA HandlesStep == HandlesInv /\ [HandlesNext]_handleVars => HandlesInv'
<1>. SUFFICES ASSUME HandlesInv, [HandlesNext]_handleVars PROVE HandlesInv'
  OBVIOUS
<1>1. ASSUME NEW j \in Job, ReadsRawFile(j) PROVE HandlesInv'
  <2>. /\ UNCHANGED hub /\ EventsArrive' /\ FileOf[j] \in File
    BY <1>1, JobAssumption DEF ReadsRawFile, hub, EventsArrive, HandlesInv
  <2>1. CASE Arrives(j) /\ UNCHANGED digests
    BY <2>1, ArrivesTypes, ArrivesQueues
    DEF HandlesInv, HandlesTypeOK, hub, digests, DigestIsOurs
  <2>2. CASE GoesFirst(j) /\ UNCHANGED digests
    <3>1. IsQueue'
      BY <2>2, TurnKeepsQueue DEF GoesFirst, Released, Busy
    <3>. QED BY <2>2, <3>1
         DEF GoesFirst, HandlesInv, HandlesTypeOK, hub, digests, DigestIsOurs, ReadersHaveIt
  <2>3. CASE GetsDescriptor(j) /\ UNCHANGED digests
    <3>1. IsQueue'
      BY <2>3, TurnKeepsQueue, HeadWaitsForNone DEF GetsDescriptor
    <3>. QED BY <2>3, <3>1
         DEF GetsDescriptor, HandlesInv, HandlesTypeOK, hub, digests, DigestIsOurs, ReadersHaveIt
  <2>4. CASE JobEnds(j) /\ UNCHANGED digests
    <3>1. IsQueue'
      BY <2>4, TurnKeepsQueue, HeadWaitsForNone DEF JobEnds
    <3>. QED BY <2>4, <3>1
         DEF JobEnds, HandlesInv, HandlesTypeOK, hub, digests, DigestIsOurs, ReadersHaveIt
  <2>5. ASSUME NEW ok \in BOOLEAN, Closes(j), Digests(j, ok) PROVE HandlesInv'
    <3>1. Leaves(j) /\ job[j] = "closing" /\ open' \subseteq open
      BY <2>5 DEF Closes
    <3>2. IsQueue'
      BY <3>1, LeavesQueue
    <3>3. ReadersHaveIt'
      <4>. SUFFICES ASSUME NEW k \in Job, job'[k] = "using" PROVE FileOf[k] \in open'
        BY DEF ReadersHaveIt
      <4>1. k # j /\ job[k] = "using" /\ FileOf[k] \in open
        BY <3>1, LeavesTypes DEF HandlesInv, ReadersHaveIt
      <4>2. FileOf[k] # FileOf[j]
        BY <3>1, <4>1, HeadIsAlone
      <4>. QED BY <2>5, <4>1, <4>2 DEF Closes
    <3>4. HandlesTypeOK'
      <4>1. open' \subseteq File /\ arrivals' = arrivals
        BY <3>1, LeavesTypes DEF HandlesInv, HandlesTypeOK
      <4>. QED BY <2>5, <3>1, <4>1, LeavesTypes, DigestsTypes DEF HandlesInv, HandlesTypeOK, hub
    <3>. QED BY <2>5, <3>2, <3>3, <3>4, DigestsTypes DEF HandlesInv, DigestIsOurs
  <2>6. CASE DescriptorRefused(j) /\ Digests(j, FALSE)
    <3>1. Leaves(j) /\ job[j] = "opening" /\ open' = open
      BY <2>6 DEF DescriptorRefused
    <3>2. IsQueue'
      BY <3>1, LeavesQueue
    <3>3. ReadersHaveIt'
      BY <3>1, LeavesTypes DEF HandlesInv, ReadersHaveIt
    <3>4. HandlesTypeOK'
      BY <2>6, <3>1, LeavesTypes, DigestsTypes DEF HandlesInv, HandlesTypeOK, hub
    <3>. QED BY <2>6, <3>2, <3>3, <3>4, DigestsTypes DEF HandlesInv, DigestIsOurs
  <2>. QED BY <1>1, <2>1, <2>2, <2>3, <2>4, <2>5, <2>6 DEF ReadsRawFile
<1>2. ASSUME NEW timed \in BOOLEAN, AsksDigest(timed) PROVE HandlesInv'
  <2>. /\ UNCHANGED hub /\ EventsArrive'
    BY <1>2 DEF AsksDigest, hub, EventsArrive, HandlesInv
  <2>1. CASE DigestStored(timed)
    <3>1. told' = DigestOf(digest.of, timed) /\ UNCHANGED <<digest, key, rawFiles>>
      BY <1>2, <2>1 DEF AsksDigest
    <3>2. told' \in ToldDigest /\ DigestIsOurs'
      BY <2>1, <3>1 DEF DigestStored, DigestOf, ToldDigest, StoredDigest, DigestIsOurs
    <3>3. HandlesTypeOK'
      BY <3>1, <3>2 DEF rawFiles, hub, HandlesInv, HandlesTypeOK
    <3>. QED BY <3>1, <3>2, <3>3 DEF rawFiles, HandlesInv, IsQueue, InLine, Busy, ReadersHaveIt
  <2>2. CASE ~DigestStored(timed)
    <3>1. Arrives(Digest) /\ key' = timed /\ UNCHANGED <<digest, told>> /\ Digest \in Job
      BY <1>2, <2>2, JobAssumption DEF AsksDigest
    <3>. QED BY <3>1, ArrivesTypes, ArrivesQueues
         DEF HandlesInv, HandlesTypeOK, hub, DigestIsOurs
  <2>. QED BY <2>1, <2>2
<1>3. CASE InstanceBuilt
  <2>1. UNCHANGED <<rawFiles, digests>> /\ EventsArrive'
    BY <1>3 DEF InstanceBuilt, EventsArrive
  <2>2. IsQueue' /\ ReadersHaveIt' /\ DigestIsOurs'
    BY <2>1 DEF rawFiles, digests, HandlesInv, IsQueue, InLine, Busy, ReadersHaveIt, DigestIsOurs
  <2>3. HandlesTypeOK'
    BY <1>3, <2>1, HandleBounds DEF InstanceBuilt, rawFiles, digests, HandlesInv, HandlesTypeOK
  <2>. QED BY <2>1, <2>2, <2>3 DEF HandlesInv
<1>4. ASSUME NEW i \in instances, InstanceDestroyed(i) PROVE HandlesInv'
  <2>1. UNCHANGED <<rawFiles, digests, newest>>
    BY <1>4 DEF InstanceDestroyed
  <2>2. IsQueue' /\ ReadersHaveIt' /\ DigestIsOurs'
    BY <2>1 DEF rawFiles, digests, HandlesInv, IsQueue, InLine, Busy, ReadersHaveIt, DigestIsOurs
  <2>3. HandlesTypeOK'
    BY <1>4, <2>1, HandleBounds
    DEF InstanceDestroyed, ClearsOwn, rawFiles, digests, HandlesInv, HandlesTypeOK
  <2>4. EventsArrive'
    BY <1>4 DEF InstanceDestroyed, ClearsOwn, EventsArrive, HandlesInv
  <2>. QED BY <2>2, <2>3, <2>4 DEF HandlesInv
<1>5. CASE UNCHANGED handleVars
  BY <1>5 DEF handleVars, HandlesInv, HandlesTypeOK, IsQueue, InLine, Busy, ReadersHaveIt,
              DigestIsOurs, EventsArrive
<1>. QED BY <1>1, <1>2, <1>3, <1>4, <1>5 DEF HandlesNext

(* The chains, the descriptors and the readers keep their types.           *)
THEOREM HandlesTypeCorrect == HandlesSpec => []HandlesTypeOK
<1>1. HandlesInv => HandlesTypeOK
  BY DEF HandlesInv
<1>. QED BY <1>1, HandlesInitInv, HandlesStep, PTL DEF HandlesSpec

(* withRawFd, getBundleHash, EventHub: for any number of jobs on any files *)
(* nobody's descriptor is closed under him, nobody is told the digest of   *)
(* another binary, and the newest instance gets its events.                *)
THEOREM HandlesAlwaysStay == HandlesSpec => []HandlesStay
<1>1. HandlesInv => HandlesStay
  BY DEF HandlesInv, HandlesStay, ReadersHaveIt, DigestIsOurs, EventsArrive
<1>. QED BY HandlesInitInv, HandlesStep, <1>1, PTL DEF HandlesSpec

(***************************************************************************)
(* The move between stores keeps the identity of the install, and never    *)
(* replaces a configuration this SDK wrote.                                *)
(***************************************************************************)
(* What carries the uuid: the state file once it has a schema or the       *)
(* legacy keys are being removed, the legacy file until then.              *)
UuidIsCarried ==
    /\ stateFile["uuid"] # Empty \/ legacyFile["uuid"] # Empty
    /\ stateFile["schema"] # Empty \/ step = "removing" => stateFile["uuid"] # Empty
    /\ up /\ (state["schema"] # Empty \/ step = "flushing") => state["uuid"] # Empty
    /\ up /\ stateFile["uuid"] # Empty => state["uuid"] = stateFile["uuid"]

(* A store of a later SDK stays one, and no other becomes one.             *)
LaterKeepsIt ==
    /\ up => (LaterOwns(state) <=> LaterOwns(stateFile))
    /\ LaterOwns(stateFile) => stateFile["uuid"] = "later"

(* While every launch could read, the uuid is the one of the install.      *)
UuidIsTheirs ==
    ~unread /\ ~LaterOwns(stateFile) =>
        /\ stateFile["uuid"] \in {Empty, "legacy"}
        /\ stateFile["uuid"] = "legacy" \/ legacyFile["uuid"] = "legacy"
        /\ up => state["uuid"] = "legacy"

(* Memory has what the file has, or is newer.                              *)
ConfigIsKept == up /\ stateFile["config"] = "ours" => state["config"] = "ours"

(* Whatever a launch began ends with it.                                   *)
FlushesDieWithIt == step # "none" \/ dirty => up

MigrationInv ==
    /\ MigrationTypeOK /\ UuidIsCarried /\ LaterKeepsIt /\ UuidIsTheirs
    /\ ConfigIsKept /\ FlushesDieWithIt

USE DEF Empty, Value, Carried, Items, LegacyItems

(* The move starts with the identity in one of the stores.                 *)
LEMMA MigrationInitInv == MigrationInit => MigrationInv
<1>. SUFFICES ASSUME MigrationInit PROVE MigrationInv
  OBVIOUS
<1>1. /\ legacyFile = legacy /\ stateFile = state
      /\ up = FALSE /\ step = "none" /\ dirty = FALSE /\ boots = 0 /\ unread = FALSE
  BY DEF MigrationInit
<1>2. /\ state \in Items /\ legacy \in LegacyItems
      /\ \/ state["uuid"] = Empty /\ state["schema"] = Empty /\ legacy["uuid"] = "legacy"
         \/ state["uuid"] = "later" /\ state["schema"] = "later"
  BY DEF MigrationInit
<1>5. MigrationTypeOK
  <2>1. boots \in 0 .. MaxBoots
    BY <1>1, BootsAssumption
  <2>. HIDE DEF Items, LegacyItems
  <2>. QED BY <1>1, <1>2, <2>1 DEF MigrationTypeOK
<1>6. UuidIsCarried /\ LaterKeepsIt /\ UuidIsTheirs
  BY <1>1, <1>2 DEF UuidIsCarried, LaterKeepsIt, UuidIsTheirs, LaterOwns
<1>. QED BY <1>1, <1>5, <1>6 DEF MigrationInv, ConfigIsKept, FlushesDieWithIt

(* One launch, whatever the plan makes of the stores it finds.             *)
LEMMA StartsInv ==
    ASSUME MigrationInv, NEW s \in Items, NEW l \in LegacyItems,
           NEW next \in {"none", "flushing", "removing"}, NEW failed \in BOOLEAN,
           Starts(s, l, next, failed),
           stateFile["uuid"] # Empty => s["uuid"] = stateFile["uuid"],
           s["schema"] # Empty \/ next = "flushing" => s["uuid"] # Empty,
           next = "removing" => stateFile["uuid"] # Empty,
           LaterOwns(s) <=> LaterOwns(stateFile),
           ~failed /\ ~unread /\ ~LaterOwns(stateFile) => s["uuid"] = "legacy",
           stateFile["config"] = "ours" => s["config"] = "ours"
    PROVE  MigrationInv'
<1>1. /\ SyncBinary(s) \in Items /\ SyncBinary(s)["uuid"] = s["uuid"]
      /\ SyncBinary(s)["config"] = s["config"] /\ SyncBinary(s)["schema"] = s["schema"]
  BY DEF SyncBinary
<1>2. /\ state' = SyncBinary(s) /\ up' = TRUE /\ step' = next
      /\ unread' = (unread \/ failed) /\ UNCHANGED <<stateFile, legacyFile>>
  BY DEF Starts
<1>3. MigrationTypeOK'
  BY <1>1, BootsAssumption DEF MigrationInv, MigrationTypeOK, Starts
<1>4. UuidIsCarried'
  BY <1>1, <1>2 DEF MigrationInv, UuidIsCarried
<1>5. LaterKeepsIt'
  BY <1>1, <1>2 DEF MigrationInv, LaterKeepsIt, LaterOwns
<1>6. UuidIsTheirs'
  BY <1>1, <1>2 DEF MigrationInv, UuidIsTheirs, LaterOwns
<1>7. ConfigIsKept' /\ FlushesDieWithIt'
  BY <1>1, <1>2 DEF ConfigIsKept, FlushesDieWithIt
<1>. QED BY <1>3, <1>4, <1>5, <1>6, <1>7 DEF MigrationInv

(* Each kind of launch keeps the identity.                                 *)
LEMMA MoveKeepsInv ==
    ASSUME MigrationInv,
           LegacyUnreadable \/ PlanFails \/ Migrates \/ AlreadyMigrated \/ LeftToLater
    PROVE  MigrationInv'
<1>t. /\ stateFile \in Items /\ legacyFile \in LegacyItems
      /\ stateFile["schema"] # Empty => stateFile["uuid"] # Empty
      /\ stateFile["uuid"] # Empty \/ legacyFile["uuid"] # Empty
      /\ ~unread /\ ~LaterOwns(stateFile) =>
            stateFile["uuid"] \in {Empty, "legacy"} /\
            (stateFile["uuid"] = "legacy" \/ legacyFile["uuid"] = "legacy")
  BY DEF MigrationInv, MigrationTypeOK, UuidIsCarried, UuidIsTheirs
<1>1. CASE LegacyUnreadable
  BY <1>1, <1>t, StartsInv DEF LegacyUnreadable
<1>2. CASE PlanFails
  <2>. DEFINE s == CarryUuid(stateFile, legacyFile)
  <2>1. /\ s \in Items /\ s["config"] = stateFile["config"] /\ s["schema"] = stateFile["schema"]
        /\ s["uuid"] = IF stateFile["uuid"] = Empty THEN legacyFile["uuid"] ELSE stateFile["uuid"]
    BY <1>t DEF CarryUuid
  <2>2. Starts(s, legacyFile, "none", FALSE)
    BY <1>2 DEF PlanFails
  <2>3. LaterOwns(s) <=> LaterOwns(stateFile)
    BY <2>1 DEF LaterOwns
  <2>. HIDE DEF s
  <2>. QED BY <1>t, <2>1, <2>2, <2>3, StartsInv
<1>3. CASE Migrates
  <2>. DEFINE s == Puts(stateFile, legacyFile)
  <2>1. /\ s \in Items /\ s["schema"] = "ours"
        /\ s["uuid"] = IF stateFile["uuid"] = Empty THEN legacyFile["uuid"] ELSE stateFile["uuid"]
        /\ stateFile["config"] = "ours" => s["config"] = "ours"
    BY <1>t DEF Puts
  <2>2. Starts(s, legacyFile, "flushing", FALSE) /\ ~LaterOwns(stateFile)
    BY <1>3 DEF Migrates, Planned, LaterOwns
  <2>3. ~LaterOwns(s)
    BY <2>1 DEF LaterOwns
  <2>. HIDE DEF s
  <2>. QED BY <1>t, <2>1, <2>2, <2>3, StartsInv
<1>4. CASE AlreadyMigrated
  <2>1. Removed \in LegacyItems
    BY DEF Removed
  <2>2. stateFile["schema"] # Empty
    BY <1>4 DEF AlreadyMigrated, Planned
  <2>. QED BY <1>4, <1>t, <2>1, <2>2, StartsInv DEF AlreadyMigrated
<1>5. CASE LeftToLater
  BY <1>5, <1>t, StartsInv DEF LeftToLater
<1>. QED BY <1>1, <1>2, <1>3, <1>4, <1>5

(* Each step of the move, and a death after any, keeps the identity.       *)
LEMMA MigrationStep == MigrationInv /\ [MigrationNext]_migrationVars => MigrationInv'
<1>. SUFFICES ASSUME MigrationInv, [MigrationNext]_migrationVars
              PROVE  MigrationInv'
  OBVIOUS
<1>1. CASE LegacyUnreadable \/ PlanFails \/ Migrates \/ AlreadyMigrated \/ LeftToLater
  BY <1>1, MoveKeepsInv
<1>. USE DEF MigrationInv, MigrationTypeOK, LaterOwns
<1>5. ASSUME NEW ok \in BOOLEAN, MigrationFlushEnds(ok)
      PROVE  MigrationInv'
  <2>1. Removed \in LegacyItems
    BY DEF Removed
  <2>. QED BY <1>5, <2>1 DEF MigrationFlushEnds, Removes, UuidIsCarried, LaterKeepsIt,
                             UuidIsTheirs, ConfigIsKept, FlushesDieWithIt
<1>6. CASE LegacyFlushEnds
  BY <1>6 DEF LegacyFlushEnds, UuidIsCarried, LaterKeepsIt, UuidIsTheirs, ConfigIsKept,
              FlushesDieWithIt
<1>7. CASE FlushEndsLater
  BY <1>7 DEF FlushEndsLater, UuidIsCarried, LaterKeepsIt, UuidIsTheirs, ConfigIsKept,
              FlushesDieWithIt
<1>8. CASE DrawsUuid
  BY <1>8 DEF DrawsUuid, Drawn, UuidIsCarried, LaterKeepsIt, UuidIsTheirs, ConfigIsKept,
              FlushesDieWithIt
<1>9. CASE WritesConfig
  BY <1>9 DEF WritesConfig, Drawn, UuidIsCarried, LaterKeepsIt, UuidIsTheirs, ConfigIsKept,
              FlushesDieWithIt
<1>10. CASE Killed
  BY <1>10 DEF Killed, UuidIsCarried, LaterKeepsIt, UuidIsTheirs, ConfigIsKept,
               FlushesDieWithIt
<1>11. CASE UNCHANGED migrationVars
  BY <1>11 DEF migrationVars, UuidIsCarried, LaterKeepsIt, UuidIsTheirs, ConfigIsKept,
               FlushesDieWithIt
<1>. QED
  BY <1>1, <1>5, <1>6, <1>7, <1>8, <1>9, <1>10, <1>11
  DEF MigrationNext, MigrationAnswers

(* The stores and the launch keep their types.                             *)
THEOREM MigrationTypeCorrect == MigrationSpec => []MigrationTypeOK
<1>1. MigrationInv => MigrationTypeOK
  BY DEF MigrationInv
<1>. QED BY <1>1, MigrationInitInv, MigrationStep, PTL DEF MigrationSpec

(* UuidSurvives: the uuid of the install is in one of the two files, and   *)
(* in the memory of a process that could read them; without it a stored    *)
(* uuid is still the one that is used, for any MaxBoots.                   *)
THEOREM UuidAlwaysSurvives == MigrationSpec => []UuidSurvives
<1>1. MigrationInv => UuidSurvives
  BY DEF MigrationInv, UuidIsCarried, LaterKeepsIt, UuidIsTheirs, UuidSurvives, Identity
<1>. QED BY <1>1, MigrationInitInv, MigrationStep, PTL DEF MigrationSpec

(* StoreWins: a migration, or one that runs again after a failure, never   *)
(* replaces a configuration that this SDK stored.                          *)
THEOREM StoredConfigWins == MigrationSpec => StoreWins
<1>1. MigrationInv /\ [MigrationNext]_migrationVars
        => [stateFile["config"] = "ours" => stateFile'["config"] = "ours"]_migrationVars
  <2>. SUFFICES ASSUME MigrationInv, MigrationNext, stateFile["config"] = "ours"
                PROVE  stateFile'["config"] = "ours"
    OBVIOUS
  <2>. QED
    BY DEF MigrationNext, MigrationAnswers, MigrationInv, ConfigIsKept, FlushesDieWithIt,
       LegacyUnreadable, PlanFails, Migrates, AlreadyMigrated, LeftToLater, Starts, MigrationFlushEnds,
       LegacyFlushEnds, FlushEndsLater, DrawsUuid, WritesConfig, Drawn, Killed
<1>. QED BY <1>1, MigrationInitInv, MigrationStep, PTL DEF MigrationSpec, StoreWins

(***************************************************************************)
(* The port: each of its parts behaves as its own specification says.      *)
(***************************************************************************)
(* A step of the port is a step of each part, or leaves it alone.          *)
LEMMA PartsStep ==
    ASSUME [HarmonyNext]_harmonyVars
    PROVE  /\ [ContextNext]_contextVars /\ [DownloadNext]_downloadVars
           /\ [CoordinatorNext]_coordinatorVars /\ [MigrationNext]_migrationVars
           /\ [HandlesNext]_handleVars
BY DEF HarmonyNext, PartsRest, harmonyVars

(* Whatever the port does, each part does what its module promises of it:  *)
(* the theorems about the parts are theorems about the port.               *)
THEOREM PortRunsItsParts ==
    HarmonySpec =>
        ContextSpec /\ DownloadSpec /\ CoordinatorSpec /\ MigrationSpec /\ HandlesSpec
<1>1. HarmonyInit =>
          ContextInit /\ DownloadInit /\ CoordinatorInit /\ MigrationInit /\ HandlesInit
  BY DEF HarmonyInit
<1>. QED
  BY <1>1, PartsStep, PTL
     DEF HarmonySpec, ContextSpec, DownloadSpec, CoordinatorSpec, MigrationSpec, HandlesSpec

(* Every variable of the port keeps its type.                              *)
THEOREM HarmonyTypeCorrect == HarmonySpec => []HarmonyTypeOK
BY PortRunsItsParts, ContextTypeCorrect, DownloadTypeCorrect, CoordinatorTypeCorrect,
   MigrationTypeCorrect, HandlesTypeCorrect, PTL
   DEF HarmonyTypeOK
=============================================================================
