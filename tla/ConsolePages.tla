---------------------------- MODULE ConsolePages ----------------------------
(***************************************************************************)
(* The storage object, status, configuration and API explorer pages of the *)
(* console UI, side by side.  They share no state; each is a component     *)
(* with variables of its own.                                              *)
(***************************************************************************)
EXTENDS StorageObjectPage

CONSTANTS Names, samples, Ranges, MaxReqs, MaxTime,         \* of StatusPage
          MaxDrops, MaxFiles, MaxDialogs, MaxDeletes,       \* of ConfigPage
          Rpcs, Apis, Bodies, MaxCalls, MaxSent             \* of ApiExplorer

VARIABLES
    \* StatusPage:
    sPage, sRange, sTimer, sGraph, sReqs, sNow, sUp, sFailed, sLate,
    \* ConfigPage:
    cOneFile, cUploading, cUploadSuccess, cUploadError, cDeleting, cDeleteSuccess,
    cDeleteError, cConfirmDeleteForm, cDialogs, cFiles, cDrops, cDeletes, cAsked, cLost,
    cRows,
    \* ApiExplorer:
    xSerial, xStage, xEndpoint, xMethod, xBody, xReadOnly, xAddVars, xVars, xResponse,
    xError, xCalls, xSent, xChosen

statusVars == <<sPage, sRange, sTimer, sGraph, sReqs, sNow, sUp, sFailed, sLate>>
configVars == <<cOneFile, cUploading, cUploadSuccess, cUploadError, cDeleting,
                cDeleteSuccess, cDeleteError, cConfirmDeleteForm, cDialogs, cFiles,
                cDrops, cDeletes, cAsked, cLost, cRows>>
explorerVars == <<xSerial, xStage, xEndpoint, xMethod, xBody, xReadOnly, xAddVars,
                  xVars, xResponse, xError, xCalls, xSent, xChosen>>

Status == INSTANCE StatusPage WITH
    page <- sPage, range <- sRange, timer <- sTimer, graph <- sGraph, reqs <- sReqs,
    now <- sNow, up <- sUp, failed <- sFailed, late <- sLate

Config == INSTANCE ConfigPage WITH
    OneFile <- cOneFile, uploading <- cUploading, uploadSuccess <- cUploadSuccess,
    uploadError <- cUploadError, deleting <- cDeleting, deleteSuccess <- cDeleteSuccess,
    deleteError <- cDeleteError, confirmDeleteForm <- cConfirmDeleteForm,
    dialogs <- cDialogs, files <- cFiles, drops <- cDrops, deletes <- cDeletes,
    asked <- cAsked, lost <- cLost, rows <- cRows

Explorer == INSTANCE ApiExplorer WITH
    Serial <- xSerial, stage <- xStage, endpoint <- xEndpoint, method <- xMethod,
    body <- xBody, readOnly <- xReadOnly, addVars <- xAddVars, vars <- xVars,
    response <- xResponse, error <- xError, calls <- xCalls, sent <- xSent,
    chosen <- xChosen

-----------------------------------------------------------------------------
(* The constants.                                                          *)

\* Series have points, ranges are periods, bounds are numbers.
StatusConstants ==
    /\ samples \in Nat \ {0}
    /\ Ranges \subseteq Nat
    /\ MaxReqs \in Nat /\ MaxTime \in Nat

ConfigConstants ==
    /\ MaxDrops \in Nat /\ MaxFiles \in Nat
    /\ MaxDialogs \in Nat /\ MaxDeletes \in Nat

ExplorerConstants == MaxCalls \in Nat /\ MaxSent \in Nat

ASSUME ConsolePagesAssumption == StatusConstants /\ ConfigConstants /\ ExplorerConstants

-----------------------------------------------------------------------------
(* Properties.                                                             *)

\* The types of the four pages: rows, graphs, flags, files, dialogs, editors and
\* requests under way stay in their domains.
PageTypesOK == TypeOK /\ Status!TypeOK /\ Config!TypeOK /\ Explorer!TypeOK

\* StatusPage: the series of all nodes end at the same time, and their points of answers
\* line up.
SeriesLineUp == Status!SeriesLineUp

\* StatusPage: the page polls at the range of the menu while it is open, and not
\* after it was left.
PollsAtRange == Status!PollsAtRange

\* ConfigPage: the flags that switch the page off come down again, and "successfully
\* imported" means that no file was refused.
FlagsTellTruth == Config!FlagsTellTruth

\* ApiExplorer: body and response belong to the endpoint and to the last call.
EditorsFitCall == Explorer!EditorsFitCall
=============================================================================
