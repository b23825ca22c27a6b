--------------------------- MODULE MCAvInputProxy ---------------------------
(* Two attempts of one session: a looping source that is given up at its   *)
(* first failure, and an empty one that is played once but retried, each   *)
(* with the reads of a controller and those of another user.  The          *)
(* variables that the media source also has are renamed, so that the two   *)
(* can be extended side by side (AvMediaSourceProofs).                     *)
EXTENDS Integers

CONSTANTS Configs, MaxAttempts, MaxSessions
VARIABLES config, proxyStopping, available, proxyNews, proxyStatus, info, terminal,
          currentInput, retries, control, publishing, after, outcome, attempt, inputState,
          inputCancelled, inputWorker, buffer, produced, proxyReader, mode, readInput,
          readInfo, proxyStopper, stopInput, eofs, reopened, sessions

Link == INSTANCE AvInputProxy WITH
  stopping <- proxyStopping, news <- proxyNews, status <- proxyStatus,
  input <- currentInput, conn <- inputState, cancelled <- inputCancelled,
  reader <- proxyReader, stopper <- proxyStopper

ASSUME ProxyAssumption == Link!ProxyParameters

MCConfigs ==
  {[loop |-> TRUE, maxRetries |-> 0, packets |-> 1, reads |-> {"wait", "change"}],
   [loop |-> FALSE, maxRetries |-> 1, packets |-> 0, reads |-> {"try", "change"}]}

ProxySpec == Link!Spec

\* A packet is returned with the description of the input it comes from, even
\* when the control worker replaces the input (AvInputProxy.tla; ReadPacket, Run).
InfoMatchesInput == Link!InfoMatchesInput
\* A loop reports EOF at most once for an input, and none is replaced before its
\* EOF was seen (AvInputProxy.tla; ReadPacket, InputChanged, Run).
EofSeenOnce == Link!EofSeenOnce
\* The proxy gives up after exactly max_retries further attempts
\* (AvInputProxy.tla; Run).
RetryBudget == Link!RetryBudget
\* A stop cancels the input that is opened or open, also one that Open has just
\* reset (AvInputProxy.tla; RequestStop, InputChanged).
StopCancels == Link!StopCancels
\* Stop and the reads return, whatever the source does (AvInputProxy.tla; Stop,
\* InputChanged, ReadPacket, Publish).
CallsReturn == Link!CallsReturn
=============================================================================
