---------------------------- MODULE MCExtension ----------------------------
\* Model checking of Extension.
EXTENDS Extension

\* The log events that bear on the life of the invocation, those that yield a
\* function log, and all of them.
Lifecycle == << "runtimeDone", "report" >>
FunctionLog == << "start", "function" >>
AllLogs == FunctionLog \o Lifecycle

\* The registrations that agents may make: any, those of one request, none.
AnyRegistration == ReqIDs \X BOOLEAN
FirstRegisters == {<< 1, TRUE >>}
SecondRegisters == {<< 2, TRUE >>}
NobodyRegisters == {}
=============================================================================
