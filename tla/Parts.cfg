\* One part at a time: streams of three segments; two tabs, three refresh
\* tokens, a limit of one login per window; two requests over three rows; the
\* bounds of the other parts are in MCParts.
CONSTANTS
  Actors = {a1, a2}
  Keys = {k1, k2}
SPECIFICATION Spec
SYMMETRY Symmetry
INVARIANTS TypeOK FramesArrive SessionsAreBounded DuplicatesBounded OneActivePerTracker MigrationsFit CaptureIsFaithful StoredIsFound ReportsSurvive ClassicReplayIsExact ReportAddsUp ProposalSpeaksForAll KnowledgeIsSound ReportsArrive HealthIsConsistent
PROPERTIES LockoutRunsOut ClosedStaysClosed
CHECK_DEADLOCK FALSE
