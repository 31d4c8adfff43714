---------------------------- MODULE MCLifecycle ----------------------------
\* Model checking of Lifecycle: fifths of a second, so that a tick is the margin.
EXTENDS Lifecycle
=============================================================================
