\* The Bootstrapper implements the abstract bootstrap and eventually returns.
SPECIFICATION Spec
CONSTANTS
  MaxFaults = 2
PROPERTIES
  ImplementsAbstractBootstrap
  BootstrapperReturns
\* The Job completes once Bootstrap returns nil.
CHECK_DEADLOCK FALSE
