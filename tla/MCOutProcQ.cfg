SPECIFICATION Spec
CONSTANTS
  NULL = NULL
  MAXPROC = 3
  Queue = {readyQue}
PROPERTY OutAnywhere
