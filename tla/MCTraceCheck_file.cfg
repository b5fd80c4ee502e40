\* strace -f -o FILE, as .github/workflows/trace-vs-model.yml runs it.
SPECIFICATION TraceSpec
CONSTANTS
  Thread = {t1, t2}
  MaxCalls = 2
  Style = {"number"}
INVARIANT NoConnectionPasses
CHECK_DEADLOCK FALSE
