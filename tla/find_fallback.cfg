\* An unreachable LLM after one that found no hypothesis.
CONSTANT MaxRuns = 2
SPECIFICATION Spec
INVARIANT FallbackAnswers
