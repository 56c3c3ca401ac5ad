SPECIFICATION Spec
CONSTANT BufferCount = 2
INVARIANT ImageFresh
