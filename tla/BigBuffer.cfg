SPECIFICATION Spec
INVARIANTS
    OneUser
    BufferComesBack
