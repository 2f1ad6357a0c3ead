SPECIFICATION Spec
CONSTANT d1 = d1
PROPERTY Converges
